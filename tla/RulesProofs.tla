---------------------------- MODULE RulesProofs ----------------------------
(***************************************************************************)
(* Theorems about the choice of blueprints and of template options, about  *)
(* what an owner reports, about what is made of an admitted blueprint, and *)
(* about cartotest.                                                        *)
(*                                                                         *)
(* MostSpecificIsSelected rests on what the loop of                        *)
(* BestSelectorMatchIndices finds: its values are those of a recursive     *)
(* function, which exists because every turn maps accumulators to          *)
(* accumulators, and what they hold is shown by induction over the turns.  *)
(* Chosen is the invariant of the pipeline that carries the choices along. *)
(*                                                                         *)
(* ReportTellsTheTruth rests on Honest: every turn of Realize leaves an    *)
(* entry in the status that agrees with what Do returned (Entry, for every *)
(* resource in Told), and every object on the API server is one of the     *)
(* resource that its key names, whoever has edited it (KeptObjects).       *)
(*                                                                         *)
(* AdmittedCanBeRealized rests on Realized: every output that is known is  *)
(* of the kind of its resource (ResultsAre), which with the checks of the  *)
(* webhooks leaves only the reasons of Unfilled for a tag that cannot be   *)
(* filled in, and the cache holds what was submitted (CacheIsSubmitted),   *)
(* so that an object that is left alone has the spec that was stamped.     *)
(* What the loops of Merge and of the inputs assign is AssignAllAssigns.   *)
(*                                                                         *)
(* SuiteTellsTheTruth rests on BuiltWell: every test that has been built   *)
(* says what the directories on its path say, and the options that were    *)
(* allocated for a directory hold the last word of those that write to it. *)
(* SuiteInv ties the verdicts and the outcome to the tests.                *)
(***************************************************************************)
EXTENDS BlueprintPipeline, Cartotest, FiniteSetTheorems, SequenceTheorems, WellFoundedInduction, TLAPS

\* A set of natural numbers that is not empty has a least element.
LEMMA Least ==
    ASSUME NEW T, T \subseteq Nat, T # {}
    PROVE  \E n \in T : \A m \in T : n <= m
<1> DEFINE R == OpToRel(<, Nat)
<1>1. IsWellFoundedOn(R, Nat)
  BY NatLessThanWellFounded
<1>2. \A a, b \in Nat : a < b => <<a, b>> \in R
  BY DEF OpToRel
<1> HIDE DEF R
<1>3. PICK x \in T : \A y \in T : ~ (<<y, x>> \in R)
  BY <1>1, WFMin
<1>4. \A y \in T : ~(y < x)
  BY <1>2, <1>3
<1>5. \A y \in T : x <= y
  BY <1>4
<1> QED BY <1>5

\* Induction, with the set of the numbers that have the property.
LEMMA Induction ==
    ASSUME NEW S, 0 \in S, \A n \in Nat : n \in S => n + 1 \in S
    PROVE  Nat \subseteq S
<1> SUFFICES ASSUME ~(Nat \subseteq S) PROVE FALSE
  OBVIOUS
<1> DEFINE T == Nat \ S
<1>1. T \subseteq Nat /\ T # {}
  OBVIOUS
<1> HIDE DEF T
<1>2. PICK n \in T : \A m \in T : n <= m
  BY <1>1, Least
<1>3. n \in Nat /\ n # 0 
  BY <1>1 DEF T
<1>4. n - 1 \in Nat /\ n - 1 + 1 = n /\ ~(n <= n - 1)
  BY <1>3
<1>5. n - 1 \in S
  BY <1>2, <1>4 DEF T
<1>6. n \in S
  BY <1>4, <1>5
<1> QED BY <1>6 DEF T

\* The same over the turns of a loop.
LEMMA TurnInduction ==
    ASSUME NEW n \in Nat, NEW S, 0 \in S, \A i \in 1..n : i - 1 \in S => i \in S
    PROVE  0..n \subseteq S
<1> DEFINE All == {k \in Nat : k <= n => k \in S}
<1>1. 0 \in All
  OBVIOUS
<1>2. ASSUME NEW k \in Nat, k \in All PROVE k + 1 \in All
  <2>1. SUFFICES ASSUME k + 1 <= n PROVE k + 1 \in S
    OBVIOUS
  <2>2. k + 1 \in 1..n /\ (k + 1) - 1 = k /\ k <= n
    BY <2>1
  <2> QED BY <1>2, <2>2
<1> HIDE DEF All
<1>3. Nat \subseteq All
  BY <1>1, <1>2, Induction
<1> QED BY <1>3 DEF All

\* The values of a loop after each of its turns.
LoopValues(f, n, A, init, step) ==
    f \in [0..n -> A] /\ f[0] = init /\ \A i \in 1..n : f[i] = step[i][f[i - 1]]

\* A loop whose turns map a set into itself has a value after every turn.
LEMMA LoopHasValues ==
    ASSUME NEW n \in Nat, NEW A, NEW init \in A, NEW step \in [1..n -> [A -> A]]
    PROVE  \E f : LoopValues(f, n, A, init, step)
<1> USE DEF LoopValues
<1> DEFINE Good(k, f) == LoopValues(f, k, A, init, step)
           S == {k \in 0..n : \E f : Good(k, f)}
<1>1. 0 \in S
  <2>1. Good(0, [i \in 0..0 |-> init])
    OBVIOUS
  <2>2. 0 \in 0..n
    OBVIOUS
  <2> HIDE DEF Good
  <2> QED BY <2>1, <2>2
<1>2. ASSUME NEW i \in 1..n, i - 1 \in S PROVE i \in S
  <2>1. PICK f : Good(i - 1, f)
    BY <1>2
  <2> DEFINE g == [j \in 0..i |-> IF j = i THEN step[i][f[i - 1]] ELSE f[j]]
  <2>2. i - 1 \in 0..(i - 1) /\ 0..(i - 1) = 0..i \ {i} /\ 1..(i-1) = 1..i \ {i} /\ 0 \in 0..(i - 1)
    OBVIOUS
  <2>3. step[i][f[i - 1]] \in A
    BY <2>1, <2>2
  <2>4. g \in [0..i -> A] /\ g[0] = init
    BY <2>1, <2>2, <2>3
  <2>5. ASSUME NEW j \in 1..i PROVE g[j] = step[j][g[j - 1]]
    <3>1. j - 1 \in 0..i /\ j \in 0..i /\ j - 1 # i /\ (j # i => j \in 1..(i - 1))
      OBVIOUS
    <3>2. g[j - 1] = f[j - 1]
      BY <3>1
    <3>3. CASE j = i
      BY <3>1, <3>2, <3>3
    <3>4. CASE j # i
      <4>1. g[j] = f[j] /\ f[j] = step[j][f[j - 1]]
        BY <3>1, <3>4, <2>1
      <4> QED BY <4>1, <3>2
    <3> QED BY <3>3, <3>4
  <2>6. Good(i, g)
    BY <2>4, <2>5
  <2> HIDE DEF Good
  <2> QED BY <2>6
<1> HIDE DEF S
<1>3. 0..n \subseteq S
  BY <1>1, <1>2, TurnInduction
<1>4. n \in S
  BY <1>3
<1> QED BY <1>4 DEF S

-----------------------------------------------------------------------------
(***************************************************************************)
(* The loop of BestSelectorMatchIndices.                                   *)
(***************************************************************************)
Fits == {"match", "no match", "invalid"}
Accumulators(n) == [mark : Nat, best : Seq(1..n), err : 0..n]
NothingYet == [mark |-> HighWaterMark, best |-> <<>>, err |-> 0]

\* After i turns: the best ones so far are all those that match with the score
\* of the mark, each once; an error names a selector that cannot be evaluated.
Judged(acc, i, fit, score) ==
    /\ acc.err = 0 =>
         /\ acc.mark >= 1 /\ (acc.best = <<>> => acc.mark = 1)
         /\ \A j \in 1..i : fit[j] # "invalid"
         /\ \A j \in 1..i : fit[j] = "match" => score[j] <= acc.mark
         /\ \A j \in 1..i : fit[j] = "match" /\ score[j] = acc.mark => \E k \in DOMAIN acc.best : acc.best[k] = j
         /\ \A k \in DOMAIN acc.best :
              acc.best[k] \in 1..i /\ fit[acc.best[k]] = "match" /\ score[acc.best[k]] = acc.mark
         /\ \A k, l \in DOMAIN acc.best : k # l => acc.best[k] # acc.best[l]
    /\ acc.err # 0 => acc.err \in 1..i /\ fit[acc.err] = "invalid" /\ acc.best = <<>>

\* What the loop has found in the end.
Found(found, n, fit, score) ==
    /\ found.best \in Seq(1..n)
    /\ found.err # 0 => found.best = <<>> /\ \E j \in 1..n : fit[j] = "invalid"
    /\ found.err = 0 => \A j \in 1..n : fit[j] # "invalid"
    /\ found.err = 0 /\ found.best = <<>> => \A j \in 1..n : fit[j] # "match"
    /\ Len(found.best) = 1 =>
         /\ found.best[1] \in 1..n /\ fit[found.best[1]] = "match"
         /\ \A j \in 1..n : j # found.best[1] /\ fit[j] = "match" => score[j] < score[found.best[1]]
    /\ Len(found.best) > 1 =>
         \E j, k \in 1..n : /\ j # k /\ fit[j] = "match" /\ fit[k] = "match" /\ score[j] = score[k]
                            /\ \A l \in 1..n : fit[l] = "match" => score[l] <= score[j]

\* A turn of the loop keeps the types (Improve).
LEMMA ImproveType ==
    ASSUME NEW n \in Nat, NEW acc \in Accumulators(n), NEW i \in 1..n, NEW fit \in Fits, NEW score \in Nat
    PROVE  Improve(acc, i, fit, score) \in Accumulators(n)
<1>1. acc.mark \in Nat /\ acc.best \in Seq(1..n) /\ acc.err \in 0..n /\ i \in 0..n
  BY DEF Accumulators
<1>2. Append(acc.best, i) \in Seq(1..n) /\ <<i>> \in Seq(1..n) /\ <<>> \in Seq(1..n)
  BY <1>1
<1>3. score < acc.mark \/ score = acc.mark \/ score > acc.mark
  BY <1>1
<1> QED BY <1>1, <1>2, <1>3 DEF Improve, Accumulators, Fits

\* A turn of the loop keeps what is known of the best ones (Improve).
LEMMA ImproveJudges ==
    ASSUME NEW n \in Nat, NEW i \in 1..n, NEW acc \in Accumulators(n),
           NEW fit \in [1..n -> Fits], NEW score \in [1..n -> Nat \ {0}],
           Judged(acc, i - 1, fit, score)
    PROVE  Judged(Improve(acc, i, fit[i], score[i]), i, fit, score)
<1> DEFINE new == Improve(acc, i, fit[i], score[i])
<1>1. acc.mark \in Nat /\ acc.best \in Seq(1..n) /\ acc.err \in 0..n /\ fit[i] \in Fits /\ score[i] \in Nat /\ score[i] >= 1
  BY DEF Accumulators
<1>2. 1..i = 1..(i - 1) \cup {i} /\ i \notin 1..(i - 1) /\ 1..i \subseteq 1..n /\ i # 0
  OBVIOUS
<1>3. score[i] < acc.mark \/ score[i] = acc.mark \/ score[i] > acc.mark
  BY <1>1
<1>4. CASE acc.err # 0
  <2>1. new = acc
    BY <1>4 DEF Improve
  <2> QED BY <2>1, <1>4, <1>2 DEF Judged
<1>5. CASE acc.err = 0 /\ fit[i] = "no match"
  <2>1. new = acc
    BY <1>5 DEF Improve
  <2> HIDE DEF new
  <2>3. \A j \in 1..i : j # i => j \in 1..(i - 1)
    BY <1>2
  <2>4. \A j \in 1..i : fit[j] = "match" => score[j] <= acc.mark
    BY <2>3, <1>5, <1>2 DEF Judged
  <2>5. \A j \in 1..i : fit[j] = "match" /\ score[j] = acc.mark => \E k \in DOMAIN acc.best : acc.best[k] = j
    BY <2>3, <1>5, <1>2 DEF Judged
  <2>6. Judged(acc, i, fit, score)
    BY <2>3, <2>4, <2>5, <1>5, <1>2 DEF Judged
  <2>7. Judged(new, i, fit, score)
    BY <2>1, <2>6
  <2> QED BY <2>7 DEF new
<1>6. CASE acc.err = 0 /\ fit[i] = "invalid"
  <2>1. new.err = i /\ new.best = <<>>
    BY <1>6, <1>1 DEF Improve, Accumulators
  <2>2. i \in 1..i
    OBVIOUS
  <2> QED BY <2>1, <2>2, <1>6, <1>2 DEF Judged
<1>7. CASE acc.err = 0 /\ fit[i] = "match" /\ score[i] < acc.mark
  <2>1. new = acc
    BY <1>7, <1>1 DEF Improve
  <2>2. score[i] <= acc.mark /\ score[i] # acc.mark
    BY <1>7, <1>1
  <2> HIDE DEF new
  <2>3. \A j \in 1..i : j # i => j \in 1..(i - 1)
    BY <1>2
  <2>4. \A j \in 1..i : fit[j] = "match" => score[j] <= acc.mark
    BY <2>2, <2>3, <1>7, <1>2 DEF Judged
  <2>5. \A j \in 1..i : fit[j] = "match" /\ score[j] = acc.mark => \E k \in DOMAIN acc.best : acc.best[k] = j
    BY <2>2, <2>3, <1>7, <1>2 DEF Judged
  <2>6. Judged(acc, i, fit, score)
    BY <2>3, <2>4, <2>5, <1>7, <1>2 DEF Judged
  <2>7. Judged(new, i, fit, score)
    BY <2>1, <2>6
  <2> QED BY <2>7 DEF new
<1>8. CASE acc.err = 0 /\ fit[i] = "match" /\ score[i] = acc.mark
  <2>1. new = [acc EXCEPT !.best = Append(@, i)]
    BY <1>8, <1>1 DEF Improve
  <2>2. new.err = 0 /\ new.mark = acc.mark /\ new.best = Append(acc.best, i)
    BY <2>1, <1>8 DEF Accumulators
  <2>3. /\ DOMAIN new.best = DOMAIN acc.best \cup {Len(acc.best) + 1}
        /\ Len(acc.best) + 1 \notin DOMAIN acc.best
        /\ new.best[Len(acc.best) + 1] = i
        /\ \A k \in DOMAIN acc.best : new.best[k] = acc.best[k]
        /\ new.best # <<>>
    <3> DEFINE b == acc.best
    <3>1. b \in Seq(1..n) /\ Len(b) \in Nat /\ DOMAIN b = 1..Len(b)
      BY <1>1
    <3> HIDE DEF b
    <3>2. /\ Append(b, i) \in Seq(1..n) /\ Len(Append(b, i)) = Len(b) + 1
          /\ Append(b, i)[Len(b) + 1] = i /\ \A k \in 1..Len(b) : Append(b, i)[k] = b[k]
      BY <3>1
    <3>3. DOMAIN Append(b, i) = 1..(Len(b) + 1) /\ Append(b, i) # <<>>
      <4> DEFINE c == Append(b, i)
      <4> HIDE DEF c
      <4>1. c \in Seq(1..n) /\ Len(c) = Len(b) + 1
        BY <3>2 DEF c
      <4>2. DOMAIN c = 1..Len(c) /\ Len(c) > 0
        BY <4>1, <3>1
      <4>3. c # <<>>
        BY <4>2
      <4> QED BY <4>1, <4>2, <4>3 DEF c
    <3>4. 1..(Len(b) + 1) = 1..Len(b) \cup {Len(b) + 1} /\ Len(b) + 1 \notin 1..Len(b)
      BY <3>1
    <3>5. new.best = Append(b, i)
      BY <2>2 DEF b
    <3> HIDE DEF new
    <3> QED BY <3>1, <3>2, <3>3, <3>4, <3>5 DEF b
  <2>4. score[i] <= acc.mark
    BY <1>8, <1>1
  <2> HIDE DEF new
  <2>5. \A j \in 1..i : fit[j] = "match" => score[j] <= new.mark
    BY <2>2, <2>4, <1>8, <1>2 DEF Judged
  <2>6. \A j \in 1..i : fit[j] # "invalid"
    BY <2>2, <1>8, <1>2 DEF Judged
  <2>7. \A j \in 1..i : fit[j] = "match" /\ score[j] = new.mark => \E k \in DOMAIN new.best : new.best[k] = j
    BY <2>2, <2>3, <1>8, <1>2 DEF Judged
  <2>8. \A k \in DOMAIN new.best :
              new.best[k] \in 1..i /\ fit[new.best[k]] = "match" /\ score[new.best[k]] = new.mark
    BY <2>2, <2>3, <1>8, <1>2 DEF Judged
  <2>9. \A k, l \in DOMAIN new.best : k # l => new.best[k] # new.best[l]
    BY <2>2, <2>3, <1>8, <1>2 DEF Judged
  <2>10. new.mark >= 1
    BY <2>2, <1>8 DEF Judged
  <2>11. Judged(new, i, fit, score)
    BY <2>2, <2>3, <2>5, <2>6, <2>7, <2>8, <2>9, <2>10 DEF Judged
  <2> QED BY <2>11 DEF new
<1>9. CASE acc.err = 0 /\ fit[i] = "match" /\ score[i] > acc.mark
  <2>1. new = [acc EXCEPT !.best = <<i>>, !.mark = score[i]]
    BY <1>9, <1>1 DEF Improve
  <2>2. new.err = 0 /\ new.mark = score[i] /\ new.best = <<i>>
    BY <2>1, <1>9 DEF Accumulators
  <2>3. DOMAIN new.best = {1} /\ new.best[1] = i /\ new.best # <<>>
    BY <2>2
  <2>4. \A j \in 1..(i - 1) : fit[j] = "match" => score[j] <= score[i] /\ score[j] # score[i]
    <3>1. \A j \in 1..(i - 1) : fit[j] = "match" => score[j] <= acc.mark
      BY <1>9 DEF Judged
    <3>2. \A j \in 1..(i - 1) : score[j] \in Nat
      BY <1>2
    <3> QED BY <3>1, <3>2, <1>1, <1>9
  <2>5. score[i] <= score[i]
    BY <1>1
  <2> HIDE DEF new
  <2>6. \A j \in 1..i : fit[j] = "match" => score[j] <= new.mark
    BY <2>2, <2>4, <2>5, <1>2
  <2>7. \A j \in 1..i : fit[j] # "invalid"
    BY <2>2, <1>9, <1>2 DEF Judged
  <2>8. \A j \in 1..i : fit[j] = "match" /\ score[j] = new.mark => \E k \in DOMAIN new.best : new.best[k] = j
    BY <2>2, <2>3, <2>4, <1>2
  <2>9. \A k \in DOMAIN new.best :
              new.best[k] \in 1..i /\ fit[new.best[k]] = "match" /\ score[new.best[k]] = new.mark
    BY <2>2, <2>3, <1>9, <1>2
  <2>10. Judged(new, i, fit, score)
    BY <2>2, <2>3, <2>6, <2>7, <2>8, <2>9, <1>1 DEF Judged
  <2> QED BY <2>10 DEF new
<1> QED BY <1>1, <1>3, <1>4, <1>5, <1>6, <1>7, <1>8, <1>9 DEF Fits

\* The values of the loop of BestSelectorMatchIndices exist, and it returns the last one.
LEMMA BestSelectorLoop ==
    ASSUME NEW owner, NEW S, NEW selectors \in Seq(S),
           \A i \in 1..Len(selectors) : Specificity(selectors[i]) \in Nat /\ Fit(owner, selectors[i]) \in Fits
    PROVE  \E f \in [0..Len(selectors) -> Accumulators(Len(selectors))] :
              /\ f[0] = NothingYet
              /\ \A i \in 1..Len(selectors) :
                    f[i] = Improve(f[i - 1], i, Fit(owner, selectors[i]), Specificity(selectors[i]))
              /\ BestSelectorMatchIndices(owner, selectors) = f[Len(selectors)]
<1> DEFINE n == Len(selectors)
           A == Accumulators(n)
           Turn(i, acc) == Improve(acc, i, Fit(owner, selectors[i]), Specificity(selectors[i]))
           step == [i \in 1..n |-> [acc \in A |-> Turn(i, acc)]]
           Is(f) == f = [i \in 0..n |-> IF i = 0 THEN NothingYet ELSE Turn(i, f[i - 1])]
<1>1. n \in Nat
  OBVIOUS
<1>2. NothingYet \in A
  BY <1>1 DEF NothingYet, Accumulators, HighWaterMark
<1>3. \A i \in 1..n : \A acc \in A : Turn(i, acc) \in A
  BY <1>1, ImproveType
<1>4. step \in [1..n -> [A -> A]]
  BY <1>3
<1> HIDE DEF n, A, Turn
<1>5. \A i \in 1..n, acc \in A : step[i][acc] = Turn(i, acc)
  OBVIOUS
<1> HIDE DEF step
<1>0. PICK f : LoopValues(f, n, A, NothingYet, step)
  BY <1>1, <1>2, <1>4, LoopHasValues
<1>6. f \in [0..n -> A] /\ f[0] = NothingYet /\ \A i \in 1..n : f[i] = step[i][f[i - 1]]
  BY <1>0 DEF LoopValues
<1>7. \A i \in 1..n : i - 1 \in 0..n /\ i \in 0..n /\ i # 0
  BY <1>1
<1>8. \A i \in 1..n : f[i] = Turn(i, f[i - 1])
  BY <1>5, <1>6, <1>7
<1>9. \A i \in 0..n : i # 0 => i \in 1..n
  BY <1>1
<1>10. \A i \in 0..n : f[i] = IF i = 0 THEN NothingYet ELSE Turn(i, f[i - 1])
  BY <1>6, <1>8, <1>9
<1>11. Is(f)
  BY <1>6, <1>10
<1> DEFINE g == CHOOSE h : Is(h)
<1>12. Is(g)
  BY <1>11
<1>13. BestSelectorMatchIndices(owner, selectors) = g[n]
  BY DEF BestSelectorMatchIndices, ConsiderSelector, NothingYet, n, Turn
<1> HIDE DEF g
<1>14. g[0] = NothingYet /\ \A i \in 1..n : g[i] = Turn(i, g[i - 1])
  BY <1>1, <1>7, <1>12
<1>15. g \in [0..n -> A]
  <2> DEFINE D == {i \in 0..n : g[i] \in A}
  <2>1. 0 \in D
    BY <1>1, <1>2, <1>14
  <2>2. \A i \in 1..n : i - 1 \in D => i \in D
    BY <1>3, <1>7, <1>14
  <2> HIDE DEF D
  <2>3. 0..n \subseteq D
    BY <1>1, <2>1, <2>2, TurnInduction
  <2> QED BY <1>12, <2>3 DEF D
<1> QED BY <1>13, <1>14, <1>15 DEF n, A, Turn

\* What BestSelectorMatchIndices finds.
LEMMA BestSelectorMatchIndicesFinds ==
    ASSUME NEW owner, NEW S, NEW selectors \in Seq(S),
           \A i \in 1..Len(selectors) : Specificity(selectors[i]) \in Nat \ {0} /\ Fit(owner, selectors[i]) \in Fits
    PROVE  Found(BestSelectorMatchIndices(owner, selectors), Len(selectors),
                 [i \in 1..Len(selectors) |-> Fit(owner, selectors[i])],
                 [i \in 1..Len(selectors) |-> Specificity(selectors[i])])
<1> DEFINE n == Len(selectors)
           fit == [i \in 1..n |-> Fit(owner, selectors[i])]
           score == [i \in 1..n |-> Specificity(selectors[i])]
           found == BestSelectorMatchIndices(owner, selectors)
<1>1. n \in Nat /\ fit \in [1..n -> Fits] /\ score \in [1..n -> Nat \ {0}]
  OBVIOUS
<1>2. PICK f \in [0..n -> Accumulators(n)] :
              /\ f[0] = NothingYet
              /\ \A i \in 1..n : f[i] = Improve(f[i - 1], i, fit[i], score[i])
              /\ found = f[n]
  BY BestSelectorLoop
<1> HIDE DEF n, fit, score, found
<1> DEFINE D == {i \in 0..n : Judged(f[i], i, fit, score)}
<1>3. 0 \in D
  <2>1. Judged(NothingYet, 0, fit, score)
    BY DEF Judged, NothingYet, HighWaterMark
  <2> QED BY <2>1, <1>1, <1>2
<1>4. ASSUME NEW i \in 1..n, i - 1 \in D PROVE i \in D
  <2>1. i - 1 \in 0..n /\ i \in 0..n
    BY <1>1
  <2>2. Judged(Improve(f[i - 1], i, fit[i], score[i]), i, fit, score)
    BY <1>1, <1>2, <1>4, <2>1, ImproveJudges
  <2> QED BY <2>1, <2>2, <1>2
<1> HIDE DEF D
<1>5. 0..n \subseteq D
  BY <1>1, <1>3, <1>4, TurnInduction
<1>6. found \in Accumulators(n) /\ Judged(found, n, fit, score)
  BY <1>1, <1>2, <1>5 DEF D
<1>7. found.best \in Seq(1..n) /\ found.mark \in Nat /\ found.err \in 0..n
  BY <1>6 DEF Accumulators
<1>8. found.err # 0 => found.best = <<>> /\ \E j \in 1..n : fit[j] = "invalid"
  BY <1>6 DEF Judged
<1>9. found.err = 0 => \A j \in 1..n : fit[j] # "invalid"
  BY <1>6 DEF Judged
<1>10. found.err = 0 /\ found.best = <<>> => \A j \in 1..n : fit[j] # "match"
  <2> SUFFICES ASSUME found.err = 0, found.best = <<>>, NEW j \in 1..n, fit[j] = "match" PROVE FALSE
    OBVIOUS
  <2>1. found.mark = 1 /\ score[j] <= found.mark /\ score[j] \in Nat \ {0}
    BY <1>1, <1>6 DEF Judged
  <2>2. score[j] = found.mark
    BY <2>1
  <2>3. \E k \in DOMAIN found.best : found.best[k] = j
    BY <1>6, <2>2 DEF Judged
  <2> QED BY <2>3
<1>11. ASSUME Len(found.best) >= 1 PROVE found.err = 0 /\ 1 \in DOMAIN found.best
  BY <1>7, <1>8, <1>11
<1>12. ASSUME Len(found.best) = 1
       PROVE  /\ found.best[1] \in 1..n /\ fit[found.best[1]] = "match"
              /\ \A j \in 1..n : j # found.best[1] /\ fit[j] = "match" => score[j] < score[found.best[1]]
  <2>1. found.err = 0 /\ DOMAIN found.best = {1}
    BY <1>7, <1>11, <1>12
  <2>2. found.best[1] \in 1..n /\ fit[found.best[1]] = "match" /\ score[found.best[1]] = found.mark
    BY <2>1, <1>6 DEF Judged
  <2>3. ASSUME NEW j \in 1..n, j # found.best[1], fit[j] = "match" PROVE score[j] < found.mark
    <3>1. score[j] <= found.mark /\ score[j] # found.mark /\ score[j] \in Nat
      BY <1>1, <1>6, <2>1, <2>3 DEF Judged
    <3> QED BY <3>1, <1>7
  <2> QED BY <2>2, <2>3
<1>13. ASSUME Len(found.best) > 1
       PROVE  \E j, k \in 1..n : /\ j # k /\ fit[j] = "match" /\ fit[k] = "match" /\ score[j] = score[k]
                                 /\ \A l \in 1..n : fit[l] = "match" => score[l] <= score[j]
  <2>1. found.err = 0 /\ 1 \in DOMAIN found.best /\ 2 \in DOMAIN found.best
    BY <1>7, <1>11, <1>13
  <2>2. /\ found.best[1] \in 1..n /\ fit[found.best[1]] = "match" /\ score[found.best[1]] = found.mark
        /\ found.best[2] \in 1..n /\ fit[found.best[2]] = "match" /\ score[found.best[2]] = found.mark
        /\ found.best[1] # found.best[2]
        /\ \A l \in 1..n : fit[l] = "match" => score[l] <= found.mark
    BY <2>1, <1>6 DEF Judged
  <2> QED BY <2>2
<1>14. Found(found, n, fit, score)
  BY <1>7, <1>8, <1>9, <1>10, <1>12, <1>13 DEF Found
<1> QED BY <1>14 DEF n, fit, score, found

-----------------------------------------------------------------------------
(***************************************************************************)
(* What a selector that was let in means to the loop.                      *)
(***************************************************************************)
Judgeable(owner, s) ==
    /\ ValidLabelSelector(s) /\ IsFiniteSet(s.labels)
    /\ s.labels # {} \/ s.exprs # <<>> \/ s.fields # <<>>
    /\ s.exprs \in Seq(ToSet(s.exprs)) /\ s.fields \in Seq(ToSet(s.fields))
    /\ \A i \in DOMAIN s.fields :
          /\ s.fields[i].op \in FieldSelectorOperators
          /\ s.fields[i].key \in DOMAIN owner.fields
          /\ owner.fields[s.fields[i].key] \in Seq(ToSet(owner.fields[s.fields[i].key]))

\* A requirement of a field that has at most one value is judged by what it
\* means; one of a field with several values cannot be judged (Matches).
LEMMA MatchesMeans ==
    ASSUME NEW req, NEW fields, NEW V,
           req.op \in FieldSelectorOperators, req.key \in DOMAIN fields, fields[req.key] \in Seq(V)
    PROVE  /\ Len(fields[req.key]) > 1 => Matches(req, fields) = "invalid"
           /\ ~(Len(fields[req.key]) > 1) =>
                Matches(req, fields) # "invalid" /\ (Matches(req, fields) = "match" <=> Satisfied(req, fields))
<1> DEFINE list == fields[req.key]
           found == {list[i] : i \in DOMAIN list}
<1>1. Len(list) \in Nat /\ DOMAIN list = 1..Len(list)
  OBVIOUS
<1>2. CASE Len(list) > 1
  <2>1. EvaluateJsonPath(req.key, fields).err = "invalid"
    BY <1>2 DEF EvaluateJsonPath, SinglePathEvaluate
  <2> QED BY <1>2, <2>1 DEF Matches
<1>3. CASE Len(list) = 0
  <2>1. list = <<>> /\ found = {}
    BY <1>1, <1>3
  <2>2. ~(Len(list) > 1)
    BY <1>3
  <2>3. EvaluateJsonPath(req.key, fields) = [err |-> "missing", value |-> Nil]
    BY <2>1, <2>2 DEF EvaluateJsonPath, SinglePathEvaluate
  <2>4. req.op = "DoesNotExist" => Matches(req, fields) = "match"
    BY <2>3 DEF Matches, FieldSelectorOperators
  <2>5. req.op # "DoesNotExist" => Matches(req, fields) = "missing"
    BY <2>3 DEF Matches
  <2>6. Satisfied(req, fields) <=> req.op = "DoesNotExist"
    BY <2>1 DEF Satisfied, FieldSelectorOperators
  <2> QED BY <2>2, <2>4, <2>5, <2>6
<1>4. CASE Len(list) = 1
  <2> DEFINE v == list[1]
  <2>0. DOMAIN list = {1}
    BY <1>1, <1>4
  <2>1. list # <<>> /\ DOMAIN list = {1} /\ found = {v}
    <3>1. found = {list[i] : i \in {1}}
      BY <2>0
    <3>2. list # <<>>
      <4>1. Len(<<>>) # 1
        OBVIOUS
      <4> HIDE DEF list
      <4> QED BY <4>1, <1>4, Zenon
    <3> QED BY <2>0, <3>1, <3>2
  <2>2. ~(Len(list) > 1)
    BY <1>4
  <2>3. EvaluateJsonPath(req.key, fields) = [err |-> "none", value |-> v]
    BY <2>1, <2>2 DEF EvaluateJsonPath, SinglePathEvaluate
  <2> HIDE DEF v
  <2> DEFINE verdict == \/ req.op = "In" /\ v \in req.values
                        \/ req.op = "NotIn" /\ v \notin req.values
                        \/ req.op = "Exists" /\ v # Nil
                        \/ req.op = "DoesNotExist" /\ v = Nil
  <2>4. Matches(req, fields) = IF verdict THEN "match" ELSE "no match"
    <3>1. req.op = "In" => Matches(req, fields) = IF v \in req.values THEN "match" ELSE "no match"
      BY <2>3 DEF Matches, FieldSelectorOperators
    <3>2. req.op = "NotIn" => Matches(req, fields) = IF v \notin req.values THEN "match" ELSE "no match"
      BY <2>3 DEF Matches, FieldSelectorOperators
    <3>3. req.op = "Exists" => Matches(req, fields) = IF v # Nil THEN "match" ELSE "no match"
      BY <2>3 DEF Matches, FieldSelectorOperators
    <3>4. req.op = "DoesNotExist" => Matches(req, fields) = IF v = Nil THEN "match" ELSE "no match"
      BY <2>3 DEF Matches, FieldSelectorOperators
    <3> QED BY <3>1, <3>2, <3>3, <3>4 DEF FieldSelectorOperators
  <2>5. Satisfied(req, fields) <=> verdict
    <3>1. req.op = "In" => (Satisfied(req, fields) <=> v \in req.values)
      BY <2>1 DEF Satisfied
    <3>2. req.op = "NotIn" => (Satisfied(req, fields) <=> v \notin req.values)
      BY <2>1 DEF Satisfied
    <3>3. req.op = "Exists" => (Satisfied(req, fields) <=> v # Nil)
      BY <2>1 DEF Satisfied
    <3>4. req.op = "DoesNotExist" => (Satisfied(req, fields) <=> v = Nil)
      BY <2>1 DEF Satisfied
    <3> QED BY <3>1, <3>2, <3>3, <3>4 DEF FieldSelectorOperators
  <2> HIDE DEF verdict
  <2> QED BY <2>2, <2>4, <2>5
<1>5. Len(list) = 0 \/ Len(list) = 1 \/ Len(list) > 1
  <2>1. \A k \in Nat : k = 0 \/ k = 1 \/ k > 1
    OBVIOUS
  <2> QED BY <1>1, <2>1
<1>6. CASE Len(list) > 1 BY <1>2, <1>6
<1>7. CASE ~(Len(list) > 1) BY <1>3, <1>4, <1>5, <1>7
<1> QED BY <1>6, <1>7

\* A selector matches by the loop when it suits the owner; when the loop
\* cannot judge it, a field has several values (Fit, MatchesAllFields).
LEMMA FitMeans ==
    ASSUME NEW owner, NEW s, Judgeable(owner, s)
    PROVE  /\ Fit(owner, s) \in Fits
           /\ Fit(owner, s) = "match" => Suits(owner, s)
           /\ Fit(owner, s) # "invalid" /\ Suits(owner, s) => Fit(owner, s) = "match"
           /\ Fit(owner, s) = "invalid" => Ambiguous(owner, s)
<1> DEFINE M(i) == Matches(s.fields[i], owner.fields)
           failing == {i \in DOMAIN s.fields : M(i) # "match"}
           first == CHOOSE i \in failing : \A j \in failing : i <= j
<1>1. \A i \in DOMAIN s.fields :
         /\ Len(owner.fields[s.fields[i].key]) > 1 => M(i) = "invalid"
         /\ ~(Len(owner.fields[s.fields[i].key]) > 1) =>
              M(i) # "invalid" /\ (M(i) = "match" <=> Satisfied(s.fields[i], owner.fields))
  BY MatchesMeans DEF Judgeable
<1>2. failing # {} => first \in failing
  <2>1. failing \subseteq Nat
    BY DEF Judgeable
  <2> HIDE DEF failing
  <2>2. failing # {} => \E i \in failing : \A j \in failing : i <= j
    BY <2>1, Least
  <2> QED BY <2>2
<1>3. Fit(owner, s) = IF ~LabelsMatch(s, owner.labels) THEN "no match"
                      ELSE IF failing = {} THEN "match"
                      ELSE IF M(first) = "invalid" THEN "invalid" ELSE "no match"
  BY DEF Fit, MatchesAllFields, Judgeable
<1>4. failing # {} => first \in DOMAIN s.fields /\ M(first) # "match"
  BY <1>2
<1>5. failing = {} => \A i \in DOMAIN s.fields : M(i) = "match"
  OBVIOUS
<1> HIDE DEF first, failing, M
<1>6. Fit(owner, s) \in Fits
  BY <1>3 DEF Fits
<1>7. Fit(owner, s) = "match" => Suits(owner, s)
  BY <1>1, <1>3, <1>5 DEF Suits
<1>8. Fit(owner, s) # "invalid" /\ Suits(owner, s) => Fit(owner, s) = "match"
  BY <1>1, <1>3, <1>4 DEF Suits
<1>9. Fit(owner, s) = "invalid" => Ambiguous(owner, s)
  BY <1>1, <1>3, <1>4 DEF Ambiguous
<1> QED BY <1>6, <1>7, <1>8, <1>9

\* A selector that asks for something has a score of at least one.
LEMMA SpecificityCounts ==
    ASSUME NEW owner, NEW s, Judgeable(owner, s)
    PROVE  Specificity(s) \in Nat \ {0}
<1>1. Cardinality(s.labels) \in Nat /\ (Cardinality(s.labels) = 0 <=> s.labels = {})
  BY FS_CardinalityType, FS_EmptySet DEF Judgeable
<1>2. Len(s.exprs) \in Nat /\ (Len(s.exprs) = 0 => s.exprs = <<>>)
  BY DEF Judgeable
<1>3. Len(s.fields) \in Nat /\ (Len(s.fields) = 0 => s.fields = <<>>)
  BY DEF Judgeable
<1> DEFINE a == Cardinality(s.labels)
           b == Len(s.exprs)
           c == Len(s.fields)
<1>4. a # 0 \/ b # 0 \/ c # 0
  BY <1>1, <1>2, <1>3 DEF Judgeable
<1> HIDE DEF a, b, c
<1>5. a + b + c \in Nat \ {0}
  BY <1>1, <1>2, <1>3, <1>4 DEF a, b, c
<1> QED BY <1>5 DEF Specificity, a, b, c

\* Two selectors suit the owner, and none that suits asks for more.
EquallyBest(owner, selectors) ==
    \E j, k \in 1..Len(selectors) :
        /\ j # k
        /\ \A b \in {j, k} :
              /\ Suits(owner, selectors[b])
              /\ \A l \in 1..Len(selectors) :
                    Suits(owner, selectors[l]) => Specificity(selectors[l]) <= Specificity(selectors[b])

\* What the loop finds among selectors, all in all.
StrictlyBestIsFound(found, owner, selectors, all) ==
    /\ found.best \in Seq(1..Len(selectors))
    /\ found.err # 0 => found.best = <<>> /\ \E s \in all : Ambiguous(owner, s)
    /\ found.err = 0 /\ found.best = <<>> => \A s \in all : ~Suits(owner, s)
    /\ Len(found.best) = 1 =>
          found.best[1] \in 1..Len(selectors) /\ StrictlyBest(owner, selectors[found.best[1]], all)
    /\ Len(found.best) > 1 =>
          /\ EquallyBest(owner, selectors)
          /\ Distinct(selectors) => \A s \in all : ~StrictlyBest(owner, s, all)

\* Of selectors that were let in, the loop finds the most specific one that
\* suits the owner, if there is just one and if it can judge them all.
LEMMA LoopFindsStrictlyBest ==
    ASSUME NEW owner, NEW S, NEW selectors \in Seq(S), NEW found,
           found = BestSelectorMatchIndices(owner, selectors),
           \A i \in 1..Len(selectors) : Judgeable(owner, selectors[i])
    PROVE  StrictlyBestIsFound(found, owner, selectors, {selectors[i] : i \in 1..Len(selectors)})
<1> DEFINE n == Len(selectors)
           all == {selectors[i] : i \in 1..n}
           fit == [i \in 1..n |-> Fit(owner, selectors[i])]
           score == [i \in 1..n |-> Specificity(selectors[i])]
<1>1. \A i \in 1..n : /\ fit[i] \in Fits
                      /\ fit[i] = "match" => Suits(owner, selectors[i])
                      /\ fit[i] # "invalid" /\ Suits(owner, selectors[i]) => fit[i] = "match"
                      /\ fit[i] = "invalid" => Ambiguous(owner, selectors[i])
  BY FitMeans
<1>2. \A i \in 1..n : score[i] \in Nat \ {0} /\ score[i] = Specificity(selectors[i])
  BY SpecificityCounts
<1>3. Found(found, n, fit, score)
  BY <1>1, <1>2, BestSelectorMatchIndicesFinds
<1>4. n \in Nat /\ DOMAIN selectors = 1..n
  OBVIOUS
<1> HIDE DEF n, fit, score
<1>5. found.best \in Seq(1..n) /\ (found.err # 0 => found.best = <<>> /\ \E s \in all : Ambiguous(owner, s))
  BY <1>1, <1>3 DEF Found
<1>6. ASSUME found.err = 0, found.best = <<>> PROVE \A s \in all : ~Suits(owner, s)
  BY <1>1, <1>3, <1>6 DEF Found
<1>7. Len(found.best) >= 1 => found.err = 0
  BY <1>5
<1>8. ASSUME Len(found.best) = 1
      PROVE  found.best[1] \in 1..n /\ StrictlyBest(owner, selectors[found.best[1]], all)
  <2> DEFINE b == found.best[1]
  <2>1. b \in 1..n /\ fit[b] = "match" /\ (\A j \in 1..n : j # b /\ fit[j] = "match" => score[j] < score[b])
        /\ \A j \in 1..n : fit[j] # "invalid"
    BY <1>3, <1>7, <1>8 DEF Found
  <2> HIDE DEF b
  <2>2. ASSUME NEW j \in 1..n, selectors[j] # selectors[b], Suits(owner, selectors[j])
        PROVE  Specificity(selectors[j]) < Specificity(selectors[b])
    <3>1. j # b /\ fit[j] = "match"
      BY <1>1, <2>1, <2>2
    <3> QED BY <3>1, <2>1, <1>2
  <2>3. StrictlyBest(owner, selectors[b], all)
    BY <2>1, <2>2, <1>1 DEF StrictlyBest
  <2> QED BY <2>1, <2>3 DEF b
<1>9. ASSUME Len(found.best) > 1
      PROVE  /\ EquallyBest(owner, selectors)
             /\ Distinct(selectors) => \A s \in all : ~StrictlyBest(owner, s, all)
  <2>1. PICK j \in 1..n, k \in 1..n : /\ j # k /\ fit[j] = "match" /\ fit[k] = "match" /\ score[j] = score[k]
                                      /\ \A l \in 1..n : fit[l] = "match" => score[l] <= score[j]
    BY <1>3, <1>9 DEF Found
  <2>2. \A l \in 1..n : fit[l] # "invalid"
    BY <1>3, <1>5, <1>7, <1>9 DEF Found
  <2>3. Suits(owner, selectors[j]) /\ Suits(owner, selectors[k])
    BY <1>1, <2>1
  <2>4. ASSUME Distinct(selectors), NEW l \in 1..n, StrictlyBest(owner, selectors[l], all) PROVE FALSE
    <3>1. Suits(owner, selectors[l])
      BY <2>4 DEF StrictlyBest
    <3>2. fit[l] = "match"
      BY <1>1, <2>2, <3>1
    <3>3. score[l] <= score[j] /\ score[l] <= score[k]
      BY <2>1, <3>2
    <3>4. PICK m \in {j, k} : m # l
      BY <2>1
    <3>5. m \in 1..n /\ selectors[m] # selectors[l] /\ Suits(owner, selectors[m]) /\ selectors[m] \in all
      BY <1>4, <2>3, <2>4, <3>4 DEF Distinct
    <3>6. score[m] < score[l]
      BY <2>4, <3>5, <1>2 DEF StrictlyBest
    <3>7. score[l] <= score[m] /\ score[l] \in Nat /\ score[m] \in Nat
      BY <3>3, <3>4, <1>2
    <3> QED BY <3>6, <3>7
  <2>5. ASSUME NEW b \in {j, k}, NEW l \in 1..n, Suits(owner, selectors[l])
        PROVE  Specificity(selectors[l]) <= Specificity(selectors[b])
    <3>1. fit[l] = "match"
      BY <1>1, <2>2, <2>5
    <3>2. score[l] <= score[b]
      BY <2>1, <3>1
    <3> QED BY <3>2, <1>2, <2>1
  <2>6. EquallyBest(owner, selectors)
    BY <2>1, <2>3, <2>5 DEF EquallyBest, n
  <2> QED BY <2>4, <2>6
<1> QED BY <1>5, <1>6, <1>8, <1>9 DEF n, StrictlyBestIsFound

-----------------------------------------------------------------------------
(***************************************************************************)
(* The way of a blueprint.                                                 *)
(***************************************************************************)
IsList(seq) == \E S : seq \in Seq(S)

\* A list that grows by one.
LEMMA Grows ==
    ASSUME NEW seq, IsList(seq), NEW e
    PROVE  /\ IsList(Append(seq, e)) /\ Len(seq) \in Nat /\ DOMAIN seq = 1..Len(seq)
           /\ DOMAIN Append(seq, e) = 1..(Len(seq) + 1)
           /\ Append(seq, e)[Len(seq) + 1] = e
           /\ \A i \in DOMAIN seq : Append(seq, e)[i] = seq[i]
<1>1. PICK S : seq \in Seq(S)
  BY DEF IsList
<1> DEFINE T == S \cup {e}
           new == Append(seq, e)
<1>2. seq \in Seq(T) /\ e \in T
  BY <1>1
<1> HIDE DEF T
<1>3. /\ new \in Seq(T) /\ Len(new) = Len(seq) + 1 /\ new[Len(seq) + 1] = e
      /\ \A i \in 1..Len(seq) : new[i] = seq[i]
  BY <1>2
<1>4. Len(seq) \in Nat /\ DOMAIN seq = 1..Len(seq)
  BY <1>2
<1> HIDE DEF new
<1>5. DOMAIN new = 1..Len(new)
  BY <1>3
<1>6. IsList(new)
  BY <1>3 DEF IsList
<1> QED BY <1>3, <1>4, <1>5, <1>6 DEF new

\* The loop of ElementsAt, with the elements that it has collected.
Collected(s, positions, g) ==
    LET n == Len(s)
    IN /\ g \in [0..n -> Seq({s[i] : i \in 1..n \cap positions})]
       /\ g[0] = <<>> /\ ElementsAt(s, positions) = g[n]
       /\ \A i \in 1..n : g[i] = IF i \in positions THEN Append(g[i - 1], s[i]) ELSE g[i - 1]

LEMMA ElementsAtLoop ==
    ASSUME NEW S, NEW s \in Seq(S), NEW positions
    PROVE  \E g : Collected(s, positions, g)
<1> DEFINE n == Len(s)
           A == Seq({s[i] : i \in 1..Len(s) \cap positions})
           Turn(i, acc) == IF i \in positions THEN Append(acc, s[i]) ELSE acc
           step == [i \in 1..n |-> [acc \in A |-> Turn(i, acc)]]
           Is(f) == f = [i \in 0..n |-> IF i = 0 THEN <<>> ELSE Turn(i, f[i - 1])]
<1>1. n \in Nat
  OBVIOUS
<1>2. <<>> \in A
  OBVIOUS
<1>3. \A i \in 1..n : \A acc \in A : Turn(i, acc) \in A
  BY <1>1
<1>4. step \in [1..n -> [A -> A]]
  BY <1>3
<1> DEFINE g == CHOOSE h : Is(h)
<1>13. ElementsAt(s, positions) = g[n]
  BY DEF ElementsAt
<1> HIDE DEF n, A, Turn
<1>5. \A i \in 1..n, acc \in A : step[i][acc] = Turn(i, acc)
  OBVIOUS
<1> HIDE DEF step
<1>0. PICK f : LoopValues(f, n, A, <<>>, step)
  BY <1>1, <1>2, <1>4, LoopHasValues
<1>6. f \in [0..n -> A] /\ f[0] = <<>> /\ \A i \in 1..n : f[i] = step[i][f[i - 1]]
  BY <1>0 DEF LoopValues
<1>7. \A i \in 1..n : i - 1 \in 0..n /\ i \in 0..n /\ i # 0
  BY <1>1
<1>8. \A i \in 1..n : f[i] = Turn(i, f[i - 1])
  BY <1>5, <1>6, <1>7
<1>9. \A i \in 0..n : i # 0 => i \in 1..n
  BY <1>1
<1>10. \A i \in 0..n : f[i] = IF i = 0 THEN <<>> ELSE Turn(i, f[i - 1])
  BY <1>6, <1>8, <1>9
<1>11. Is(f)
  BY <1>6, <1>10
<1>12. Is(g)
  BY <1>11
<1> HIDE DEF g
<1>14. g[0] = <<>> /\ \A i \in 1..n : g[i] = Turn(i, g[i - 1])
  BY <1>1, <1>7, <1>12
<1> DEFINE D == {i \in 0..n : g[i] \in A}
<1>15. 0 \in D
  BY <1>1, <1>2, <1>14
<1>16. \A i \in 1..n : i - 1 \in D => i \in D
  BY <1>3, <1>7, <1>14
<1> HIDE DEF D
<1>17. 0..n \subseteq D
  BY <1>1, <1>15, <1>16, TurnInduction
<1>19. g \in [0..n -> A]
  <2>1. g = [i \in 0..n |-> g[i]]
    BY <1>12
  <2> QED BY <2>1, <1>17 DEF D
<1>20. Collected(s, positions, g)
  BY <1>13, <1>14, <1>19 DEF Collected, Turn, A, n
<1> QED BY <1>20

\* The elements at some positions are a list of these elements.
LEMMA ElementsAtAreElements ==
    ASSUME NEW S, NEW s \in Seq(S), NEW positions
    PROVE  ElementsAt(s, positions) \in Seq({s[i] : i \in 1..Len(s) \cap positions})
<1>1. PICK g : Collected(s, positions, g)
  BY ElementsAtLoop
<1>2. Len(s) \in 0..Len(s)
  OBVIOUS
<1> QED BY <1>1, <1>2 DEF Collected

\* None of them is left out.
LEMMA ElementsAtHasAll ==
    ASSUME NEW S, NEW s \in Seq(S), NEW positions, NEW p \in 1..Len(s) \cap positions
    PROVE  \E j \in DOMAIN ElementsAt(s, positions) : ElementsAt(s, positions)[j] = s[p]
<1> DEFINE n == Len(s)
<1>0. n \in Nat
  OBVIOUS
<1>1. PICK g : Collected(s, positions, g)
  BY ElementsAtLoop
<1> DEFINE Has(k) == \E j \in DOMAIN g[k] : g[k][j] = s[p]
           D == {k \in 0..n : p <= k => Has(k)}
<1>2. 0 \in D
  BY <1>0
<1>3. ASSUME NEW i \in 1..n, i - 1 \in D PROVE i \in D
  <2>1. i \in 0..n /\ i - 1 \in 0..n
    BY <1>0
  <2>2. SUFFICES ASSUME p <= i PROVE Has(i)
    BY <2>1
  <2>3. IsList(g[i - 1])
    BY <1>1, <2>1 DEF Collected, IsList
  <2>4. g[i] = IF i \in positions THEN Append(g[i - 1], s[i]) ELSE g[i - 1]
    BY <1>1 DEF Collected
  <2> DEFINE before == g[i - 1]
             after == g[i]
             e == s[i]
  <2>5. CASE p = i
    <3>1. after = Append(before, e) /\ IsList(before)
      BY <2>3, <2>4, <2>5
    <3> HIDE DEF before, after, e
    <3>2. Len(before) + 1 \in DOMAIN after /\ after[Len(before) + 1] = e
      BY <3>1, Grows
    <3> QED BY <3>2, <2>5 DEF after, e
  <2>6. CASE p # i
    <3>1. p <= i - 1
      BY <2>2, <2>6
    <3>2. PICK j \in DOMAIN before : before[j] = s[p]
      BY <1>3, <3>1
    <3>3. after = before \/ after = Append(before, e)
      BY <2>4
    <3> HIDE DEF before, after, e
    <3>4. j \in DOMAIN after /\ after[j] = before[j]
      BY <2>3, <3>3, Grows DEF before
    <3> QED BY <3>2, <3>4 DEF after
  <2> QED BY <2>5, <2>6
<1> HIDE DEF D
<1>4. 0..n \subseteq D
  BY <1>0, <1>2, <1>3, TurnInduction
<1>5. n \in D /\ p <= n
  BY <1>0, <1>4
<1>6. Has(n)
  BY <1>5 DEF D
<1> QED BY <1>1, <1>6 DEF Collected

\* What was let in is judged without an error but for fields with several
\* values (ValidateSelector, SinglePathEvaluate).
LEMMA ValidatedIsJudgeable ==
    ASSUME NEW s, NEW kind, NEW owners, NEW owner \in ToSet(owners),
           WellFormedSelector(s, owners), ValidateSelector(s, kind)
    PROVE  Judgeable(owner, s)
<1>1. \A i \in DOMAIN s.fields :
         /\ s.fields[i].op \in FieldSelectorOperators
         /\ s.fields[i].key \in DOMAIN owner.fields
         /\ owner.fields[s.fields[i].key] \in Seq(ToSet(owner.fields[s.fields[i].key]))
  BY DEF ValidateSelector, ValidateFieldSelectorRequirements, WellFormedSelector
<1> QED BY <1>1 DEF Judgeable, ValidateSelector, WellFormedSelector

\* The case and its owner.
Given == given \in Cases /\ round \in DOMAIN given.owners

\* The admitted blueprints are blueprints of the case that were let in.
LEMMA AdmittedAreAdmitted ==
    ASSUME Given
    PROVE  /\ AdmittedBlueprints \in Seq({b \in ToSet(given.blueprints) : AdmitBlueprint(b)})
           /\ Owner \in ToSet(given.owners)
<1>1. given.blueprints \in Seq(ToSet(given.blueprints))
  BY CasesAssumption DEF Given
<1> DEFINE positions == {i \in DOMAIN given.blueprints : AdmitBlueprint(given.blueprints[i])}
           T == {b \in ToSet(given.blueprints) : AdmitBlueprint(b)}
           U == {given.blueprints[i] : i \in 1..Len(given.blueprints) \cap positions}
<1>2. U \subseteq T
  BY DEF ToSet
<1>3. AdmittedBlueprints \in Seq(U)
  BY <1>1, ElementsAtAreElements DEF AdmittedBlueprints
<1> HIDE DEF U, T, positions
<1>4. AdmittedBlueprints \in Seq(T)
  BY <1>2, <1>3
<1>5. Owner \in ToSet(given.owners)
  BY DEF Owner, ToSet, Given
<1> QED BY <1>4, <1>5 DEF T

\* An admitted blueprint has been validated.
LEMMA AdmittedIsValid ==
    ASSUME NEW c, AdmitBlueprint(c)
    PROVE  /\ ValidateSelector(c.selector, c.kind)
           /\ \A r \in DOMAIN c.resources : \E kind : ValidateTemplateRef(c.resources[r], kind)
           /\ \A r \in DOMAIN c.resources : c.resources[r].kind \in TemplateKinds
<1>1. ValidateBlueprint(c)
  BY DEF AdmitBlueprint, AdmitSupplyChain, AdmitDelivery
<1>2. \A r \in DOMAIN c.resources : \E kind : ValidateTemplateRef(c.resources[r], kind)
  BY <1>1 DEF ValidateBlueprint, ValidateSupplyChainTemplateRef, ValidateDeliveryTemplateRef
<1>3. \A r \in DOMAIN c.resources : c.resources[r].kind \in TemplateKinds
  BY DEF AdmitBlueprint, AdmitSupplyChain, AdmitDelivery, TemplateKinds
<1> QED BY <1>1, <1>2, <1>3 DEF ValidateBlueprint

\* The blueprint that GetSupplyChain returns is the strictly best one.
LEMMA BlueprintChoice ==
    ASSUME Given, NEW found, found = GetSupplyChain(Owner, AdmittedBlueprints)
    PROVE  LET admitted == {c.selector : c \in ToSet(AdmittedBlueprints)}
           IN /\ found.err = "none" => /\ found.chain \in ToSet(AdmittedBlueprints)
                                       /\ StrictlyBest(Owner, found.chain.selector, admitted)
              /\ found.err # "none" => found.chain = Nil
              /\ found.err \in {"none", "LabelsMissing", "ListFailed", "NotFound", "MultipleMatches"}
              /\ found.err = "NotFound" => \A s \in admitted : ~Suits(Owner, s)
              /\ found.err = "MultipleMatches" => EquallySpecific(Owner, AdmittedBlueprints)
              /\ found.err = "ListFailed" => \E s \in admitted : Ambiguous(Owner, s)
<1> DEFINE list == AdmittedBlueprints
           n == Len(list)
           T == {b \in ToSet(given.blueprints) : AdmitBlueprint(b)}
           selectors == [i \in DOMAIN list |-> LegacySelectorToSelector(list[i])]
           sel == [i \in 1..n |-> list[i].selector]
           best == BestSelectorMatchIndices(Owner, sel)
           admitted == {c.selector : c \in ToSet(list)}
           all == {sel[i] : i \in 1..Len(sel)}
<1>1. list \in Seq(T) /\ Owner \in ToSet(given.owners)
  BY AdmittedAreAdmitted
<1> HIDE DEF list
<1>2. n \in Nat /\ DOMAIN list = 1..n /\ \A i \in 1..n : list[i] \in T
  BY <1>1
<1>3. \A b \in T : WellFormedSelector(b.selector, given.owners) /\ ValidateSelector(b.selector, b.kind)
  BY CasesAssumption, AdmittedIsValid DEF Given
<1>4. \A b \in T : LegacySelectorToSelector(b) = b.selector /\ Judgeable(Owner, b.selector)
  BY <1>1, <1>3, ValidatedIsJudgeable DEF WellFormedSelector, LegacySelectorToSelector
<1> HIDE DEF T, n
<1>5. selectors = sel
  BY <1>2, <1>4
<1> DEFINE V == {b.selector : b \in T}
<1>6. sel \in Seq(V) /\ Len(sel) = n /\ \A i \in 1..n : sel[i] = list[i].selector
  BY <1>2
<1>7. \A i \in 1..Len(sel) : Judgeable(Owner, sel[i])
  BY <1>2, <1>4, <1>6
<1>8. all = admitted
  BY <1>2, <1>6 DEF ToSet
<1>9. found = OnlyMatch(Owner, BlueprintsOf(best, list))
  BY <1>5 DEF GetSupplyChain, BestSelectorMatch, list
<1> HIDE DEF sel, selectors, V
<1>10. /\ best.best \in Seq(1..n)
       /\ best.err # 0 => best.best = <<>> /\ \E s \in admitted : Ambiguous(Owner, s)
       /\ best.err = 0 /\ best.best = <<>> => \A s \in admitted : ~Suits(Owner, s)
       /\ Len(best.best) = 1 => best.best[1] \in 1..n /\ StrictlyBest(Owner, sel[best.best[1]], admitted)
       /\ Len(best.best) > 1 => EquallyBest(Owner, sel)
  <2>1. StrictlyBestIsFound(best, Owner, sel, all)
    <3> HIDE DEF best
    <3>1. best = BestSelectorMatchIndices(Owner, sel)
      BY DEF best
    <3> QED BY <1>6, <1>7, <3>1, LoopFindsStrictlyBest
  <2> HIDE DEF all, admitted, best
  <2> QED BY <2>1, <1>6, <1>8 DEF StrictlyBestIsFound
<1> HIDE DEF best, admitted, all
<1> DEFINE m == [i \in DOMAIN best.best |-> list[best.best[i]]]
<1>11. m \in Seq(T) /\ Len(m) = Len(best.best) /\ (m = <<>> <=> best.best = <<>>)
       /\ (Len(m) = 1 => m[1] = list[best.best[1]])
  <2>1. DOMAIN best.best = 1..Len(best.best) /\ Len(best.best) \in Nat
    BY <1>10
  <2>2. \A i \in DOMAIN best.best : list[best.best[i]] \in T
    BY <1>2, <1>10
  <2>3. m \in Seq(T) /\ Len(m) = Len(best.best)
    BY <2>1, <2>2
  <2>4. m = <<>> <=> best.best = <<>>
    BY <2>3, <1>10
  <2>5. Len(m) = 1 => m[1] = list[best.best[1]]
    BY <2>1, <2>3
  <2> QED BY <2>3, <2>4, <2>5
<1>12. BlueprintsOf(best, list) = [err |-> IF best.err # 0 THEN "unhandled" ELSE "none", matches |-> m]
  BY DEF BlueprintsOf
<1> HIDE DEF m
<1>13. found = IF Owner.labels = {} THEN [err |-> "LabelsMissing", chain |-> Nil]
               ELSE IF best.err # 0 THEN [err |-> "ListFailed", chain |-> Nil]
               ELSE IF m = <<>> THEN [err |-> "NotFound", chain |-> Nil]
               ELSE IF Len(m) > 1 THEN [err |-> "MultipleMatches", chain |-> Nil]
               ELSE [err |-> "none", chain |-> m[1]]
  BY <1>9, <1>12 DEF OnlyMatch
<1>14. m # <<>> /\ ~(Len(m) > 1) => Len(m) = 1
  <2>1. Len(m) \in Nat /\ (m # <<>> => Len(m) # 0)
    BY <1>11
  <2>2. \A k \in Nat : k # 0 /\ ~(k > 1) => k = 1
    OBVIOUS
  <2> QED BY <2>1, <2>2
<1>15. found.err = "none" => /\ found.chain \in ToSet(list)
                             /\ StrictlyBest(Owner, found.chain.selector, admitted)
  <2> SUFFICES ASSUME found.err = "none" PROVE found.chain \in ToSet(list) /\ StrictlyBest(Owner, found.chain.selector, admitted)
    OBVIOUS
  <2>1. found.chain = m[1] /\ Len(m) = 1
    BY <1>13, <1>14
  <2>2. found.chain = list[best.best[1]] /\ best.best[1] \in 1..n
    BY <2>1, <1>10, <1>11
  <2>3. sel[best.best[1]] = found.chain.selector
    BY <2>2, <1>6
  <2> QED BY <2>1, <2>2, <2>3, <1>2, <1>10, <1>11 DEF ToSet
<1>16. Len(m) > 1 => EquallySpecific(Owner, list)
  <2> SUFFICES ASSUME Len(m) > 1 PROVE EquallySpecific(Owner, list)
    OBVIOUS
  <2>1. EquallyBest(Owner, sel)
    BY <1>10, <1>11
  <2>2. PICK j \in 1..n, k \in 1..n :
          /\ j # k
          /\ \A b \in {j, k} : /\ Suits(Owner, sel[b])
                               /\ \A l \in 1..n : Suits(Owner, sel[l]) => Specificity(sel[l]) <= Specificity(sel[b])
    BY <2>1, <1>6 DEF EquallyBest
  <2>3. \A b \in {j, k} : /\ Suits(Owner, list[b].selector)
                          /\ \A l \in DOMAIN list : Suits(Owner, list[l].selector) =>
                                Specificity(list[l].selector) <= Specificity(list[b].selector)
    BY <2>2, <1>2, <1>6
  <2> QED BY <2>2, <2>3, <1>2 DEF EquallySpecific
<1> QED BY <1>10, <1>11, <1>13, <1>15, <1>16 DEF admitted, list

\* The option that GetTemplateNameFromResource takes is the strictly best one;
\* it fails only when there is none or a field has several values.
LEMMA OptionChoice ==
    ASSUME Given, NEW c \in ToSet(AdmittedBlueprints), NEW r \in DOMAIN c.resources,
           c.resources[r].options # <<>>,
           NEW chosen, chosen = GetTemplateNameFromResource(Owner, c.resources[r])
    PROVE  LET options == c.resources[r].options
               all     == {options[j].selector : j \in DOMAIN options}
           IN IF chosen.err # "none"
              THEN ~\E s \in all : StrictlyBest(Owner, s, all) /\ \A o \in all : ~Ambiguous(Owner, o)
              ELSE \E j \in DOMAIN options : /\ chosen.tmpl = options[j].name /\ chosen.pass = options[j].pass
                                             /\ StrictlyBest(Owner, options[j].selector, all)
<1> DEFINE options == c.resources[r].options
           n == Len(options)
           all == {options[j].selector : j \in DOMAIN options}
           sel == [i \in DOMAIN options |-> options[i].selector]
           best == BestSelectorMatchIndices(Owner, sel)
<1>1. c \in ToSet(given.blueprints) /\ AdmitBlueprint(c) /\ Owner \in ToSet(given.owners)
  BY AdmittedAreAdmitted DEF ToSet
<1>2. /\ options \in Seq(ToSet(options))
      /\ \A i \in DOMAIN options : WellFormedSelector(options[i].selector, given.owners)
  BY <1>1, CasesAssumption DEF Given, WellFormedResource
<1>3. PICK kind : ValidateTemplateRef(c.resources[r], kind)
  BY <1>1, AdmittedIsValid
<1>4. /\ \A i \in DOMAIN options : ValidateSelector(options[i].selector, kind)
      /\ \A i, j \in DOMAIN options : i # j => options[i].selector # options[j].selector
  <2>1. \A i, j \in DOMAIN options : i # j => options[i].name # options[j].name
    BY <1>3 DEF ValidateTemplateRef, Distinct
  <2> QED BY <2>1, <1>3 DEF ValidateTemplateRef, ValidateResourceOptions
<1>5. \A i \in DOMAIN options : Judgeable(Owner, options[i].selector)
  BY <1>1, <1>2, <1>4, ValidatedIsJudgeable
<1>6. chosen = TemplateNameOf(OptionOf(best, options))
  BY DEF GetTemplateNameFromResource, FindMatchingTemplateOption, TemplateOptionSelectors
<1> HIDE DEF options
<1>7. n \in Nat /\ DOMAIN options = 1..n
  BY <1>2
<1>8. sel \in Seq(all) /\ Len(sel) = n /\ DOMAIN sel = 1..n /\ \A i \in 1..n : sel[i] = options[i].selector
  BY <1>7
<1>9. Distinct(sel)
  BY <1>4, <1>7, <1>8 DEF Distinct
<1>10. \A i \in 1..Len(sel) : Judgeable(Owner, sel[i])
  BY <1>5, <1>7, <1>8
<1> DEFINE all2 == {sel[i] : i \in 1..Len(sel)}
<1>11. all2 = all
  BY <1>7, <1>8
<1> HIDE DEF sel
<1>12. /\ best.best \in Seq(1..n)
       /\ best.err # 0 => best.best = <<>> /\ \E s \in all : Ambiguous(Owner, s)
       /\ best.err = 0 /\ best.best = <<>> => \A s \in all : ~Suits(Owner, s)
       /\ Len(best.best) = 1 => best.best[1] \in 1..n /\ StrictlyBest(Owner, sel[best.best[1]], all)
       /\ Len(best.best) > 1 => \A s \in all : ~StrictlyBest(Owner, s, all)
  <2>1. StrictlyBestIsFound(best, Owner, sel, all2)
    <3> HIDE DEF best
    <3>1. best = BestSelectorMatchIndices(Owner, sel)
      BY DEF best
    <3> QED BY <1>8, <1>10, <3>1, LoopFindsStrictlyBest
  <2> HIDE DEF all, all2, best
  <2> QED BY <2>1, <1>8, <1>9, <1>11 DEF StrictlyBestIsFound
<1> HIDE DEF best, all, all2
<1>13. chosen = IF best.err # 0 \/ Len(best.best) # 1 THEN [err |-> "wrapError", tmpl |-> Nil, pass |-> Nil]
                ELSE [err |-> "none", tmpl |-> options[best.best[1]].name, pass |-> options[best.best[1]].pass]
  BY <1>6 DEF TemplateNameOf, OptionOf
<1>14. CASE best.err # 0
  <2>1. chosen.err # "none" /\ \E o \in all : Ambiguous(Owner, o)
    BY <1>12, <1>13, <1>14
  <2>2. ~\E s \in all : StrictlyBest(Owner, s, all) /\ \A o \in all : ~Ambiguous(Owner, o)
    BY <2>1
  <2> QED BY <2>1, <2>2 DEF options, all
<1>15. CASE best.err = 0 /\ Len(best.best) = 1
  <2>1. StrictlyBest(Owner, options[best.best[1]].selector, all) /\ best.best[1] \in DOMAIN options
    BY <1>7, <1>8, <1>12, <1>15
  <2>2. chosen.err = "none" /\ chosen.tmpl = options[best.best[1]].name /\ chosen.pass = options[best.best[1]].pass
    BY <1>13, <1>15
  <2> QED BY <2>1, <2>2 DEF options, all
<1>16. CASE best.err = 0 /\ Len(best.best) # 1
  <2>1. best.best = <<>> \/ Len(best.best) > 1
    <3>1. Len(best.best) \in Nat /\ (Len(best.best) = 0 => best.best = <<>>)
      BY <1>12
    <3>2. \A k \in Nat : k = 0 \/ k = 1 \/ k > 1
      OBVIOUS
    <3> QED BY <3>1, <3>2, <1>16
  <2>2. \A s \in all : ~StrictlyBest(Owner, s, all)
    BY <2>1, <1>12, <1>16 DEF StrictlyBest
  <2>3. chosen.err # "none"
    BY <1>13, <1>16
  <2> QED BY <2>2, <2>3 DEF options, all
<1> QED BY <1>14, <1>15, <1>16

\* What Do says of the option that was taken: an error of the type that wraps
\* another one is the one of a choice that failed.
OptionTaken(d, chosen) ==
    d.tmpl = chosen.tmpl /\ ((d.err # Nil /\ d.err.type = "wrapError") <=> chosen.err # "none")

\* Where the reconciliation stands, and what was chosen in it.
Chosen ==
    /\ stage = "submit" => round = 1
    /\ stage # "submit" => Given
    /\ stage \notin {"submit", "choose"} =>
         \E found \in {GetSupplyChain(Owner, AdmittedBlueprints)} :
            /\ chain = found.chain
            /\ found.err # "none" => stage = found.err
            /\ found.err = "none" => stage \in {"NotReady", "ServiceAccountNotFound", "realize", "reported"}
    /\ stage \in {"realize", "reported"} =>
         /\ IsList(done) /\ DOMAIN done \subseteq DOMAIN chain.resources
         /\ \A i \in DOMAIN done : OptionTaken(done[i], GetTemplateNameFromResource(Owner, chain.resources[i]))
    /\ stage \notin {"submit", "choose", "realize", "reported"} => done = <<>>

\* Of the errors of Do, only a choice that failed wraps another one.
LEMMA DoReturns ==
    ASSUME NEW resource, NEW chosen, NEW fate, chosen.err \in {"none", "wrapError"}
    PROVE  LET d == Do(resource, chosen, fate)
           IN (d.err # Nil /\ d.err.type = "wrapError") <=> chosen.err # "none"
<1> DEFINE d == Do(resource, chosen, fate)
           Mild(x) == ~(x.err # Nil /\ x.err.type = "wrapError")
<1>1. \A template, object, read, isStamped : Mild(Returned(template, object, read, isStamped))
  BY DEF Returned, Error
<1>2. \A template, cause, forbidden, stamped :
         \A type \in {"StampError", "ApplyStampedObjectError", "ListCreatedObjectsError", "GetTemplateError"} :
            Mild(Refused(template, Error(type, cause, forbidden, stamped)))
  BY DEF Refused, Error
<1>3. CASE chosen.err # "none"
  <2>0. chosen.err = "wrapError"
    BY <1>3
  <2>1. d = Refused(Nil, Error(chosen.err, "option", FALSE, FALSE))
    BY <1>3, ZenonT(60) DEF Do
  <2>2. Error("wrapError", "option", FALSE, FALSE) # Nil
    BY NilAssumption DEF ErrorTypes, ErrorCauses
  <2>3. Error("wrapError", "option", FALSE, FALSE).type = "wrapError"
    BY DEF Error
  <2>4. d.err = Error("wrapError", "option", FALSE, FALSE)
    BY <2>0, <2>1 DEF Refused
  <2> QED BY <2>2, <2>3, <2>4, <1>3
<1>4. CASE chosen.err = "none"
  <2> HIDE DEF Mild
  <2>1. \A template, object, deployment : Mild(DoMutable(template, object, fate, deployment))
    BY <1>1, <1>2 DEF DoMutable, ApplyError
  <2>2. \A template, object, deployment : Mild(DoImmutable(template, object, fate, deployment))
    BY <1>1, <1>2 DEF DoImmutable, ApplyError
  <2>3. \A template, stamped, deployment : Mild(DoStamped(template, stamped, fate, deployment))
    BY <1>2, <2>1, <2>2 DEF DoStamped
  <2>4. Mild(d)
    BY <1>1, <1>2, <2>3, <1>4 DEF Do, DoPassThrough
  <2> QED BY <2>4, <1>4 DEF Mild
<1> QED BY <1>3, <1>4

\* GetTemplateNameFromResource has no other error.
LEMMA TemplateNameErrors ==
    ASSUME NEW owner, NEW resource
    PROVE  GetTemplateNameFromResource(owner, resource).err \in {"none", "wrapError"}
BY DEF GetTemplateNameFromResource, TemplateNameOf

\* The chain of a blueprint that was chosen.
LEMMA ChosenChainIsListed ==
    ASSUME Chosen, stage \in {"realize", "reported"}
    PROVE  chain \in ToSet(AdmittedBlueprints) /\ IsList(chain.resources) /\ Given
<1>1. PICK found \in {GetSupplyChain(Owner, AdmittedBlueprints)} :
            chain = found.chain /\ (found.err # "none" => stage = found.err)
  BY DEF Chosen
<1>2. Given
  BY DEF Chosen
<1>3. chain \in ToSet(AdmittedBlueprints)
  BY <1>1, <1>2, BlueprintChoice
<1>4. chain \in ToSet(given.blueprints)
  BY <1>2, <1>3, AdmittedAreAdmitted DEF ToSet
<1>5. IsList(chain.resources)
  BY <1>2, <1>4, CasesAssumption DEF Given, IsList
<1> QED BY <1>2, <1>3, <1>5

\* A turn of Realize records the option that was taken.
LEMMA RealizeTakesOption ==
    ASSUME Chosen, RealizeResource
    PROVE  Chosen'
<1>1. /\ stage = "realize" /\ stage' = stage /\ given' = given /\ chain' = chain /\ round' = round
      /\ Len(done) < Len(chain.resources)
  BY DEF RealizeResource
<1>2. IsList(done) /\ DOMAIN done \subseteq DOMAIN chain.resources
  BY <1>1 DEF Chosen
<1> DEFINE chosen == GetTemplateNameFromResource(Owner, Resource)
<1>3. PICK fate : done' = Append(done, Result(Do(Resource, chosen, fate), Resource, chosen))
  BY Zenon DEF RealizeResource
<1> DEFINE d == Do(Resource, chosen, fate)
           e == Result(d, Resource, chosen)
<1>4. (d.err # Nil /\ d.err.type = "wrapError") <=> chosen.err # "none"
  BY DoReturns, TemplateNameErrors
<1> HIDE DEF d, chosen
<1>6. e.tmpl = chosen.tmpl /\ e.err = d.err
  BY DEF Result
<1>7. OptionTaken(e, chosen)
  BY <1>4, <1>6 DEF OptionTaken
<1> HIDE DEF e, d
<1>8. /\ IsList(done') /\ Len(done) \in Nat /\ DOMAIN done = 1..Len(done)
      /\ DOMAIN done' = 1..(Len(done) + 1)
      /\ done'[Len(done) + 1] = e /\ \A i \in DOMAIN done : done'[i] = done[i]
  BY <1>2, <1>3, Grows DEF e, d
<1>9. \A i \in DOMAIN done' : i = Len(done) + 1 \/ i \in DOMAIN done
  BY <1>8
<1>10. Owner' = Owner /\ chain.resources[Len(done) + 1] = Resource
  BY <1>1 DEF Owner, Resource
<1>11. ASSUME NEW i \in DOMAIN done'
       PROVE  i \in DOMAIN chain.resources /\ OptionTaken(done'[i], GetTemplateNameFromResource(Owner, chain.resources[i]))
  <2>1. CASE i \in DOMAIN done
    BY <2>1, <1>1, <1>2, <1>8 DEF Chosen
  <2>2. CASE i = Len(done) + 1
    <3>1. PICK S : chain.resources \in Seq(S)
      BY ChosenChainIsListed, <1>1 DEF IsList
    <3>2. Len(done) + 1 \in DOMAIN chain.resources
      BY <3>1, <1>1, <1>8
    <3> QED BY <2>2, <3>2, <1>7, <1>8, <1>10 DEF chosen
  <2> QED BY <1>9, <2>1, <2>2
<1>12. AdmittedBlueprints' = AdmittedBlueprints /\ Given' = Given
  BY <1>1 DEF AdmittedBlueprints, Given
<1>13. \E found \in {GetSupplyChain(Owner, AdmittedBlueprints)} :
            /\ chain = found.chain
            /\ found.err # "none" => stage = found.err
            /\ found.err = "none" => stage \in {"NotReady", "ServiceAccountNotFound", "realize", "reported"}
  BY <1>1 DEF Chosen
<1>14. \E found \in {GetSupplyChain(Owner, AdmittedBlueprints)'} :
            /\ chain' = found.chain
            /\ found.err # "none" => stage' = found.err
            /\ found.err = "none" => stage' \in {"NotReady", "ServiceAccountNotFound", "realize", "reported"}
  BY <1>1, <1>10, <1>12, <1>13
<1> QED BY <1>1, <1>8, <1>10, <1>11, <1>12, <1>14 DEF Chosen

\* The start of a reconciliation.
LEMMA ChooseChooses ==
    ASSUME Chosen, ChooseBlueprint
    PROVE  Chosen'
<1>1. stage = "choose" /\ given' = given /\ round' = round /\ done' = <<>>
  BY DEF ChooseBlueprint
<1>2. Owner' = Owner /\ AdmittedBlueprints' = AdmittedBlueprints /\ (Given' <=> Given) /\ Given
  BY <1>1 DEF Owner, AdmittedBlueprints, Given, Chosen
<1> DEFINE found == GetSupplyChain(Owner, AdmittedBlueprints)
<1>3. /\ chain' = found.chain
      /\ found.err # "none" => stage' = found.err
      /\ found.err = "none" => stage' \in {"NotReady", "ServiceAccountNotFound", "realize"}
  BY DEF ChooseBlueprint
<1>4. found' = found
  BY <1>2
<1>5. found.err \in {"none", "LabelsMissing", "ListFailed", "NotFound", "MultipleMatches"}
  BY <1>2, BlueprintChoice
<1> HIDE DEF found
<1>6. stage' \notin {"submit", "choose", "reported"}
  BY <1>3, <1>5
<1>7. IsList(done') /\ DOMAIN done' = {}
  BY <1>1 DEF IsList
<1>8. \E f \in {found'} :
            /\ chain' = f.chain
            /\ f.err # "none" => stage' = f.err
            /\ f.err = "none" => stage' \in {"NotReady", "ServiceAccountNotFound", "realize", "reported"}
  BY <1>3, <1>4
<1> QED BY <1>1, <1>2, <1>6, <1>7, <1>8 DEF Chosen, found

\* What was chosen stays while the reconciliation lasts.
LEMMA ChosenInvariant == PipelineInit /\ [][PipelineNext]_pipelineVars => []Chosen
<1>1. PipelineInit => Chosen
  BY DEF PipelineInit, Chosen
<1>2. ASSUME Chosen, [PipelineNext]_pipelineVars PROVE Chosen'
  <2>1. CASE SubmitAll
    <3>1. stage = "submit" /\ round' = round /\ stage' = "choose" /\ given' \in Cases /\ round = 1
      BY <1>2, <2>1 DEF SubmitAll, Chosen
    <3>2. 1 \in DOMAIN given'.owners
      <4>1. given'.owners \in Seq(ToSet(given'.owners)) /\ given'.owners # <<>>
        BY <3>1, CasesAssumption
      <4> DEFINE o == given'.owners
      <4>2. o \in Seq(ToSet(o)) /\ o # <<>>
        BY <4>1
      <4> HIDE DEF o
      <4>3. Len(o) \in Nat /\ Len(o) # 0 /\ DOMAIN o = 1..Len(o)
        BY <4>2
      <4> QED BY <4>3 DEF o
    <3>3. Given'
      BY <3>1, <3>2 DEF Given
    <3> QED BY <3>1, <3>3 DEF Chosen
  <2>2. CASE ChooseBlueprint
    BY <1>2, <2>2, ChooseChooses
  <2>3. CASE RealizeResource
    BY <1>2, <2>3, RealizeTakesOption
  <2>4. CASE UNCHANGED <<given, chain, round, done>> /\ stage \in {"realize", "reported"} /\ stage' = "reported"
    <3>1. Owner' = Owner /\ AdmittedBlueprints' = AdmittedBlueprints /\ (Given' <=> Given) /\ Given
      BY <1>2, <2>4 DEF Owner, AdmittedBlueprints, Given, Chosen
    <3> DEFINE found == GetSupplyChain(Owner, AdmittedBlueprints)
    <3>2. found' = found
      BY <3>1
    <3>3. /\ chain = found.chain
          /\ found.err = "none"
      <4>1. chain = found.chain /\ (found.err # "none" => stage = found.err)
        BY <1>2, <2>4 DEF Chosen
      <4>2. found.err \notin {"realize", "reported"}
        BY <3>1, BlueprintChoice
      <4> QED BY <4>1, <4>2, <2>4
    <3>4. \E f \in {found'} :
            /\ chain' = f.chain
            /\ f.err # "none" => stage' = f.err
            /\ f.err = "none" => stage' \in {"NotReady", "ServiceAccountNotFound", "realize", "reported"}
      BY <3>2, <3>3, <2>4
    <3>5. /\ IsList(done') /\ DOMAIN done' \subseteq DOMAIN chain'.resources
          /\ \A i \in DOMAIN done' :
                OptionTaken(done'[i], GetTemplateNameFromResource(Owner, chain'.resources[i]))
      BY <1>2, <2>4 DEF Chosen
    <3> HIDE DEF found
    <3> QED BY <3>1, <3>4, <3>5, <2>4 DEF Chosen, found
  <2>5. CASE NextRound
    <3>1. /\ stage = "reported" /\ stage' = "choose" /\ given' = given /\ round' = round + 1
          /\ round < Len(given.owners) /\ Given
      BY <1>2, <2>5 DEF NextRound, Chosen
    <3>2. round + 1 \in DOMAIN given.owners
      <4> DEFINE o == given.owners
      <4>1. o \in Seq(ToSet(o))
        BY <3>1, CasesAssumption DEF Given
      <4>2. round \in DOMAIN o /\ round < Len(o)
        BY <3>1 DEF Given
      <4> HIDE DEF o
      <4>3. Len(o) \in Nat /\ DOMAIN o = 1..Len(o)
        BY <4>1
      <4>4. round + 1 \in DOMAIN o
        BY <4>2, <4>3
      <4> QED BY <4>4 DEF o
    <3>3. Given'
      BY <3>1, <3>2 DEF Given
    <3> QED BY <3>1, <3>3 DEF Chosen
  <2>6. CASE UNCHANGED pipelineVars
    <3>1. Owner' = Owner /\ AdmittedBlueprints' = AdmittedBlueprints /\ (Given' <=> Given)
      BY <2>6 DEF Owner, AdmittedBlueprints, Given, pipelineVars
    <3> DEFINE found == GetSupplyChain(Owner, AdmittedBlueprints)
    <3>2. found' = found
      BY <3>1
    <3> HIDE DEF found
    <3> QED BY <1>2, <2>6, <3>1, <3>2 DEF Chosen, pipelineVars, found
  <2>7. ReportOwner \/ Meddle => UNCHANGED <<given, chain, round, done>> /\ stage \in {"realize", "reported"} /\ stage' = "reported"
    BY DEF ReportOwner, Meddle
  <2> QED BY <1>2, <2>1, <2>2, <2>3, <2>4, <2>5, <2>6, <2>7 DEF PipelineNext
<1> QED BY <1>1, <1>2, PTL

\* The blueprint chosen for an owner suits it and asks for more than any other
\* admitted one that suits it; there is none only when none suits, several ask
\* for as much, or a field cannot be compared; the same holds for the option of
\* a resource (BestSelectorMatchIndices, findMatchingTemplateOption, webhooks).
THEOREM MostSpecificIsSelected == PipelineInit /\ [][PipelineNext]_pipelineVars => []SelectsMostSpecific
<1>1. Chosen => SelectsMostSpecific
  <2> SUFFICES ASSUME Chosen, stage \notin {"submit", "choose"} PROVE SelectsMostSpecific
    BY DEF SelectsMostSpecific
  <2> DEFINE found == GetSupplyChain(Owner, AdmittedBlueprints)
             admitted == {c.selector : c \in ToSet(AdmittedBlueprints)}
             suiting == {s \in admitted : Suits(Owner, s)}
  <2>1. Given /\ chain = found.chain /\ (found.err # "none" => stage = found.err)
        /\ (found.err = "none" => stage \in {"NotReady", "ServiceAccountNotFound", "realize", "reported"})
    BY DEF Chosen
  <2>2. /\ found.err = "none" => /\ found.chain \in ToSet(AdmittedBlueprints)
                                 /\ StrictlyBest(Owner, found.chain.selector, admitted)
        /\ found.err # "none" => found.chain = Nil
        /\ found.err \in {"none", "LabelsMissing", "ListFailed", "NotFound", "MultipleMatches"}
        /\ found.err = "NotFound" => \A s \in admitted : ~Suits(Owner, s)
        /\ found.err = "MultipleMatches" => EquallySpecific(Owner, AdmittedBlueprints)
        /\ found.err = "ListFailed" => \E s \in admitted : Ambiguous(Owner, s)
    BY <2>1, BlueprintChoice
  <2> HIDE DEF found, admitted
  <2>3. /\ chain # Nil => StrictlyBest(Owner, chain.selector, admitted)
        /\ stage = "NotFound" => suiting = {}
        /\ stage = "MultipleMatches" => EquallySpecific(Owner, AdmittedBlueprints)
        /\ stage = "ListFailed" => \E s \in admitted : Ambiguous(Owner, s)
    BY <2>1, <2>2
  <2>4. ASSUME NEW i \in DOMAIN done, chain.resources[i].options # <<>>
        PROVE  LET options == chain.resources[i].options
                   all     == {options[j].selector : j \in DOMAIN options}
               IN IF done[i].err # Nil /\ done[i].err.type = "wrapError"
                  THEN ~\E s \in all : StrictlyBest(Owner, s, all) /\ \A o \in all : ~Ambiguous(Owner, o)
                  ELSE \E j \in DOMAIN options : /\ done[i].tmpl = options[j].name
                                                 /\ StrictlyBest(Owner, options[j].selector, all)
    <3> DEFINE chosen == GetTemplateNameFromResource(Owner, chain.resources[i])
    <3>1. stage \in {"realize", "reported"}
      BY <2>4 DEF Chosen
    <3>2. i \in DOMAIN chain.resources /\ OptionTaken(done[i], chosen)
      BY <2>4, <3>1 DEF Chosen
    <3>3. chain \in ToSet(AdmittedBlueprints)
      BY <3>1, ChosenChainIsListed
    <3> DEFINE options == chain.resources[i].options
               all == {options[j].selector : j \in DOMAIN options}
    <3>4. IF chosen.err # "none"
              THEN ~\E s \in all : StrictlyBest(Owner, s, all) /\ \A o \in all : ~Ambiguous(Owner, o)
              ELSE \E j \in DOMAIN options : /\ chosen.tmpl = options[j].name
                                             /\ StrictlyBest(Owner, options[j].selector, all)
      <4>1. IF chosen.err # "none"
            THEN ~\E s \in all : StrictlyBest(Owner, s, all) /\ \A o \in all : ~Ambiguous(Owner, o)
            ELSE \E j \in DOMAIN options : /\ chosen.tmpl = options[j].name /\ chosen.pass = options[j].pass
                                           /\ StrictlyBest(Owner, options[j].selector, all)
        BY <2>1, <2>4, <3>2, <3>3, OptionChoice, ZenonT(60)
      <4> HIDE DEF chosen, options, all
      <4> QED BY <4>1
    <3> HIDE DEF chosen, options, all
    <3>5. IF done[i].err # Nil /\ done[i].err.type = "wrapError"
          THEN ~\E s \in all : StrictlyBest(Owner, s, all) /\ \A o \in all : ~Ambiguous(Owner, o)
          ELSE \E j \in DOMAIN options : /\ done[i].tmpl = options[j].name
                                         /\ StrictlyBest(Owner, options[j].selector, all)
      <4>1. CASE chosen.err # "none"
        BY <3>2, <3>4, <4>1 DEF OptionTaken
      <4>2. CASE chosen.err = "none"
        BY <3>2, <3>4, <4>2 DEF OptionTaken
      <4> QED BY <4>1, <4>2
    <3> QED BY <3>5 DEF options, all
  <2> QED BY <2>3, <2>4, Zenon DEF SelectsMostSpecific, admitted
<1> QED BY <1>1, ChosenInvariant, PTL

-----------------------------------------------------------------------------
(***************************************************************************)
(* What the owner reports.                                                 *)
(***************************************************************************)
\* What is not there is no record: no condition, no object, no template.
NilIsNoRecord == \A f : f = [x \in DOMAIN f |-> f[x]] => f # Nil

LEMMA NoConditionIsNil ==
    ASSUME NilIsNoRecord, NEW type, NEW status, NEW reason
    PROVE  Condition(type, status, reason) # Nil
BY DEF NilIsNoRecord, Condition

LEMMA NoErrorIsNil ==
    ASSUME NilIsNoRecord, NEW type, NEW cause, NEW forbidden, NEW stamped
    PROVE  Error(type, cause, forbidden, stamped) # Nil
BY DEF NilIsNoRecord, Error

\* A list of one or of two elements.
LEMMA ShortLists ==
    ASSUME NEW a, NEW b
    PROVE  /\ IsList(<<>>) /\ IsList(<<a>>) /\ IsList(<<a, b>>)
           /\ <<a>> \o <<>> = <<a>> /\ <<a>> \o <<b>> = <<a, b>>
<1>1. <<>> \in Seq({a, b}) /\ <<a>> \in Seq({a, b}) /\ <<a, b>> \in Seq({a, b})
  OBVIOUS
<1>2. <<a>> \o <<>> = <<a>>
  BY <1>1, ConcatEmptySeq
<1>3. Append(<<a>>, b) = <<a>> \o <<b>>
  BY <1>1, AppendIsConcat
<1>4. Append(<<a>>, b) = <<a, b>>
  <2> DEFINE s == Append(<<a>>, b)
             t == <<a, b>>
  <2>1. s \in Seq({a, b}) /\ Len(s) = 2 /\ s[1] = a /\ s[2] = b
    BY <1>1
  <2>2. t \in Seq({a, b}) /\ Len(t) = 2 /\ t[1] = a /\ t[2] = b
    OBVIOUS
  <2> HIDE DEF s, t
  <2>3. \A i \in 1..2 : s[i] = t[i]
    <3>1. \A i \in 1..2 : i = 1 \/ i = 2
      OBVIOUS
    <3> QED BY <2>1, <2>2, <3>1
  <2>4. s = t
    BY <2>1, <2>2, <2>3, SeqEqual
  <2> QED BY <2>4 DEF s, t
<1> QED BY <1>1, <1>2, <1>3, <1>4 DEF IsList

\* The first condition of a type (ConditionWithType).
LEMMA FirstOfItsType ==
    ASSUME NEW conds, IsList(conds), NEW type
    PROVE  LET c == ConditionWithType(conds, type)
           IN \/ c = Nil /\ \A i \in DOMAIN conds : conds[i].type # type
              \/ \E i \in DOMAIN conds :
                    /\ c = conds[i] /\ conds[i].type = type
                    /\ \A j \in DOMAIN conds : conds[j].type = type => i <= j
<1> DEFINE found == {i \in DOMAIN conds : conds[i].type = type}
           first == CHOOSE i \in found : \A j \in found : i <= j
<1>1. found \subseteq Nat
  BY DEF IsList
<1>2. CASE found = {}
  BY <1>2 DEF ConditionWithType
<1>3. CASE found # {}
  <2>1. ConditionWithType(conds, type) = conds[first]
    BY <1>3 DEF ConditionWithType
  <2> HIDE DEF found
  <2>2. \E i \in found : \A j \in found : i <= j
    BY <1>1, <1>3, Least
  <2>3. first \in found /\ \A j \in found : first <= j
    BY <2>2
  <2> HIDE DEF first
  <2> QED BY <2>1, <2>3 DEF found
<1> QED BY <1>2, <1>3

LEMMA LastOfAppend ==
    ASSUME NEW seq, IsList(seq), NEW e
    PROVE  Last(Append(seq, e)) = e
<1>1. PICK S : seq \in Seq(S)
  BY DEF IsList
<1> DEFINE T == S \cup {e}
<1>2. seq \in Seq(T) /\ e \in T
  BY <1>1
<1> HIDE DEF T
<1>3. Len(Append(seq, e)) = Len(seq) + 1 /\ Append(seq, e)[Len(seq) + 1] = e
  BY <1>2
<1> QED BY <1>3 DEF Last

\* What the finalized manager ends with, and what it leaves of the other
\* conditions (Finalize).
LEMMA FinalizeAppends ==
    ASSUME NEW conds, IsList(conds), NEW type
    PROVE  \E c : /\ Finalize(type, conds) = Append(conds, c) /\ c.type = type
                  /\ c.status \in {"True", "False", "Unknown"}
                  /\ c.status = "True" =>
                       conds # <<>> /\ \A i \in DOMAIN conds : conds[i].status \notin {"False", "Unknown"}
<1> DEFINE falses   == {i \in DOMAIN conds : conds[i].status = "False"}
           unknowns == {i \in DOMAIN conds : conds[i].status = "Unknown"}
           end(status, reason) == Condition(type, status, reason)
           lastFalse == conds[CHOOSE i \in falses : \A j \in falses : i >= j].reason
           firstUnknown == conds[CHOOSE i \in unknowns : \A j \in unknowns : i <= j].reason
<1>0. /\ conds = <<>> => Finalize(type, conds) = <<end("Unknown", "Unknown")>>
      /\ conds # <<>> /\ falses # {} => Finalize(type, conds) = Append(conds, end("False", lastFalse))
      /\ conds # <<>> /\ falses = {} /\ unknowns # {} =>
           Finalize(type, conds) = Append(conds, end("Unknown", firstUnknown))
      /\ conds # <<>> /\ falses = {} /\ unknowns = {} => Finalize(type, conds) = Append(conds, end("True", "Ready"))
  <2>1. Finalize(type, conds) =
          CASE conds = <<>> -> <<end("Unknown", "Unknown")>>
            [] falses # {} -> Append(conds, end("False", lastFalse))
            [] falses = {} /\ unknowns # {} -> Append(conds, end("Unknown", firstUnknown))
            [] OTHER -> Append(conds, end("True", "Ready"))
    BY Zenon DEF Finalize
  <2>2. conds = <<>> => falses = {} /\ unknowns = {}
    OBVIOUS
  <2> HIDE DEF falses, unknowns, end, lastFalse, firstUnknown
  <2> QED BY <2>1, <2>2
<1>1. \A status, reason : end(status, reason).type = type /\ end(status, reason).status = status
  BY DEF Condition
<1> HIDE DEF end, lastFalse, firstUnknown
<1>2. CASE conds = <<>>
  <2>1. Append(<<>>, end("Unknown", "Unknown")) = <<end("Unknown", "Unknown")>>
    OBVIOUS
  <2> QED BY <1>0, <1>1, <1>2, <2>1
<1>3. CASE conds # <<>> /\ falses # {}
  BY <1>0, <1>1, <1>3
<1>4. CASE conds # <<>> /\ falses = {} /\ unknowns # {}
  BY <1>0, <1>1, <1>4
<1>5. CASE conds # <<>> /\ falses = {} /\ unknowns = {}
  <2>1. \A i \in DOMAIN conds : conds[i].status \notin {"False", "Unknown"}
    BY <1>5
  <2> QED BY <1>0, <1>1, <1>5, <2>1
<1> QED BY <1>2, <1>3, <1>4, <1>5

LEMMA FinalizeFacts ==
    ASSUME NEW conds, IsList(conds), NEW type, \A i \in DOMAIN conds : conds[i].type # type
    PROVE  LET f == Finalize(type, conds)
           IN /\ IsList(f) /\ ConditionWithType(f, type) = Last(f)
              /\ Last(f).status = "True" =>
                   conds # <<>> /\ \A i \in DOMAIN conds : conds[i].status \notin {"False", "Unknown"}
              /\ \A i \in DOMAIN f : f[i].type = type \/ \E j \in DOMAIN conds : f[i] = conds[j]
              /\ \A other : other # type => ConditionWithType(f, other) = ConditionWithType(conds, other)
<1> DEFINE f == Finalize(type, conds)
           n == Len(conds)
<1>1. PICK c : /\ f = Append(conds, c) /\ c.type = type
               /\ c.status = "True" =>
                    conds # <<>> /\ \A i \in DOMAIN conds : conds[i].status \notin {"False", "Unknown"}
  BY FinalizeAppends
<1> HIDE DEF f
<1>2. /\ IsList(f) /\ n \in Nat /\ DOMAIN conds = 1..n /\ DOMAIN f = 1..(n + 1) /\ f[n + 1] = c
      /\ \A i \in DOMAIN conds : f[i] = conds[i]
  BY <1>1, Grows
<1>3. Last(f) = c
  BY <1>1, LastOfAppend
<1> HIDE DEF n
<1>4. \A i \in DOMAIN f : i = n + 1 \/ i \in DOMAIN conds
  BY <1>2
<1>5. ConditionWithType(f, type) = c
  <2>1. \A i \in DOMAIN f : f[i].type = type => i = n + 1
    BY <1>2, <1>4
  <2>2. n + 1 \in DOMAIN f /\ f[n + 1].type = type
    BY <1>1, <1>2
  <2> QED BY <1>2, <2>1, <2>2, FirstOfItsType
<1>6. ASSUME NEW other, other # type PROVE ConditionWithType(f, other) = ConditionWithType(conds, other)
  <2>1. \A i \in DOMAIN f : f[i].type = other => i \in DOMAIN conds /\ conds[i] = f[i]
    BY <1>1, <1>2, <1>4, <1>6
  <2>2. \A i \in DOMAIN conds : i \in DOMAIN f /\ f[i] = conds[i]
    BY <1>2
  <2>3. CASE \A i \in DOMAIN conds : conds[i].type # other
    BY <2>1, <2>3, <1>2, FirstOfItsType
  <2>4. CASE \E i \in DOMAIN conds : conds[i].type = other
    <3>1. PICK i \in DOMAIN conds : /\ ConditionWithType(conds, other) = conds[i] /\ conds[i].type = other
                                    /\ \A j \in DOMAIN conds : conds[j].type = other => i <= j
      BY <2>4, FirstOfItsType
    <3>2. PICK k \in DOMAIN f : /\ ConditionWithType(f, other) = f[k] /\ f[k].type = other
                                /\ \A j \in DOMAIN f : f[j].type = other => k <= j
      BY <2>2, <2>4, <1>2, FirstOfItsType, SMTT(40)
    <3>3. k \in DOMAIN conds /\ conds[k] = f[k]
      BY <2>1, <3>2
    <3>4. i <= k /\ k <= i
      BY <2>2, <3>1, <3>2, <3>3
    <3>5. i = k
      BY <1>2, <3>3, <3>4
    <3> QED BY <3>1, <3>2, <3>3, <3>5
  <2> QED BY <2>3, <2>4
<1> QED BY <1>1, <1>2, <1>3, <1>4, <1>5, <1>6 DEF f

\* A blueprint is ready only when its templates are there.
LEMMA ReadyHasTemplates ==
    ASSUME NEW c, IsBlueprintReady(c)
    PROVE  TemplatesFound(c)
<1> SUFFICES ASSUME ~TemplatesFound(c) PROVE FALSE
  OBVIOUS
<1> DEFINE bad == Condition("TemplatesReady", "False", "TemplatesNotFound")
           conds == <<bad>>
<1>1. BlueprintConditions(c) = Finalize("Ready", conds)
  BY DEF BlueprintConditions
<1>2. IsList(conds)
  BY ShortLists
<1>3. DOMAIN conds = {1} /\ conds[1].type = "TemplatesReady" /\ conds[1].status = "False"
  BY DEF Condition
<1> HIDE DEF conds
<1>4. ConditionWithType(Finalize("Ready", conds), "Ready").status # "True"
  BY <1>2, <1>3, FinalizeFacts
<1> QED BY <1>1, <1>4 DEF IsBlueprintReady, IsSupplyChainReady, IsDeliveryReady,
                          GetSupplyChainReadyCondition, GetDeliveryReadyCondition

-----------------------------------------------------------------------------
\* The template that Do reads for a resource is one that was let in, of the
\* kind of the resource (webhooks, the reconciler of the blueprint).
LEMMA TemplateOfTheResource ==
    ASSUME Given, NEW c \in ToSet(AdmittedBlueprints), NEW r \in DOMAIN c.resources, TemplatesFound(c),
           NEW chosen, chosen = GetTemplateNameFromResource(Owner, c.resources[r]),
           chosen.err = "none", chosen.pass = Nil
    PROVE  /\ chosen.tmpl \in DOMAIN given.templates /\ chosen.tmpl # Nil
           /\ given.templates[chosen.tmpl].kind = c.resources[r].kind /\ c.resources[r].kind \in TemplateKinds
           /\ AdmitTemplate(given.templates[chosen.tmpl])
<1> DEFINE res == c.resources[r]
           options == res.options
<1>1. AdmitBlueprint(c) /\ c \in ToSet(given.blueprints)
  BY AdmittedAreAdmitted DEF ToSet
<1>2. PICK kind : ValidateTemplateRef(res, kind)
  BY <1>1, AdmittedIsValid
<1>3. res.kind \in TemplateKinds
  BY <1>1, AdmittedIsValid
<1>4. chosen.tmpl \in TemplateNames(res)
  <2>1. CASE options = <<>>
    <3>1. chosen.tmpl = res.tmpl
      BY <2>1 DEF GetTemplateNameFromResource
    <3>2. res.tmpl # Nil
      BY <1>2, <2>1 DEF ValidateTemplateRef
    <3> QED BY <3>1, <3>2 DEF TemplateNames
  <2>2. CASE options # <<>>
    <3>1. PICK j \in DOMAIN options : chosen.tmpl = options[j].name /\ chosen.pass = options[j].pass
      BY <2>2, OptionChoice, ZenonT(60)
    <3>2. (options[j].name # Nil) # (options[j].pass # Nil)
      BY <1>2, Zenon DEF ValidateTemplateRef, ValidateResourceOptions
    <3>3. chosen.tmpl # Nil
      BY <3>1, <3>2
    <3> QED BY <3>1, <3>3 DEF TemplateNames
  <2> QED BY <2>1, <2>2
<1>5. chosen.tmpl \in AdmittedTemplates /\ given.templates[chosen.tmpl].kind = res.kind
  BY <1>4 DEF TemplatesFound
<1> QED BY <1>3, <1>4, <1>5 DEF AdmittedTemplates, TemplateNames

\* A template as its reader shows it.
LEMMA ReaderShows ==
    ASSUME NilIsNoRecord, NEW t, {"kind", "rule", "life", "retention"} \subseteq DOMAIN t
    PROVE  LET shown == Reader(t)
           IN /\ shown # Nil /\ shown.kind = t.kind /\ shown.rule = GetHealthRule(shown)
              /\ t.kind \in TemplateKinds => NewReaderFromAPI(t) = shown
<1> DEFINE a == [t EXCEPT !.life = ConvertLifecycle(t.life)]
           b == [a EXCEPT !.rule = GetHealthRule(t)]
           c == [b EXCEPT !.retention = GetRetentionPolicy(t)]
<1>1. Reader(t) = c
  BY Zenon DEF Reader
<1>2. DOMAIN a = DOMAIN t /\ a.life = ConvertLifecycle(t.life) /\ a.kind = t.kind
  OBVIOUS
<1> HIDE DEF a
<1>3. DOMAIN b = DOMAIN t /\ b.life = a.life /\ b.kind = t.kind /\ b.rule = GetHealthRule(t)
  BY <1>2
<1> HIDE DEF b
<1>4. c.life = a.life /\ c.kind = t.kind /\ c.rule = GetHealthRule(t)
  BY <1>3
<1>5. c # Nil
  BY DEF NilIsNoRecord
<1> HIDE DEF c
<1>6. t.kind \in TemplateKinds => NewReaderFromAPI(t) = Reader(t)
  BY DEF NewReaderFromAPI, TemplateKinds, SupplyChainKinds, DeliveryKinds, NewClusterSourceTemplateReader,
         NewClusterImageTemplateReader, NewClusterConfigTemplateReader, NewClusterDeploymentTemplateReader,
         NewClusterTemplateReader
<1>7. c.rule = GetHealthRule(c)
  BY <1>2, <1>4 DEF GetHealthRule, ConvertLifecycle
<1> QED BY <1>1, <1>4, <1>5, <1>6, <1>7

-----------------------------------------------------------------------------
\* An object that carries the name of its resource.
Labelled(object, name) ==
    "labels" \in DOMAIN object /\ "resource" \in DOMAIN object.labels /\ object.labels.resource = name

\* Every object on the API server is one of the resource that its key names.
KeptObjects(r) ==
    /\ {"objects", "cache"} \subseteq DOMAIN r
    /\ \A k \in DOMAIN r.objects : Labelled(r.objects[k], k[2])

\* An error makes the owner be retried exactly when it is the API server's and
\* no refusal, or is about options.
Classified(err) == IsUnhandledErrorType(err) <=> (err.cause \in {"API", "option"} /\ ~err.forbidden)

\* The errors of the output readers.
ReadErrors ==
    {"none", "JsonPathError", "NoInput", "ObservedGenerationError", "DeploymentConditionError",
     "DeploymentFailedConditionMetError"}

\* What Do returns for a resource, passed through or with the template.
DoneRight(d, resource, template, pass, fields) ==
    /\ d.err # Nil => Classified(d.err)
    /\ d.object # Nil => /\ d.template # Nil /\ Labelled(d.object.stamped, resource.name)
                         /\ d.object.fields = fields
    /\ d.template # Nil => d.template = template
    /\ pass => d.object = Nil /\ d.template = Nil
    /\ ~pass /\ d.object = Nil => d.out = Nil /\ d.err # Nil

LEMMA ReadersFail ==
    ASSUME NEW template, template.kind \in TemplateKinds, NEW object, NEW deployment
    PROVE  ReadOutput(template, object, deployment).err \in ReadErrors
<1>1. \A out : Read(out).err = "none"
  BY DEF Read
<1>2. \A err : Failed(err).err = err
  BY DEF Failed
<1>3. SourceOutput(template, object).err \in ReadErrors
  <2>1. \/ SourceOutput(template, object) = Failed("JsonPathError")
        \/ \E out : SourceOutput(template, object) = Read(out)
    BY Zenon DEF SourceOutput
  <2> QED BY <1>1, <1>2, <2>1 DEF ReadErrors
<1>4. ImageOutput(template, object).err \in ReadErrors
  <2>1. \/ ImageOutput(template, object) = Failed("JsonPathError")
        \/ \E out : ImageOutput(template, object) = Read(out)
    BY Zenon DEF ImageOutput
  <2> QED BY <1>1, <1>2, <2>1 DEF ReadErrors
<1>5. ConfigOutput(template, object).err \in ReadErrors
  <2>1. \/ ConfigOutput(template, object) = Failed("JsonPathError")
        \/ \E out : ConfigOutput(template, object) = Read(out)
    BY Zenon DEF ConfigOutput
  <2> QED BY <1>1, <1>2, <2>1 DEF ReadErrors
<1>6. ObservedCompletionReady(template, object) \in ReadErrors
  BY DEF ObservedCompletionReady, ReadErrors
<1>7. ObservedMatchesReady(template, object) \in ReadErrors
  BY DEF ObservedMatchesReady, ReadErrors
<1>8. DeploymentOutput(template, object, deployment).err \in ReadErrors
  <2> DEFINE ready == IF "completion" \in template.ready THEN ObservedCompletionReady(template, object)
                      ELSE ObservedMatchesReady(template, object)
  <2>1. ready \in ReadErrors
    BY <1>6, <1>7
  <2>2. \/ DeploymentOutput(template, object, deployment) \in {Failed(ready), Failed("NoInput")}
        \/ \E out : DeploymentOutput(template, object, deployment) = Read(out)
    BY Zenon DEF DeploymentOutput
  <2> HIDE DEF ready
  <2> QED BY <1>1, <1>2, <2>1, <2>2 DEF ReadErrors
<1> DEFINE r == ReadOutput(template, object, deployment)
<1>9. \/ r \in {SourceOutput(template, object), ImageOutput(template, object), ConfigOutput(template, object),
                DeploymentOutput(template, object, deployment), Failed("NoInput"), Failed("JsonPathError")}
      \/ \E out : r = Read(out)
  BY DEF ReadOutput, TemplateKinds, SupplyChainKinds, DeliveryKinds
<1> HIDE DEF r
<1> QED BY <1>1, <1>2, <1>3, <1>4, <1>5, <1>8, <1>9 DEF ReadErrors, r

LEMMA PassThroughsFail ==
    ASSUME NEW resource, resource.kind \in TemplateKinds, NEW pass
    PROVE  NewPassThroughReader(resource, pass, outs).err \in ReadErrors
<1>1. \A out : Read(out).err = "none"
  BY DEF Read
<1>2. \A err : Failed(err).err = err
  BY DEF Failed
<1> DEFINE r == NewPassThroughReader(resource, pass, outs)
<1>3. \/ r \in {PassThroughOutput(GetSources(resource, outs), pass, "source"), PassThroughOutput(GetImages(resource, outs), pass, "image"),
                PassThroughOutput(GetConfigs(resource, outs), pass, "config"), Failed("NoInput")}
      \/ \E out : r = Read(out)
  BY DEF NewPassThroughReader, TemplateKinds, SupplyChainKinds, DeliveryKinds
<1>4. \A inputs, field : PassThroughOutput(inputs, pass, field) = Failed("NoInput") \/
                         \E out : PassThroughOutput(inputs, pass, field) = Read(out)
  BY Zenon DEF PassThroughOutput
<1> HIDE DEF r
<1> QED BY <1>1, <1>2, <1>3, <1>4 DEF ReadErrors, r

\* Every error of Do is of a class that suits it.
LEMMA ErrorsAreClassified ==
    ASSUME NEW cause \in ReadErrors, NEW stamped, NEW fate
    PROVE  /\ Classified(Error("wrapError", "option", FALSE, FALSE))
           /\ Classified(Error("GetTemplateError", "API", FALSE, FALSE))
           /\ Classified(Error("ListCreatedObjectsError", "API", FALSE, FALSE))
           /\ Classified(Error("StampError", "stamp", FALSE, FALSE))
           /\ Classified(Error("RetrieveOutputError", cause, FALSE, stamped))
           /\ Classified(ApplyError(fate))
<1>2. ASSUME NEW e, ~e.forbidden, e.cause \in {"API", "option"},
             e.type \in {"wrapError", "GetTemplateError", "ListCreatedObjectsError"}
      PROVE  Classified(e)
  <2>1. IsUnhandledErrorType(e)
    BY <1>2 DEF IsUnhandledErrorType
  <2> QED BY <1>2, <2>1, Zenon DEF Classified
<1>3. ASSUME NEW e, e.cause \in ReadErrors \cup {"stamp"}, e.type \in {"StampError", "RetrieveOutputError"}
      PROVE  Classified(e)
  <2>1. ~IsUnhandledErrorType(e)
    BY <1>3 DEF IsUnhandledErrorType
  <2>2. e.cause \notin {"API", "option"}
    BY <1>3 DEF ReadErrors
  <2> QED BY <2>1, <2>2, Zenon DEF Classified
<1>4. Classified(ApplyError(fate))
  <2> DEFINE e == ApplyError(fate)
  <2>1. e.type = "ApplyStampedObjectError" /\ e.cause = "API"
    BY DEF ApplyError, Error
  <2> HIDE DEF e
  <2>2. IsUnhandledErrorType(e) <=> ~e.forbidden
    BY <2>1 DEF IsUnhandledErrorType
  <2>3. e.cause \in {"API", "option"}
    BY <2>1
  <2> QED BY <2>2, <2>3, Zenon DEF Classified, e
<1>5. /\ Classified(Error("wrapError", "option", FALSE, FALSE))
      /\ Classified(Error("GetTemplateError", "API", FALSE, FALSE))
      /\ Classified(Error("ListCreatedObjectsError", "API", FALSE, FALSE))
  <2>1. \A type, c : LET e == Error(type, c, FALSE, FALSE) IN e.type = type /\ e.cause = c /\ ~e.forbidden
    BY DEF Error
  <2> QED BY <1>2, <2>1
<1>6. Classified(Error("StampError", "stamp", FALSE, FALSE))
  <2> DEFINE e == Error("StampError", "stamp", FALSE, FALSE)
  <2>1. e.type = "StampError" /\ e.cause = "stamp"
    BY DEF Error
  <2> HIDE DEF e
  <2>2. Classified(e)
    BY <1>3, <2>1
  <2> QED BY <2>2 DEF e
<1>7. Classified(Error("RetrieveOutputError", cause, FALSE, stamped))
  <2> DEFINE e == Error("RetrieveOutputError", cause, FALSE, stamped)
  <2>1. e.type = "RetrieveOutputError" /\ e.cause = cause
    BY DEF Error
  <2> HIDE DEF e
  <2>2. Classified(e)
    BY <1>3, <2>1
  <2> QED BY <2>2 DEF e
<1> QED BY <1>4, <1>5, <1>6, <1>7

\* What is stamped for a resource carries its name.
LEMMA StampedIsLabelled ==
    ASSUME NEW template, NEW resource, NEW fate, StampFromTemplate(template, resource, fate) # Nil
    PROVE  Labelled(StampFromTemplate(template, resource, fate), resource.name)
<1> DEFINE labels == ResourceLabels(Owner, chain, resource, template)
           context == Generate(template, chain, resource, Owner, outs)
           s == Stamp(template, context, Owner, labels, fate.what # "yttFails")
<1>1. StampFromTemplate(template, resource, fate) = s
  BY Zenon DEF StampFromTemplate
<1>2. "resource" \in DOMAIN labels /\ labels.resource = resource.name
  BY DEF ResourceLabels, BuildWorkloadResourceLabeler, BuildDeliverableResourceLabeler
<1> HIDE DEF labels, context
<1>3. s # Nil => "labels" \in DOMAIN s /\ s.labels = labels
  BY DEF Stamp
<1> QED BY <1>1, <1>2, <1>3 DEF Labelled

\* Do, for what GetTemplateNameFromResource has chosen; template is what the
\* reader shows of the one that was chosen.
ReadFor(chosen, template) ==
    /\ chosen.err \in {"none", "wrapError"} /\ (chosen.err # "none" => chosen.pass = Nil)
    /\ chosen.err = "none" /\ chosen.pass = Nil =>
         template # Nil /\ NewReaderFromAPI(given.templates[chosen.tmpl]) = template /\ template.kind \in TemplateKinds

LEMMA DoIsRight ==
    ASSUME NilIsNoRecord, KeptObjects(repo), NEW resource, resource.kind \in TemplateKinds, NEW chosen, NEW fate,
           NEW template, ReadFor(chosen, template)
    PROVE  DoneRight(Do(resource, chosen, fate), resource, template, chosen.pass # Nil, fate.fields)
<1> DEFINE Right(d, pass) == DoneRight(d, resource, template, pass, fate.fields)
           reader == NewReaderFromAPI(given.templates[chosen.tmpl])
           stamped == StampFromTemplate(template, resource, fate)
           deployment == GetDeployment(resource, outs)
<1>0. ApplyError(fate) # Nil
  BY DEF NilIsNoRecord, ApplyError, Error
<1>1. \A t, e : t \in {Nil, template} /\ e # Nil /\ Classified(e) => Right(Refused(t, e), FALSE)
  <2> TAKE t, e
  <2> HAVE t \in {Nil, template} /\ e # Nil /\ Classified(e)
  <2> DEFINE d == Refused(t, e)
  <2>1. d.err = e /\ d.object = Nil /\ d.template = t /\ d.out = Nil
    BY DEF Refused
  <2> HIDE DEF d
  <2> QED BY <2>1 DEF DoneRight, d
<1>1a. "none" \in ReadErrors
  BY DEF ReadErrors
<1>2. ASSUME NEW object, NEW read, read.err \in ReadErrors, object # Nil, template # Nil, Labelled(object.stamped, resource.name),
             object.fields = fate.fields
      PROVE  Right(Returned(template, object, read, TRUE), FALSE)
  <2> DEFINE d == Returned(template, object, read, TRUE)
             e == Error("RetrieveOutputError", read.err, FALSE, TRUE)
  <2>1. d.object = object /\ d.template = template /\ (d.err = Nil \/ d.err = e)
    BY DEF Returned
  <2>2. Classified(e)
    BY <1>2, ErrorsAreClassified
  <2> HIDE DEF d, e
  <2> QED BY <1>2, <2>1, <2>2 DEF DoneRight, d
<1>3. CASE chosen.err # "none"
  <2>0. chosen.err = "wrapError" /\ chosen.pass = Nil
    BY <1>3 DEF ReadFor
  <2>1. Do(resource, chosen, fate) = Refused(Nil, Error("wrapError", "option", FALSE, FALSE))
    BY <1>3, <2>0, Zenon DEF Do
  <2> QED BY <2>0, <2>1, <1>1, <1>1a, NoErrorIsNil, ErrorsAreClassified
<1>4. CASE chosen.err = "none" /\ chosen.pass # Nil
  <2> DEFINE read == NewPassThroughReader(resource, chosen.pass, outs)
             d == Returned(Nil, Nil, read, FALSE)
             e == Error("RetrieveOutputError", read.err, FALSE, FALSE)
  <2>1. Do(resource, chosen, fate) = d
    BY <1>4, Zenon DEF Do, DoPassThrough
  <2> HIDE DEF read
  <2>2. d.object = Nil /\ d.template = Nil /\ (d.err = Nil \/ d.err = e)
    BY DEF Returned
  <2>3. Classified(e)
    BY PassThroughsFail, ErrorsAreClassified DEF read
  <2> HIDE DEF d, e
  <2>4. Right(d, TRUE)
    BY <2>2, <2>3 DEF DoneRight
  <2> QED BY <2>1, <2>4, <1>4
<1>5. CASE chosen.err = "none" /\ chosen.pass = Nil
  <2>1. template # Nil /\ reader = template /\ template.kind \in TemplateKinds
    BY <1>5 DEF ReadFor
  <2>2. Do(resource, chosen, fate) =
          IF fate.what = "gone" THEN Refused(Nil, Error("GetTemplateError", "API", FALSE, FALSE))
          ELSE DoStamped(template, stamped, fate, deployment)
    BY <1>5, <2>1 DEF Do
  <2>3. Right(Refused(Nil, Error("GetTemplateError", "API", FALSE, FALSE)), FALSE)
    BY <1>1, <1>1a, NoErrorIsNil, ErrorsAreClassified
  <2>4. ASSUME stamped # Nil, NEW object, object # Nil, object.fields = fate.fields, object.stamped = stamped
        PROVE  Right(DoImmutable(template, object, fate, deployment), FALSE)
    <3>1. Right(Refused(template, ApplyError(fate)), FALSE)
      BY <1>0, <1>1, <1>1a, ErrorsAreClassified
    <3>2. Right(Refused(template, Error("ListCreatedObjectsError", "API", FALSE, FALSE)), FALSE)
      BY <1>1, <1>1a, NoErrorIsNil, ErrorsAreClassified
    <3>3. Labelled(object.stamped, resource.name)
      BY <2>4, StampedIsLabelled
    <3>4. \A read : read.err \in ReadErrors => Right(Returned(template, object, read, TRUE), FALSE)
      BY <1>2, <2>1, <2>4, <3>3
    <3>5. \A latest : ReadOutput(template, latest, deployment).err \in ReadErrors
      BY <2>1, ReadersFail
    <3> HIDE DEF Right, stamped, deployment
    <3> QED BY <3>1, <3>2, <3>4, <3>5 DEF DoImmutable
  <2>5. ASSUME stamped # Nil, NEW object, object.fields = fate.fields, object.stamped = stamped,
               DOMAIN object = {"stamped", "fields", "conds", "born"}
        PROVE  Right(DoMutable(template, object, fate, deployment), FALSE)
    <3> DEFINE kept == EnsureMutable(object.stamped).object
               ensured == [object EXCEPT !.stamped = kept]
    <3>1. Right(Refused(template, ApplyError(fate)), FALSE)
      BY <1>0, <1>1, <1>1a, ErrorsAreClassified
    <3>2. Labelled(kept, resource.name)
      <4>1. Labelled(stamped, resource.name)
        BY <2>5, StampedIsLabelled
      <4>2. kept = stamped \/ (kept = GetUnstructured(stamped) /\ kept # Nil)
        <5> HIDE DEF stamped
        <5> QED BY <2>5 DEF EnsureMutable
      <4>3. kept = GetUnstructured(stamped) /\ kept # Nil => Labelled(kept, GetKey(stamped)[2])
        <5> HIDE DEF stamped, kept
        <5> QED BY DEF GetUnstructured, KeptObjects
      <4>4. GetKey(stamped)[2] = resource.name
        <5> HIDE DEF stamped
        <5> QED BY <4>1 DEF GetKey, Labelled
      <4> QED BY <4>1, <4>2, <4>3, <4>4
    <3> HIDE DEF kept, stamped, deployment
    <3>3. ensured # Nil /\ ensured.stamped = kept /\ ensured.fields = fate.fields
      BY <2>5 DEF NilIsNoRecord
    <3> HIDE DEF ensured
    <3>4. \A read : read.err \in ReadErrors => Right(Returned(template, ensured, read, TRUE), FALSE)
      BY <1>2, <2>1, <3>2, <3>3
    <3>5. DoMutable(template, object, fate, deployment) =
            IF fate.what \in {"rejected", "forbidden"} THEN Refused(template, ApplyError(fate))
            ELSE Returned(template, ensured, ReadOutput(template, ensured, deployment), TRUE)
      BY Zenon DEF DoMutable, ensured, kept
    <3>6. ReadOutput(template, ensured, deployment).err \in ReadErrors
      BY <2>1, ReadersFail
    <3> HIDE DEF Right
    <3> QED BY <3>1, <3>4, <3>5, <3>6
  <2>6. Right(DoStamped(template, stamped, fate, deployment), FALSE)
    <3> DEFINE object == [stamped |-> stamped, fields |-> fate.fields, conds |-> fate.conds, born |-> fate.born]
    <3>1. Right(Refused(template, Error("StampError", "stamp", FALSE, FALSE)), FALSE)
      BY <1>1, <1>1a, NoErrorIsNil, ErrorsAreClassified
    <3>2. /\ object # Nil /\ object.fields = fate.fields /\ object.stamped = stamped
          /\ DOMAIN object = {"stamped", "fields", "conds", "born"}
      <4> HIDE DEF stamped
      <4> QED BY DEF NilIsNoRecord
    <3>3. DoStamped(template, stamped, fate, deployment) =
            IF stamped = Nil THEN Refused(template, Error("StampError", "stamp", FALSE, FALSE))
            ELSE IF IsImmutable(template) THEN DoImmutable(template, object, fate, deployment)
            ELSE DoMutable(template, object, fate, deployment)
      BY Zenon DEF DoStamped
    <3> HIDE DEF object, Right, stamped, deployment
    <3> QED BY <2>4, <2>5, <3>1, <3>2, <3>3
  <2> HIDE DEF Right, stamped, deployment
  <2>7. Right(Do(resource, chosen, fate), FALSE)
    BY <2>2, <2>3, <2>6
  <2> QED BY <1>5, <2>7 DEF Right
<1> QED BY <1>3, <1>4, <1>5

-----------------------------------------------------------------------------
\* A Healthy condition.
IsHealth(h) == h # Nil /\ h.type = "Healthy" /\ h.status \in {"True", "False", "Unknown"}

LEMMA HealthyIsHealth ==
    ASSUME NilIsNoRecord, NEW status, NEW reason
    PROVE  /\ Healthy(status, reason).status = status /\ Healthy(status, reason) # Nil
           /\ status \in {"True", "False", "Unknown"} => IsHealth(Healthy(status, reason))
<1> DEFINE h == Healthy(status, reason)
<1>1. h.status = status /\ h.type = "Healthy"
  BY DEF Healthy, Condition
<1>2. h # Nil
  BY NoConditionIsNil DEF Healthy
<1> HIDE DEF h
<1> QED BY <1>1, <1>2 DEF IsHealth, h

\* A requirement that matches is met; one that can be compared and is met
\* matches (Matches).
LEMMA FieldsMean ==
    ASSUME NEW req, NEW fields, \A path \in DOMAIN fields : fields[path] \in Seq(ToSet(fields[path]))
    PROVE  /\ Matches(req, fields) = "match" => Satisfied(req, fields)
           /\ Comparable(req, fields) /\ Satisfied(req, fields) => Matches(req, fields) = "match"
<1>1. Matches(req, fields) = "match" => req.op \in FieldSelectorOperators /\ req.key \in DOMAIN fields
  <2> DEFINE actual == EvaluateJsonPath(req.key, fields)
  <2>1. req.key \notin DOMAIN fields => actual.err = "invalid"
    BY DEF EvaluateJsonPath, SinglePathEvaluate
  <2>2. actual.err = "invalid" => Matches(req, fields) = "invalid"
    <3>1. actual.err = "invalid" => Matches(req, fields) \in {"invalid"}
      BY DEF Matches
    <3> QED BY <3>1
  <2>3. req.op \notin FieldSelectorOperators => Matches(req, fields) \in {"invalid", "missing"}
    BY DEF Matches
  <2> QED BY <2>1, <2>2, <2>3
<1>2. ASSUME req.op \in FieldSelectorOperators, req.key \in DOMAIN fields
      PROVE  /\ Len(fields[req.key]) > 1 => Matches(req, fields) = "invalid"
             /\ ~(Len(fields[req.key]) > 1) => (Matches(req, fields) = "match" <=> Satisfied(req, fields))
  BY <1>2, MatchesMeans
<1>3. Matches(req, fields) = "match" => Satisfied(req, fields)
  BY <1>1, <1>2
<1>4. ASSUME Comparable(req, fields), Satisfied(req, fields) PROVE Matches(req, fields) = "match"
  <2>1. req.op \in FieldSelectorOperators /\ req.key \in DOMAIN fields /\ Len(fields[req.key]) <= 1
    BY <1>4 DEF Comparable
  <2>2. Len(fields[req.key]) \in Nat
    BY <2>1
  <2>3. ~(Len(fields[req.key]) > 1)
    BY <2>1, <2>2
  <2> QED BY <1>2, <1>4, <2>1, <2>3
<1> QED BY <1>3, <1>4

\* The verdict of a rule with several requirements (MultiMatch).
LEMMA MultiMeans ==
    ASSUME NilIsNoRecord, NEW multi, NEW object,
           \A path \in DOMAIN object.fields : object.fields[path] \in Seq(ToSet(object.fields[path]))
    PROVE  /\ IsHealth(MultiMatch(multi, object))
           /\ MultiMatch(multi, object).status = "True" =>
                /\ ~\E i \in DOMAIN multi.unhealthy.conds : MatchesCondition(multi.unhealthy.conds[i], object)
                /\ ~\E i \in DOMAIN multi.unhealthy.fields :
                      /\ Comparable(multi.unhealthy.fields[i], object.fields)
                      /\ Satisfied(multi.unhealthy.fields[i], object.fields)
                /\ \A i \in DOMAIN multi.healthy.conds : MatchesCondition(multi.healthy.conds[i], object)
                /\ \A i \in DOMAIN multi.healthy.fields : Satisfied(multi.healthy.fields[i], object.fields)
<1> DEFINE un == multi.unhealthy
           he == multi.healthy
           cond == \E i \in DOMAIN un.conds : MatchesCondition(un.conds[i], object)
           field == \E i \in DOMAIN un.fields : Matches(un.fields[i], object.fields) = "match"
           all == /\ \A i \in DOMAIN he.conds : MatchesCondition(he.conds[i], object)
                  /\ \A i \in DOMAIN he.fields : Matches(he.fields[i], object.fields) = "match"
           why == IF he.conds # <<>> THEN "MatchedCondition" ELSE "MatchedField"
           u == AnyUnhealthy(un, object)
           h == AllHealthy(he, object)
<1>1. u = IF cond THEN Healthy("False", "MatchedCondition") ELSE IF field THEN Healthy("False", "MatchedField") ELSE Nil
  BY Zenon DEF AnyUnhealthy
<1>2. h = IF all THEN Healthy("True", why) ELSE Nil
  BY Zenon DEF AllHealthy
<1>3. MultiMatch(multi, object) = IF u # Nil THEN u ELSE IF h # Nil THEN h ELSE Healthy("Unknown", "NoMatchesFulfilled")
  BY Zenon DEF MultiMatch, FirstVerdict
<1>4. ~field => ~\E i \in DOMAIN un.fields : Comparable(un.fields[i], object.fields) /\ Satisfied(un.fields[i], object.fields)
  BY FieldsMean
<1>5. all => /\ \A i \in DOMAIN he.conds : MatchesCondition(he.conds[i], object)
             /\ \A i \in DOMAIN he.fields : Satisfied(he.fields[i], object.fields)
  BY FieldsMean
<1>6. \A reason : \A status \in {"True", "False", "Unknown"} :
         Healthy(status, reason) # Nil /\ IsHealth(Healthy(status, reason)) /\ Healthy(status, reason).status = status
  BY HealthyIsHealth
<1>7. (cond \/ field) => u # Nil /\ u.status = "False" /\ IsHealth(u)
  <2> HIDE DEF cond, field
  <2> QED BY <1>1, <1>6
<1>8. ~(cond \/ field) => u = Nil
  <2> HIDE DEF cond, field
  <2> QED BY <1>1
<1>9. h # Nil => all /\ IsHealth(h)
  <2> HIDE DEF all
  <2> QED BY <1>2, <1>6
<1>10. MultiMatch(multi, object).status = "True" => ~cond /\ ~field /\ all
  <2> HIDE DEF cond, field, all, u, h
  <2> QED BY <1>3, <1>6, <1>7, <1>8, <1>9
<1>11. IsHealth(MultiMatch(multi, object))
  <2> HIDE DEF cond, field, all, u, h
  <2> QED BY <1>3, <1>6, <1>7, <1>8, <1>9
<1> HIDE DEF field, all
<1> QED BY <1>4, <1>5, <1>10, <1>11

\* What is reported as healthy is healthy by its rule (DetermineHealthCondition).
LEMMA HealthMeans ==
    ASSUME NilIsNoRecord, NEW d, NEW realized, d.object # Nil, d.template.rule = GetHealthRule(d.template),
           \A path \in DOMAIN d.object.fields : d.object.fields[path] \in Seq(ToSet(d.object.fields[path])),
           realized.kind = d.template.kind, DOMAIN realized.outputs # {} => d.out # Nil
    PROVE  LET h == DetermineHealthCondition(d.template.rule, realized, d.object)
           IN IsHealth(h) /\ (h.status = "True" => HealthyBy(d))
<1> DEFINE rule == d.template.rule
           h == DetermineHealthCondition(rule, realized, d.object)
<1>0. \A reason : \A status \in {"True", "False", "Unknown"} :
         IsHealth(Healthy(status, reason)) /\ Healthy(status, reason).status = status
  BY HealthyIsHealth
<1>1. CASE rule = Nil
  <2>1. h \in {Healthy("True", "OutputsAvailable"), Healthy("True", "AlwaysHealthy"),
               Healthy("Unknown", "NoStampedObject"), Healthy("Unknown", "OutputNotAvailable")}
    BY <1>1 DEF DetermineHealthCondition
  <2>2. IsHealth(h)
    BY <1>0, <2>1
  <2>3. ASSUME h.status = "True" PROVE d.template.kind = "ClusterTemplate" \/ d.out # Nil
    <3>1. DOMAIN realized.outputs = {} /\ ~IsClusterTemplate(realized) => h = Healthy("Unknown", "OutputNotAvailable")
      BY <1>1 DEF DetermineHealthCondition
    <3>2. Healthy("Unknown", "OutputNotAvailable").status = "Unknown"
      BY <1>0
    <3>3. DOMAIN realized.outputs # {} \/ IsClusterTemplate(realized)
      BY <2>3, <3>1, <3>2
    <3> QED BY <3>3 DEF IsClusterTemplate
  <2>4. h.status = "True" => HealthyBy(d)
    <3>1. GetHealthRule(d.template) = Nil
      BY <1>1
    <3>2. HealthyBy(d) <=> (d.template.kind = "ClusterTemplate" \/ d.out # Nil)
      BY <3>1, Zenon DEF HealthyBy
    <3> QED BY <2>3, <3>2
  <2> QED BY <2>2, <2>4
<1>2. CASE rule # Nil /\ rule.always # Nil
  <2>1. h = Healthy("True", "AlwaysHealthy")
    BY <1>2 DEF DetermineHealthCondition
  <2>2. HealthyBy(d)
    <3>1. GetHealthRule(d.template) # Nil /\ GetHealthRule(d.template).always # Nil
      BY <1>2
    <3> QED BY <3>1, Zenon DEF HealthyBy
  <2> QED BY <1>0, <2>1, <2>2
<1>3. CASE rule # Nil /\ rule.always = Nil /\ rule.single # Nil
  <2> DEFINE status == ObjectCondition(d.object, rule.single)
             said1 == IF status \in {"True", "False"} THEN status ELSE "Unknown"
  <2>1. h = Healthy(said1, "Condition")
    BY <1>3 DEF DetermineHealthCondition, SingleConditionType
  <2>2. said1 \in {"True", "False", "Unknown"} /\ (said1 = "True" => status = "True")
    <3> HIDE DEF status
    <3> QED OBVIOUS
  <2>3. status = "True" => HealthyBy(d)
    <3>1. GetHealthRule(d.template) = rule
      OBVIOUS
    <3> QED BY <3>1, <1>3, Zenon DEF HealthyBy
  <2> HIDE DEF status, said1
  <2> QED BY <1>0, <2>1, <2>2, <2>3
<1>4. CASE rule # Nil /\ rule.always = Nil /\ rule.single = Nil
  <2> DEFINE multi == rule.multi
             v == MultiMatch(multi, d.object)
  <2>1. h = v
    BY <1>4 DEF DetermineHealthCondition
  <2>2. /\ IsHealth(v)
        /\ v.status = "True" =>
             /\ ~\E i \in DOMAIN multi.unhealthy.conds : MatchesCondition(multi.unhealthy.conds[i], d.object)
             /\ ~\E i \in DOMAIN multi.unhealthy.fields :
                   /\ Comparable(multi.unhealthy.fields[i], d.object.fields)
                   /\ Satisfied(multi.unhealthy.fields[i], d.object.fields)
             /\ \A i \in DOMAIN multi.healthy.conds : MatchesCondition(multi.healthy.conds[i], d.object)
             /\ \A i \in DOMAIN multi.healthy.fields : Satisfied(multi.healthy.fields[i], d.object.fields)
    BY MultiMeans
  <2> DEFINE c(m) == {m.conds[i] : i \in DOMAIN m.conds}
             f(m) == {m.fields[i] : i \in DOMAIN m.fields}
             holds(k) == k.type \in DOMAIN d.object.conds /\ d.object.conds[k.type] = k.status
             good == /\ ~\E k \in c(multi.unhealthy) : holds(k)
                     /\ ~\E q \in f(multi.unhealthy) :
                           Comparable(q, d.object.fields) /\ Satisfied(q, d.object.fields)
                     /\ \A k \in c(multi.healthy) : holds(k)
                     /\ \A q \in f(multi.healthy) : Satisfied(q, d.object.fields)
  <2>3. HealthyBy(d) <=> good
    <3>1. GetHealthRule(d.template) = rule
      OBVIOUS
    <3>2. HealthyBy(d) =
            CASE rule = Nil -> d.template.kind = "ClusterTemplate" \/ d.out # Nil
              [] rule # Nil /\ rule.always # Nil -> TRUE
              [] rule # Nil /\ rule.always = Nil /\ rule.single # Nil -> ObjectCondition(d.object, rule.single) = "True"
              [] OTHER -> good
      BY <3>1, SMTT(40) DEF HealthyBy
    <3> HIDE DEF good
    <3> QED BY <3>2, <1>4, Zenon
  <2>4. v.status = "True" => good
    <3> HIDE DEF v
    <3> QED BY <2>2 DEF MatchesCondition
  <2> HIDE DEF v, good
  <2> QED BY <2>1, <2>2, <2>3, <2>4
<1> QED BY <1>1, <1>2, <1>3, <1>4

\* Nothing is known of the health of what is not there.
LEMMA NoObjectNoHealth ==
    ASSUME NilIsNoRecord, NEW rule, NEW realized, DOMAIN realized.outputs = {}, realized.stamped = Nil
    PROVE  LET h == DetermineHealthCondition(rule, realized, Nil)
           IN IsHealth(h) /\ h.status = "Unknown"
<1> DEFINE h == DetermineHealthCondition(rule, realized, Nil)
<1>1. \E reason : h = Healthy("Unknown", reason)
  BY DEF DetermineHealthCondition
<1> QED BY <1>1, HealthyIsHealth

-----------------------------------------------------------------------------
\* The condition of an error is never a good one (the functions of
\* pkg/conditions that the errors are turned into conditions with).
SubmittedTypes == {"ResourceSubmitted", "ResourcesSubmitted", "SupplyChainReady"}
IsBad(c) == c.type \in SubmittedTypes /\ c.status \in {"False", "Unknown"}

LEMMA ErrorsAreBad ==
    ASSUME NEW kind, NEW isOwner \in BOOLEAN, NEW err
    PROVE  IsBad(AddCondition(kind, isOwner, err))
<1>1. \A type \in SubmittedTypes, status \in {"False", "Unknown"} : \A reason : IsBad(Condition(type, status, reason))
  BY DEF IsBad, Condition
<1>2. SubmittedType(isOwner) \in SubmittedTypes /\ "SupplyChainReady" \in SubmittedTypes /\ "ResourcesSubmitted" \in SubmittedTypes
  BY DEF SubmittedType, SubmittedTypes
<1>3. \E type \in SubmittedTypes, status \in {"False", "Unknown"} : \E reason :
         ErrorCondition(isOwner, err) = Condition(type, status, reason)
  BY <1>2 DEF ErrorCondition
<1>4. \E type \in SubmittedTypes, status \in {"False", "Unknown"} : \E reason :
         MissingValue(isOwner, err) = Condition(type, status, reason)
  BY <1>2 DEF MissingValue
<1>5. IsBad(AddConditionForResourceSubmittedWorkload(isOwner, err))
  BY <1>1, <1>2, <1>3, <1>4 DEF AddConditionForResourceSubmittedWorkload
<1>6. IsBad(AddConditionForResourceSubmittedDeliverable(isOwner, err))
  BY <1>1, <1>2, <1>3, <1>4 DEF AddConditionForResourceSubmittedDeliverable
<1> QED BY <1>5, <1>6 DEF AddCondition

\* The conditions of a resource: Ready only without an error, and Healthy as it
\* was determined (createConditions).
ConditionsSay(c, err, further, h) ==
    /\ IsList(c)
    /\ ConditionWithType(c, "Ready").status = "True" => err = Nil
    /\ further = <<>> => ConditionWithType(c, "Healthy") = Nil
    /\ further = <<h>> => ConditionWithType(c, "Healthy") = h
    /\ \A i \in DOMAIN c : c[i].type = "Healthy" => further = <<h>> /\ c[i] = h

LEMMA ResourceConditions ==
    ASSUME NEW kind, NEW err, NEW pass, NEW h, h.type = "Healthy", NEW further, further \in {<<>>, <<h>>}
    PROVE  ConditionsSay(CreateConditions(kind, err, pass, further), err, further, h)
<1> DEFINE submitted == IF err # Nil THEN AddCondition(kind, FALSE, err) ELSE ResourcesSubmitted(FALSE, pass)
           conds == <<submitted>> \o further
           c == CreateConditions(kind, err, pass, further)
<1>1. submitted.type \in SubmittedTypes /\ (err # Nil => submitted.status \in {"False", "Unknown"})
  <2>1. CASE err # Nil
    BY <2>1, ErrorsAreBad DEF IsBad
  <2>2. CASE err = Nil
    BY <2>2 DEF ResourcesSubmitted, SubmittedType, SubmittedTypes, Condition
  <2> QED BY <2>1, <2>2
<1>2. c = Finalize("Ready", conds)
  BY Zenon DEF CreateConditions
<1> HIDE DEF submitted, c
<1>3. further = <<>> => conds = <<submitted>>
  BY ShortLists
<1>4. further = <<h>> => conds = <<submitted, h>>
  BY ShortLists
<1> HIDE DEF conds
<1>5. submitted.type # "Ready" /\ submitted.type # "Healthy" /\ h.type # "Ready"
  BY <1>1 DEF SubmittedTypes
<1>6. CASE further = <<>>
  <2>1. IsList(conds) /\ DOMAIN conds = {1} /\ conds[1] = submitted
    <3>1. conds = <<submitted>> /\ IsList(conds)
      BY <1>3, <1>6, ShortLists
    <3> QED BY <3>1
  <2>2. /\ IsList(c) /\ ConditionWithType(c, "Ready") = Last(c)
        /\ Last(c).status = "True" => \A i \in DOMAIN conds : conds[i].status \notin {"False", "Unknown"}
        /\ \A i \in DOMAIN c : c[i].type = "Ready" \/ \E j \in DOMAIN conds : c[i] = conds[j]
        /\ ConditionWithType(c, "Healthy") = ConditionWithType(conds, "Healthy")
    <3>1. \A i \in DOMAIN conds : conds[i].type # "Ready"
      BY <1>5, <2>1
    <3> QED BY <1>2, <2>1, <3>1, FinalizeFacts
  <2>3. ConditionWithType(conds, "Healthy") = Nil
    BY <1>5, <2>1, FirstOfItsType
  <2>4. further # <<h>>
    <3>1. Len(<<>>) # Len(<<h>>)
      OBVIOUS
    <3> QED BY <3>1, <1>6
  <2>5. \A i \in DOMAIN c : c[i].type # "Healthy"
    BY <2>1, <2>2, <1>5
  <2>6. ConditionWithType(c, "Ready").status = "True" => err = Nil
    BY <2>1, <2>2, <1>1
  <2> QED BY <1>6, <2>2, <2>3, <2>4, <2>5, <2>6 DEF c, ConditionsSay
<1>7. CASE further = <<h>>
  <2>1. IsList(conds) /\ DOMAIN conds = {1, 2} /\ conds[1] = submitted /\ conds[2] = h
    <3>1. conds = <<submitted, h>> /\ IsList(conds)
      BY <1>4, <1>7, ShortLists
    <3> QED BY <3>1
  <2>2. /\ IsList(c) /\ ConditionWithType(c, "Ready") = Last(c)
        /\ Last(c).status = "True" => \A i \in DOMAIN conds : conds[i].status \notin {"False", "Unknown"}
        /\ \A i \in DOMAIN c : c[i].type = "Ready" \/ \E j \in DOMAIN conds : c[i] = conds[j]
        /\ ConditionWithType(c, "Healthy") = ConditionWithType(conds, "Healthy")
    <3>1. \A i \in DOMAIN conds : conds[i].type # "Ready"
      BY <1>5, <2>1
    <3> QED BY <1>2, <2>1, <3>1, FinalizeFacts
  <2>3. ConditionWithType(conds, "Healthy") = h
    BY <1>5, <2>1, FirstOfItsType
  <2>4. further # <<>>
    <3>1. Len(<<>>) # Len(<<h>>)
      OBVIOUS
    <3> QED BY <3>1, <1>7
  <2>5. \A i \in DOMAIN c : c[i].type = "Healthy" => c[i] = h
    BY <2>1, <2>2, <1>5
  <2>6. ConditionWithType(c, "Ready").status = "True" => err = Nil
    BY <2>1, <2>2, <1>1
  <2> QED BY <1>7, <2>2, <2>3, <2>4, <2>5, <2>6 DEF c, ConditionsSay
<1> QED BY <1>6, <1>7

\* The owner is Ready only without an error and when no resource is known to be
\* unhealthy, or of unknown health (OwnerHealthCondition, Finalize).
LEMMA OwnerIsReady ==
    ASSUME NEW kind, NEW err, NEW list, IsList(list), Last(OwnerConditions(kind, err, list)).status = "True"
    PROVE  /\ err = Nil
           /\ \A i \in DOMAIN list :
                 LET h == ConditionWithType(list[i].conds, "Healthy") IN h = Nil \/ h.status \notin {"False", "Unknown"}
<1> DEFINE a == BlueprintReadyCondition(kind)
           b == IF err # Nil THEN AddCondition(kind, TRUE, err) ELSE ResourcesSubmitted(TRUE, FALSE)
           c == OwnerHealthCondition(list)
           conds == <<a, b, c>>
           all == [i \in DOMAIN list |-> ConditionWithType(list[i].conds, "Healthy")]
           positions == {i \in DOMAIN all : all[i] # Nil}
           healths == ElementsAt(all, positions)
           f == Finalize("ResourcesHealthy", healths)
<1>1. OwnerConditions(kind, err, list) = Finalize("Ready", conds)
  BY Zenon DEF OwnerConditions
<1>2. c = Condition("ResourcesHealthy", Last(f).status, "HealthyConditionRule")
  BY Zenon DEF OwnerHealthCondition
<1>3. a.type # "Ready"
  BY DEF BlueprintReadyCondition, Condition
<1>4. b.type # "Ready" /\ (err # Nil => b.status \in {"False", "Unknown"})
  <2>1. CASE err # Nil
    BY <2>1, ErrorsAreBad DEF IsBad, SubmittedTypes
  <2>2. CASE err = Nil
    BY <2>2 DEF ResourcesSubmitted, SubmittedType, Condition
  <2> QED BY <2>1, <2>2
<1> HIDE DEF f
<1>5. c.type # "Ready" /\ c.status = Last(f).status
  BY <1>2 DEF Condition
<1> HIDE DEF a, b, c
<1>6. IsList(conds) /\ DOMAIN conds = {1, 2, 3} /\ conds[1] = a /\ conds[2] = b /\ conds[3] = c
  <2>1. conds \in Seq({a, b, c})
    OBVIOUS
  <2>2. DOMAIN conds = 1..3
    OBVIOUS
  <2>3. 1..3 = {1, 2, 3}
    OBVIOUS
  <2> QED BY <2>1, <2>2, <2>3 DEF IsList
<1> HIDE DEF conds
<1>7. \A i \in DOMAIN conds : conds[i].type # "Ready"
  BY <1>3, <1>4, <1>5, <1>6
<1>8. \A i \in DOMAIN conds : conds[i].status \notin {"False", "Unknown"}
  BY <1>1, <1>6, <1>7, FinalizeFacts
<1>9. err = Nil
  BY <1>4, <1>6, <1>8
<1>10. Last(f).status \notin {"False", "Unknown"}
  BY <1>5, <1>6, <1>8
<1>11. PICK S : list \in Seq(S)
  BY DEF IsList
<1> DEFINE T == {all[i] : i \in DOMAIN list}
<1>12. all \in Seq(T) /\ DOMAIN all = DOMAIN list /\ DOMAIN all = 1..Len(all)
  <2>1. Len(list) \in Nat /\ DOMAIN list = 1..Len(list)
    BY <1>11
  <2> QED BY <2>1
<1>13. \A i \in DOMAIN all : all[i] # Nil => \E j \in DOMAIN healths : healths[j] = all[i]
  <2> TAKE i \in DOMAIN all
  <2> HAVE all[i] # Nil
  <2>1. i \in 1..Len(all) \cap positions
    BY <1>12
  <2> HIDE DEF all, positions
  <2> QED BY <1>12, <2>1, ElementsAtHasAll
<1>14. IsList(healths)
  <2> HIDE DEF all, positions
  <2> QED BY <1>12, ElementsAtAreElements DEF IsList
<1>15. \A i \in DOMAIN list : all[i] = ConditionWithType(list[i].conds, "Healthy")
  OBVIOUS
<1> HIDE DEF all, healths
<1>16. \A i \in DOMAIN healths : healths[i].status \notin {"False", "Unknown"}
  <2>1. PICK e : /\ f = Append(healths, e) /\ e.status \in {"True", "False", "Unknown"}
                 /\ e.status = "True" =>
                      healths # <<>> /\ \A i \in DOMAIN healths : healths[i].status \notin {"False", "Unknown"}
    BY <1>14, FinalizeAppends DEF f
  <2>2. Last(f) = e
    BY <1>14, <2>1, LastOfAppend
  <2> QED BY <1>10, <2>1, <2>2
<1> QED BY <1>9, <1>12, <1>13, <1>15, <1>16

-----------------------------------------------------------------------------
\* The outputs of a status are of reconciliations before n.
OutputsBefore(outputs, n) == \A o \in DOMAIN outputs : outputs[o].since \in Nat /\ outputs[o].since < n

KnownBefore(list, n) ==
    \A i \in DOMAIN list : IsList(list[i].conds) /\ OutputsBefore(list[i].realized.outputs, n)

\* The outputs are those of this reconciliation, n, and the time of one moves
\* exactly when its value does.
Moved(outputs, out, before, n) ==
    LET values == OutputValues(out)
    IN /\ DOMAIN outputs = DOMAIN values
       /\ \A o \in DOMAIN outputs :
             /\ outputs[o].digest = values[o]
             /\ outputs[o].since = n <=> ~(o \in DOMAIN before /\ before[o].digest = values[o])

OutputsOf(status) == IF status = Nil THEN <<>> ELSE status.realized.outputs

\* What is reported of a resource in reconciliation n; before is what the
\* status said of it until then.
Entry(d, now, before, n) ==
    /\ IsList(now.conds)
    /\ d.err # Nil => Classified(d.err)
    /\ ConditionWithType(now.conds, "Ready").status = "True" => d.err = Nil
    /\ d.object = Nil /\ before # Nil => now.realized = before.realized
    /\ d.object # Nil \/ before = Nil => Moved(now.realized.outputs, d.out, OutputsOf(before), n)
    /\ OutputsBefore(now.realized.outputs, n + 1)
    /\ d.err = Nil /\ ~d.pass =>
         /\ IsHealth(ConditionWithType(now.conds, "Healthy"))
         /\ ConditionWithType(now.conds, "Healthy").status = "True" => HealthyBy(d)
         /\ now.realized.tmpl = d.tmpl /\ now.realized.stamped = now.name

\* getOutputs.
LEMMA OutputsMove ==
    ASSUME round \in Nat, NEW before, OutputsBefore(before, round), NEW out
    PROVE  LET outputs == GetOutputs(before, out)
           IN /\ Moved(outputs, out, before, round) /\ OutputsBefore(outputs, round + 1)
              /\ out = Nil => outputs = <<>>
<1> DEFINE values == OutputValues(out)
           kept(o) == o \in DOMAIN before /\ before[o].digest = values[o]
           outputs == [o \in DOMAIN values |-> OutputStatus(values[o], IF kept(o) THEN before[o].since ELSE round)]
<1>1. GetOutputs(before, out) = outputs
  BY Zenon DEF GetOutputs
<1>2. out = Nil => values = <<>>
  BY Zenon DEF OutputValues
<1> HIDE DEF values
<1>3. ASSUME NEW o \in DOMAIN outputs
      PROVE  /\ outputs[o].digest = values[o]
             /\ kept(o) => outputs[o].since = before[o].since
             /\ ~kept(o) => outputs[o].since = round
  BY DEF OutputStatus
<1>4. out = Nil => outputs = <<>>
  <2>1. out = Nil => DOMAIN values = {}
    BY <1>2
  <2> QED BY <2>1
<1> HIDE DEF outputs
<1>5. Moved(outputs, out, before, round)
  <2>0. DOMAIN outputs = DOMAIN values
    BY DEF outputs
  <2> SUFFICES ASSUME NEW o \in DOMAIN outputs
               PROVE  /\ outputs[o].digest = values[o]
                      /\ outputs[o].since = round <=> ~(o \in DOMAIN before /\ before[o].digest = values[o])
    BY <2>0 DEF Moved, values
  <2>1. kept(o) <=> (o \in DOMAIN before /\ before[o].digest = values[o])
    OBVIOUS
  <2>2. kept(o) => outputs[o].since \in Nat /\ outputs[o].since < round
    BY <1>3 DEF OutputsBefore
  <2>3. kept(o) => outputs[o].since # round
    BY <2>2
  <2> HIDE DEF kept
  <2> QED BY <1>3, <2>1, <2>3
<1>6. OutputsBefore(outputs, round + 1)
  <2> SUFFICES ASSUME NEW o \in DOMAIN outputs PROVE outputs[o].since \in Nat /\ outputs[o].since < round + 1
    BY DEF OutputsBefore
  <2>1. CASE kept(o)
    <3>1. outputs[o].since \in Nat /\ outputs[o].since < round
      BY <1>3, <2>1 DEF OutputsBefore
    <3> QED BY <3>1
  <2>2. CASE ~kept(o)
    <3>1. outputs[o].since = round
      BY <1>3, <2>2
    <3> QED BY <3>1
  <2> QED BY <2>1, <2>2
<1> QED BY <1>1, <1>4, <1>5, <1>6

\* The events of a turn name an object that is there.
LEMMA EventsName ==
    ASSUME NEW status, NEW result, NEW previous, previous = PreviousStatus(status.name),
           result.object = Nil /\ ~result.pass =>
               (IF previous = Nil THEN <<>> ELSE previous.realized.outputs) = status.realized.outputs,
           result.object = Nil => "Healthy" \notin ChangedConditionTypes(previous, status.conds)
    PROVE  \A e \in EventsFor(status, result) : e.names
<1> DEFINE before == IF previous = Nil THEN <<>> ELSE previous.realized.outputs
           event(reason) == [reason |-> reason, resource |-> status.name, names |-> result.object # Nil]
           first == IF before # status.realized.outputs
                    THEN {IF result.pass THEN [event("ResourceOutputChanged") EXCEPT !.names = TRUE]
                          ELSE event("ResourceOutputChanged")} ELSE {}
           second == IF "Healthy" \in ChangedConditionTypes(previous, status.conds)
                     THEN {event("ResourceHealthyStatusChanged")} ELSE {}
<1>1. EventsFor(status, result) = first \cup second
  BY Zenon DEF EventsFor
<1>2. \A reason : result.object # Nil => event(reason).names
  OBVIOUS
<1>3. [event("ResourceOutputChanged") EXCEPT !.names = TRUE].names
  OBVIOUS
<1>4. \A e \in second : e.names
  <2> HIDE DEF event
  <2> QED BY <1>2
<1>5. \A e \in first : e.names
  <2> HIDE DEF event, before
  <2>1. before # status.realized.outputs => result.object # Nil \/ result.pass
    BY DEF before
  <2> QED BY <1>2, <1>3, <2>1
<1> HIDE DEF first, second
<1> QED BY <1>1, <1>4, <1>5

\* A status that was found is one of the list.
LEMMA NamedIsListed ==
    ASSUME NEW list, NEW name, StatusNamed(list, name) # Nil
    PROVE  \E i \in DOMAIN list : StatusNamed(list, name) = list[i]
<1> DEFINE found == {i \in DOMAIN list : list[i].name = name}
<1>1. StatusNamed(list, name) = IF found = {} THEN Nil ELSE list[CHOOSE i \in found : TRUE]
  BY Zenon DEF StatusNamed
<1>2. found # {}
  BY <1>1
<1>3. (CHOOSE i \in found : TRUE) \in found
  BY <1>2
<1> QED BY <1>1, <1>2, <1>3

\* What one turn of Realize reports and says of a resource.
WellReported(resource, result, status, previous) ==
    /\ status.name = resource.name /\ Entry(result, status, previous, round)
    /\ \A e \in EventsFor(status, result) : e.names

\* The status of a resource for which what was known before is kept.
LEMMA KeptStatus ==
    ASSUME NilIsNoRecord, round \in Nat, KnownBefore(statuses.previous, round), NEW resource, NEW result,
           NEW template, NEW fields,
           DoneRight(result, resource, template, result.pass, fields),
           PreviousStatus(resource.name) # Nil, result.object = Nil \/ result.template = Nil
    PROVE  WellReported(resource, result, ResourceStatus(resource, result), PreviousStatus(resource.name))
<1> PICK previous : previous = PreviousStatus(resource.name)
  OBVIOUS
<1> DEFINE status == ResourceStatus(resource, result)
           before == ConditionWithType(previous.conds, "Healthy")
           further == IF before = Nil THEN <<>> ELSE <<before>>
           conds == CreateConditions(chain.kind, result.err, result.pass, further)
<1>1. result.object = Nil /\ (result.err # Nil \/ result.pass)
  BY DEF DoneRight
<1>2. status = [name |-> resource.name, realized |-> previous.realized, conds |-> conds]
  BY DEF ResourceStatus
<1>3. IsList(previous.conds) /\ OutputsBefore(previous.realized.outputs, round)
  BY NamedIsListed DEF KnownBefore, PreviousStatus
<1>4. PICK h : h.type = "Healthy" /\ (before # Nil => h = before)
  <2>1. before # Nil => before.type = "Healthy"
    BY <1>3, FirstOfItsType
  <2>2. Healthy("True", "").type = "Healthy"
    BY DEF Healthy, Condition
  <2> QED BY <2>1, <2>2
<1> HIDE DEF before
<1>5. further \in {<<>>, <<h>>}
  BY <1>4
<1>6. /\ IsList(conds) /\ (ConditionWithType(conds, "Ready").status = "True" => result.err = Nil)
      /\ \A i \in DOMAIN conds : conds[i].type = "Healthy" => further = <<h>> /\ conds[i] = h
  <2> HIDE DEF further
  <2>1. ConditionsSay(CreateConditions(chain.kind, result.err, result.pass, further), result.err, further, h)
    BY <1>4, <1>5, ResourceConditions
  <2>2. ConditionsSay(conds, result.err, further, h)
    BY <2>1
  <2> HIDE DEF conds
  <2> QED BY <2>2 DEF ConditionsSay
<1>7. further = <<h>> => before # Nil
  <2>1. Len(<<>>) # Len(<<h>>)
    OBVIOUS
  <2> QED BY <2>1
<1> HIDE DEF further, conds
<1>8. status.name = resource.name /\ status.realized = previous.realized /\ status.conds = conds
  BY <1>2
<1> HIDE DEF status
<1>9. OutputsBefore(previous.realized.outputs, round + 1)
  BY <1>3 DEF OutputsBefore
<1>10. Entry(result, status, previous, round)
  BY <1>1, <1>6, <1>8, <1>9 DEF Entry, DoneRight
<1>11. \A e \in EventsFor(status, result) : e.names
  <2>1. previous = PreviousStatus(status.name)
    BY <1>8
  <2>2. ASSUME NEW i \in DOMAIN conds, conds[i].type = "Healthy" PROVE ~ConditionChanged(previous, conds[i])
    <3>1. conds[i] = before /\ before # Nil /\ conds[i].type = "Healthy"
      BY <1>4, <1>6, <1>7, <2>2
    <3> QED BY <3>1 DEF ConditionChanged, before
  <2>3. "Healthy" \notin ChangedConditionTypes(previous, status.conds)
    BY <1>8, <2>2 DEF ChangedConditionTypes
  <2> QED BY <1>8, <2>1, <2>3, EventsName
<1> QED BY <1>8, <1>10, <1>11 DEF status, WellReported

\* The status of a resource about which something is said anew.
HealthReadable(resource, result, template, fields) ==
    /\ \A path \in DOMAIN fields : fields[path] \in Seq(ToSet(fields[path]))
    /\ ~result.pass /\ result.template # Nil =>
         template.kind = resource.kind /\ template.rule = GetHealthRule(template)

LEMMA NewStatus ==
    ASSUME NilIsNoRecord, round \in Nat, KnownBefore(statuses.previous, round), NEW resource, NEW result,
           NEW template, NEW fields,
           DoneRight(result, resource, template, result.pass, fields),
           HealthReadable(resource, result, template, fields),
           ~((result.object = Nil \/ result.template = Nil) /\ PreviousStatus(resource.name) # Nil)
    PROVE  WellReported(resource, result, ResourceStatus(resource, result), PreviousStatus(resource.name))
<1> PICK previous : previous = PreviousStatus(resource.name)
  OBVIOUS
<1> DEFINE status == ResourceStatus(resource, result)
           was == IF previous = Nil THEN <<>> ELSE previous.realized.outputs
           realized == RealizedResource(resource, result, was)
           health == DetermineHealthCondition(result.template.rule, realized, result.object)
           further == IF result.template = Nil THEN <<>> ELSE <<health>>
           conds == CreateConditions(chain.kind, result.err, result.pass, further)
<1>1. status = [name |-> resource.name, realized |-> realized, conds |-> conds]
  BY DEF ResourceStatus
<1>2. OutputsBefore(was, round)
  <2>1. CASE previous = Nil
    BY <2>1 DEF OutputsBefore
  <2>2. CASE previous # Nil
    BY <2>2, NamedIsListed DEF KnownBefore, PreviousStatus
  <2> QED BY <2>1, <2>2
<1>3. /\ realized.tmpl = IF result.template # Nil THEN result.tmpl ELSE Nil
      /\ realized.kind = IF result.template # Nil THEN resource.kind ELSE Nil
      /\ realized.stamped = IF result.object # Nil THEN result.object.stamped.labels.resource ELSE Nil
      /\ realized.outputs = IF result.template # Nil \/ result.pass THEN GetOutputs(was, result.out) ELSE <<>>
  BY DEF RealizedResource
<1> HIDE DEF was
<1>4. /\ Moved(GetOutputs(was, result.out), result.out, was, round) /\ OutputsBefore(GetOutputs(was, result.out), round + 1)
      /\ result.out = Nil => GetOutputs(was, result.out) = <<>>
  BY <1>2, OutputsMove
<1>5. OutputsBefore(realized.outputs, round + 1)
  <2>1. OutputsBefore(<<>>, round + 1)
    BY DEF OutputsBefore
  <2> HIDE DEF realized
  <2> QED BY <1>3, <1>4, <2>1
<1> HIDE DEF realized, health
<1>6. result.object = Nil /\ ~result.pass => realized.outputs = <<>> /\ realized.stamped = Nil
  BY <1>3, <1>4 DEF DoneRight
<1>7. ASSUME result.object = Nil, result.template # Nil PROVE IsHealth(health) /\ health.status = "Unknown"
  <2>1. ~result.pass
    BY <1>7 DEF DoneRight
  <2>2. DOMAIN realized.outputs = {} /\ realized.stamped = Nil
    BY <1>6, <1>7, <2>1
  <2>3. health = DetermineHealthCondition(result.template.rule, realized, Nil)
    BY <1>7 DEF health
  <2> QED BY <2>2, <2>3, NoObjectNoHealth
<1>8. ASSUME result.object # Nil PROVE IsHealth(health) /\ (health.status = "True" => HealthyBy(result))
  <2>1. /\ result.template # Nil /\ result.template = template /\ result.object.fields = fields /\ ~result.pass
    BY <1>8 DEF DoneRight
  <2>2. result.template.rule = GetHealthRule(result.template) /\ realized.kind = result.template.kind
    BY <1>3, <2>1 DEF HealthReadable
  <2>3. DOMAIN realized.outputs # {} => result.out # Nil
    BY <1>3, <1>4, <2>1
  <2>4. \A path \in DOMAIN result.object.fields : result.object.fields[path] \in Seq(ToSet(result.object.fields[path]))
    BY <2>1 DEF HealthReadable
  <2> QED BY <1>8, <2>2, <2>3, <2>4, HealthMeans DEF health
<1>9. result.template # Nil => IsHealth(health)
  BY <1>7, <1>8
<1>10. PICK h : h.type = "Healthy" /\ (result.template # Nil => h = health)
  <2>1. Healthy("True", "").type = "Healthy"
    BY DEF Healthy, Condition
  <2> QED BY <1>9, <2>1 DEF IsHealth
<1>11. further \in {<<>>, <<h>>}
  BY <1>10
<1>12. /\ IsList(conds) /\ (ConditionWithType(conds, "Ready").status = "True" => result.err = Nil)
       /\ further = <<h>> => ConditionWithType(conds, "Healthy") = h
       /\ \A i \in DOMAIN conds : conds[i].type = "Healthy" => further = <<h>> /\ conds[i] = h
  <2> HIDE DEF further
  <2>1. ConditionsSay(CreateConditions(chain.kind, result.err, result.pass, further), result.err, further, h)
    BY <1>10, <1>11, ResourceConditions
  <2>2. ConditionsSay(conds, result.err, further, h)
    BY <2>1
  <2> HIDE DEF conds
  <2> QED BY <2>2 DEF ConditionsSay
<1>13. /\ result.template # Nil => further = <<h>>
       /\ further = <<h>> => result.template # Nil
  <2>1. Len(<<>>) # Len(<<h>>)
    OBVIOUS
  <2> QED BY <2>1, <1>10
<1> HIDE DEF further, conds
<1>14. status.name = resource.name /\ status.realized = realized /\ status.conds = conds
  BY <1>1
<1> HIDE DEF status
<1>15. ASSUME result.err = Nil, ~result.pass
       PROVE  /\ IsHealth(ConditionWithType(status.conds, "Healthy"))
              /\ ConditionWithType(status.conds, "Healthy").status = "True" => HealthyBy(result)
              /\ status.realized.tmpl = result.tmpl /\ status.realized.stamped = status.name
  <2>1. result.object # Nil /\ result.template # Nil /\ Labelled(result.object.stamped, resource.name)
    BY <1>15 DEF DoneRight
  <2>2. ConditionWithType(status.conds, "Healthy") = health
    BY <2>1, <1>10, <1>12, <1>13, <1>14
  <2> QED BY <2>1, <2>2, <1>3, <1>8, <1>14 DEF Labelled
<1>16. Moved(status.realized.outputs, result.out, OutputsOf(previous), round)
  <2>1. CASE result.template # Nil \/ result.pass
    <3>1. realized.outputs = GetOutputs(was, result.out)
      BY <1>3, <2>1
    <3> QED BY <1>4, <1>14, <3>1 DEF was, OutputsOf
  <2>2. CASE result.template = Nil /\ ~result.pass
    <3>1. result.object = Nil /\ result.out = Nil
      BY <2>2 DEF DoneRight
    <3>2. realized.outputs = GetOutputs(was, result.out)
      BY <1>3, <1>4, <2>2, <3>1
    <3> QED BY <1>4, <1>14, <3>2 DEF was, OutputsOf
  <2> QED BY <2>1, <2>2
<1>17. Entry(result, status, previous, round)
  <2>1. result.err # Nil => Classified(result.err)
    BY DEF DoneRight
  <2>2. ~(result.object = Nil /\ previous # Nil)
    OBVIOUS
  <2> HIDE DEF Moved, Classified
  <2> QED BY <1>5, <1>12, <1>14, <1>15, <1>16, <2>1, <2>2 DEF Entry
<1>18. \A e \in EventsFor(status, result) : e.names
  <2>1. previous = PreviousStatus(status.name)
    BY <1>14
  <2>2. result.object = Nil => previous = Nil
    BY DEF DoneRight
  <2>3. ASSUME result.object = Nil, NEW i \in DOMAIN conds, conds[i].type = "Healthy"
        PROVE  ~ConditionChanged(previous, conds[i])
    <3>1. conds[i].status = "Unknown"
      BY <2>3, <1>7, <1>10, <1>12, <1>13
    <3> QED BY <2>2, <2>3, <3>1 DEF ConditionChanged
  <2>4. result.object = Nil => "Healthy" \notin ChangedConditionTypes(previous, status.conds)
    BY <1>14, <2>3 DEF ChangedConditionTypes
  <2>5. result.object = Nil /\ ~result.pass =>
          (IF previous = Nil THEN <<>> ELSE previous.realized.outputs) = status.realized.outputs
    BY <1>6, <1>14, <2>2
  <2> QED BY <2>1, <2>4, <2>5, EventsName
<1> QED BY <1>14, <1>17, <1>18 DEF status, WellReported

\* One turn of Realize.
LEMMA TurnIsRight ==
    ASSUME NilIsNoRecord, Given, round \in Nat, KnownBefore(statuses.previous, round), KeptObjects(repo),
           NEW c \in ToSet(AdmittedBlueprints), NEW r \in DOMAIN c.resources, TemplatesFound(c),
           NEW resource, resource = c.resources[r],
           NEW chosen, chosen = GetTemplateNameFromResource(Owner, resource),
           NEW fate \in IF chosen.tmpl = Nil THEN {NoFate} ELSE given.fates[chosen.tmpl],
           NEW result, result = Result(Do(resource, chosen, fate), resource, chosen)
    PROVE  /\ WellReported(resource, result, ResourceStatus(resource, result), PreviousStatus(resource.name))
           /\ result.object # Nil => Labelled(result.object.stamped, resource.name)
<1> DEFINE d == Do(resource, chosen, fate)
           read == chosen.err = "none" /\ chosen.pass = Nil
           template == IF read THEN Reader(given.templates[chosen.tmpl]) ELSE Nil
           pass == chosen.pass # Nil
           fields == IF result.object = Nil THEN <<>> ELSE fate.fields
           previous == PreviousStatus(resource.name)
           status == ResourceStatus(resource, result)
<1>1. chosen.err \in {"none", "wrapError"} /\ (chosen.err # "none" => chosen.pass = Nil /\ chosen.tmpl = Nil)
  <2> HIDE DEF d
  <2>1. chosen.err \in {"none", "wrapError"}
    BY TemplateNameErrors
  <2> QED BY <2>1 DEF GetTemplateNameFromResource, TemplateNameOf
<1>2. ASSUME read
      PROVE  /\ chosen.tmpl \in DOMAIN given.templates /\ chosen.tmpl # Nil
             /\ template # Nil /\ NewReaderFromAPI(given.templates[chosen.tmpl]) = template
             /\ template.kind = resource.kind /\ template.rule = GetHealthRule(template)
  <2> DEFINE t == given.templates[chosen.tmpl]
  <2>1. /\ chosen.tmpl \in DOMAIN given.templates /\ chosen.tmpl # Nil
        /\ t.kind = resource.kind /\ resource.kind \in TemplateKinds
    BY <1>2, TemplateOfTheResource
  <2>2. {"kind", "rule", "life", "retention"} \subseteq DOMAIN t
    BY <2>1, CasesAssumption DEF Given, WellFormedTemplate
  <2>3. template = Reader(t)
    BY <1>2
  <2> HIDE DEF t, template
  <2>4. /\ Reader(t) # Nil /\ Reader(t).kind = t.kind /\ Reader(t).rule = GetHealthRule(Reader(t))
        /\ t.kind \in TemplateKinds => NewReaderFromAPI(t) = Reader(t)
    BY <2>2, ReaderShows
  <2> QED BY <2>1, <2>3, <2>4 DEF t
<1>3. ~read => template = Nil
  OBVIOUS
<1>4. read => template # Nil /\ NewReaderFromAPI(given.templates[chosen.tmpl]) = template
  BY <1>2
<1> HIDE DEF template
<1>5. DoneRight(d, resource, template, pass, fate.fields)
  <2>0. resource.kind \in TemplateKinds
    <3>1. AdmitBlueprint(c) /\ c \in ToSet(given.blueprints)
      BY AdmittedAreAdmitted DEF ToSet
    <3> QED BY <3>1, AdmittedIsValid
  <2>1. ReadFor(chosen, template)
    BY <1>1, <1>2, <1>4, <2>0 DEF ReadFor
  <2> QED BY <2>0, <2>1, DoIsRight, Zenon
<1> HIDE DEF d
<1>6. /\ result.template = d.template /\ result.object = d.object /\ result.out = d.out /\ result.err = d.err
      /\ result.tmpl = chosen.tmpl
  BY DEF Result, d
<1>7. result.pass = pass /\ result.pass \in BOOLEAN
  <2>1. result.pass = pass
    BY Zenon DEF Result
  <2> QED BY <2>1, Zenon
<1>8. DoneRight(result, resource, template, result.pass, fields)
  <2> HIDE DEF pass
  <2> QED BY <1>5, <1>6, <1>7 DEF DoneRight
<1>9. \A path \in DOMAIN fields : fields[path] \in Seq(ToSet(fields[path]))
  <2>1. CASE fields = <<>>
    BY <2>1
  <2>2. CASE fields = fate.fields /\ result.object # Nil
    <3>1. ~pass
      BY <1>5, <1>6, <2>2 DEF DoneRight
    <3>2. CASE chosen.tmpl = Nil
      <4>1. fate.fields = <<>>
        BY <3>2 DEF NoFate, Fate
      <4> QED BY <2>2, <4>1
    <3>3. CASE chosen.tmpl # Nil
      <4>1. read
        BY <1>1, <3>1, <3>3
      <4>2. chosen.tmpl \in DOMAIN given.templates /\ fate \in given.fates[chosen.tmpl]
        BY <1>2, <3>3, <4>1
      <4>3. \A path \in DOMAIN fate.fields : fate.fields[path] \in Seq(ToSet(fate.fields[path]))
        BY <4>2, CasesAssumption DEF Given
      <4> QED BY <2>2, <4>3
    <3> QED BY <3>2, <3>3
  <2> QED BY <2>1, <2>2
<1>10. ~result.pass /\ result.template # Nil => template.kind = resource.kind /\ template.rule = GetHealthRule(template)
  <2>1. result.template # Nil => read
    BY <1>3, <1>5, <1>6 DEF DoneRight
  <2> QED BY <1>2, <2>1
<1>11. WellReported(resource, result, status, previous)
  <2>0. HealthReadable(resource, result, template, fields)
    BY <1>9, <1>10 DEF HealthReadable
  <2> HIDE DEF fields, pass
  <2>1. CASE (result.object = Nil \/ result.template = Nil) /\ previous # Nil
    BY <1>7, <1>8, <2>1, KeptStatus, Zenon
  <2>2. CASE ~((result.object = Nil \/ result.template = Nil) /\ previous # Nil)
    BY <1>7, <1>8, <2>0, <2>2, NewStatus, Zenon
  <2> QED BY <2>1, <2>2
<1>12. result.object # Nil => Labelled(result.object.stamped, resource.name)
  BY <1>8 DEF DoneRight
<1> QED BY <1>11, <1>12

-----------------------------------------------------------------------------
\* The first error of several results.
FirstAt(results, i) == results[i].err # Nil /\ \A k \in 1..(i - 1) : results[k].err = Nil
FirstIs(results, err) == \E i \in DOMAIN results : FirstAt(results, i) /\ results[i].err = err

\* What is known after the first turns of Realize: results is what Do returned,
\* list what is reported, err the first error.
Told(results, list, previous, err, n) ==
    /\ IsList(list) /\ Len(list) = Len(results)
    /\ \A i \in DOMAIN results : Entry(results[i], list[i], StatusNamed(previous, list[i].name), n)
    /\ err = Nil => \A i \in DOMAIN results : results[i].err = Nil
    /\ err # Nil => FirstIs(results, err)

LEMMA ToldGrows ==
    ASSUME NEW results, IsList(results), NEW list, NEW previous, NEW err, NEW n,
           Told(results, list, previous, err, n),
           NEW d, NEW s, Entry(d, s, StatusNamed(previous, s.name), n)
    PROVE  Told(Append(results, d), Append(list, s), previous, IF err = Nil THEN d.err ELSE err, n)
<1> DEFINE rs == Append(results, d)
           ls == Append(list, s)
           m == Len(results)
           e == IF err = Nil THEN d.err ELSE err
<1>1. /\ IsList(rs) /\ m \in Nat /\ DOMAIN results = 1..m /\ DOMAIN rs = 1..(m + 1)
      /\ rs[m + 1] = d /\ \A i \in DOMAIN results : rs[i] = results[i]
  BY Grows
<1>2. IsList(list) /\ Len(list) = m
  BY DEF Told
<1>3. /\ IsList(ls) /\ DOMAIN list = 1..m /\ DOMAIN ls = 1..(m + 1)
      /\ ls[m + 1] = s /\ \A i \in DOMAIN list : ls[i] = list[i]
  BY <1>2, Grows
<1> HIDE DEF rs, ls, m
<1>4. Len(rs) = m + 1 /\ Len(ls) = m + 1
  <2>1. \A q : IsList(q) => Len(q) \in Nat /\ DOMAIN q = 1..Len(q)
    BY Grows
  <2>2. \A j, k \in Nat : 1..j = 1..(k + 1) => j = k + 1
    <3> TAKE j, k \in Nat
    <3> HAVE 1..j = 1..(k + 1)
    <3>1. k + 1 \in 1..j /\ (j > k + 1 => j \in 1..j /\ j \notin 1..(k + 1))
      OBVIOUS
    <3> QED BY <3>1
  <2>3. Len(rs) \in Nat /\ 1..Len(rs) = 1..(m + 1) /\ Len(ls) \in Nat /\ 1..Len(ls) = 1..(m + 1)
    BY <1>1, <1>3, <2>1
  <2> QED BY <1>1, <2>2, <2>3
<1>5. \A i \in DOMAIN rs : i = m + 1 \/ i \in DOMAIN results
  BY <1>1
<1>6. ASSUME NEW i \in DOMAIN rs PROVE Entry(rs[i], ls[i], StatusNamed(previous, ls[i].name), n)
  <2>1. CASE i = m + 1
    BY <1>1, <1>3, <2>1
  <2>2. CASE i \in DOMAIN results
    BY <1>1, <1>3, <2>2 DEF Told
  <2> QED BY <1>5, <2>1, <2>2
<1>7. e = Nil => \A i \in DOMAIN rs : rs[i].err = Nil
  <2>1. e = Nil => err = Nil /\ d.err = Nil
    OBVIOUS
  <2> HIDE DEF e
  <2> QED BY <1>1, <1>5, <2>1 DEF Told
<1>8. ASSUME e # Nil PROVE FirstIs(rs, e)
  <2>1. CASE err = Nil
    <3>1. e = d.err /\ m + 1 \in DOMAIN rs
      BY <1>1, <2>1
    <3>2. \A k \in 1..(m + 1 - 1) : k \in DOMAIN results
      BY <1>1
    <3>3. \A k \in 1..(m + 1 - 1) : rs[k].err = Nil
      BY <1>1, <2>1, <3>2 DEF Told
    <3> QED BY <1>1, <1>8, <3>1, <3>3 DEF FirstIs, FirstAt
  <2>2. CASE err # Nil
    <3>1. PICK i \in DOMAIN results : FirstAt(results, i) /\ results[i].err = err
      BY <2>2 DEF Told, FirstIs
    <3>2. i \in DOMAIN rs /\ rs[i] = results[i] /\ e = err
      BY <1>1, <2>2
    <3>3. \A k \in 1..(i - 1) : k \in DOMAIN results /\ rs[k] = results[k]
      BY <1>1
    <3> QED BY <3>1, <3>2, <3>3 DEF FirstIs, FirstAt
  <2> QED BY <2>1, <2>2
<1> HIDE DEF e
<1> QED BY <1>3, <1>4, <1>6, <1>7, <1>8 DEF Told, rs, ls, e

\* What a reconciliation reports is known in the next one.
LEMMA ToldIsKnown ==
    ASSUME NEW results, IsList(results), NEW list, NEW previous, NEW err, NEW n \in Nat,
           Told(results, list, previous, err, n), KnownBefore(previous, n)
    PROVE  KnownBefore(list, n + 1) /\ KnownBefore(previous, n + 1)
<1>1. DOMAIN list = DOMAIN results
  BY Grows DEF Told
<1>2. KnownBefore(list, n + 1)
  BY <1>1 DEF Told, KnownBefore, Entry
<1>3. \A outputs : OutputsBefore(outputs, n) => OutputsBefore(outputs, n + 1)
  BY DEF OutputsBefore
<1>4. KnownBefore(previous, n + 1)
  BY <1>3 DEF KnownBefore
<1> QED BY <1>2, <1>4

-----------------------------------------------------------------------------
\* Who writes an object writes it under the name of its resource.
LEMMA PutKeeps ==
    ASSUME NEW objects, \A k \in DOMAIN objects : Labelled(objects[k], k[2]),
           NEW key, NEW object, Labelled(object, key[2])
    PROVE  \A k \in DOMAIN Put(objects, key, object) : Labelled(Put(objects, key, object)[k], k[2])
<1> DEFINE f == Put(objects, key, object)
<1>1. DOMAIN f = DOMAIN objects \cup {key} /\ \A k \in DOMAIN f : f[k] = IF k = key THEN object ELSE objects[k]
  BY DEF Put
<1> HIDE DEF f
<1> QED BY <1>1 DEF f

LEMMA WrittenKeeps ==
    ASSUME KeptObjects(repo), NEW object, NEW name, Labelled(object, name)
    PROVE  KeptObjects(Written(object))
<1> DEFINE key == GetKey(object)
           objects == Put(repo.objects, key, object)
           cache == Put(repo.cache, key, [submitted |-> object, persisted |-> object])
<1>1. key[2] = name
  BY DEF GetKey, Labelled
<1>2. Written(object) = [objects |-> objects, cache |-> cache]
  BY Zenon DEF Written
<1>3. \A k \in DOMAIN objects : Labelled(objects[k], k[2])
  BY <1>1, PutKeeps DEF KeptObjects
<1> HIDE DEF objects, cache
<1> QED BY <1>2, <1>3 DEF KeptObjects

\* Who edits an object keeps the name of its resource.
LEMMA EditedKeeps ==
    ASSUME NEW object, NEW name, Labelled(object, name)
    PROVE  Labelled(Edited(object), name)
<1> DEFINE a == [object EXCEPT !.spec = [tag \in DOMAIN object.spec |-> Nil]]
           labels == [object.labels EXCEPT !.tmpl = "edited"]
           b == [a EXCEPT !.labels = labels]
<1>1. DOMAIN a = DOMAIN object /\ a.labels = object.labels
  OBVIOUS
<1>2. Edited(object) = [a EXCEPT !.labels = [a.labels EXCEPT !.tmpl = "edited"]]
  BY Zenon DEF Edited
<1>3. "resource" \in DOMAIN labels /\ labels.resource = name
  BY DEF Labelled
<1> HIDE DEF a
<1>4. Edited(object) = b
  BY <1>1, <1>2
<1> HIDE DEF labels
<1>5. "labels" \in DOMAIN b /\ b.labels = labels
  BY <1>1 DEF Labelled
<1> QED BY <1>3, <1>4, <1>5 DEF Labelled

LEMMA MeddleKeeps ==
    ASSUME KeptObjects(repo), Meddle
    PROVE  KeptObjects(repo')
<1> DEFINE set(objects) == [repo EXCEPT !.objects = objects]
<1>1. ASSUME NEW objects, \A k \in DOMAIN objects : Labelled(objects[k], k[2])
      PROVE  KeptObjects(set(objects))
  <2>1. DOMAIN set(objects) = DOMAIN repo /\ "objects" \in DOMAIN repo /\ set(objects).objects = objects
    BY DEF KeptObjects
  <2> HIDE DEF set
  <2> QED BY <1>1, <2>1 DEF KeptObjects
<1>2. \/ \E k \in DOMAIN repo.objects : repo' = set(Put(repo.objects, k, Edited(repo.objects[k])))
      \/ \E k \in DOMAIN repo.objects : repo' = set([j \in DOMAIN repo.objects \ {k} |-> repo.objects[j]])
      \/ repo' = [repo EXCEPT !.cache = <<>>]
  BY DEF Meddle
<1>3. ASSUME NEW k \in DOMAIN repo.objects, repo' = set(Put(repo.objects, k, Edited(repo.objects[k])))
      PROVE  KeptObjects(repo')
  <2>1. Labelled(Edited(repo.objects[k]), k[2])
    BY EditedKeeps DEF KeptObjects
  <2>2. \A j \in DOMAIN Put(repo.objects, k, Edited(repo.objects[k])) :
           Labelled(Put(repo.objects, k, Edited(repo.objects[k]))[j], j[2])
    BY <2>1, PutKeeps DEF KeptObjects
  <2> HIDE DEF set
  <2> QED BY <1>1, <1>3, <2>2
<1>4. ASSUME NEW k \in DOMAIN repo.objects, repo' = set([j \in DOMAIN repo.objects \ {k} |-> repo.objects[j]])
      PROVE  KeptObjects(repo')
  <2> DEFINE left == [j \in DOMAIN repo.objects \ {k} |-> repo.objects[j]]
  <2>1. \A j \in DOMAIN left : Labelled(left[j], j[2])
    BY DEF KeptObjects
  <2>2. repo' = set(left)
    BY <1>4
  <2> HIDE DEF set, left
  <2> QED BY <1>1, <2>1, <2>2
<1>5. ASSUME repo' = [repo EXCEPT !.cache = <<>>] PROVE KeptObjects(repo')
  <2>1. DOMAIN repo' = DOMAIN repo /\ "objects" \in DOMAIN repo /\ repo'.objects = repo.objects
    BY <1>5 DEF KeptObjects
  <2> QED BY <2>1 DEF KeptObjects
<1> HIDE DEF set
<1> QED BY <1>2, <1>3, <1>4, <1>5

-----------------------------------------------------------------------------
\* Where the reconciliation stands, and what was reported until now.
Honest ==
    /\ round \in Nat /\ KeptObjects(repo)
    /\ DOMAIN statuses = {"previous", "current", "owner"} /\ KnownBefore(statuses.previous, round)
    /\ \A e \in said : e.names
    /\ stage \in {"submit", "choose"} => statuses.current = <<>>
    /\ stage \in {"realize", "reported"} =>
         TemplatesFound(chain) /\ Told(done, statuses.current, statuses.previous, firstError, round)
    /\ stage = "reported" =>
         report = [conds   |-> OwnerConditions(chain.kind, firstError, statuses.current),
                   retried |-> firstError # Nil /\ IsUnhandledErrorType(firstError)]

\* A turn of Realize.
LEMMA RealizeIsHonest ==
    ASSUME NilIsNoRecord, Chosen, Honest, RealizeResource
    PROVE  Honest'
<1>1. /\ stage = "realize" /\ stage' = stage /\ given' = given /\ chain' = chain /\ round' = round
      /\ Len(done) < Len(chain.resources)
  BY DEF RealizeResource
<1> DEFINE choice == GetTemplateNameFromResource(Owner, Resource)
           turn(fate, result, status) ==
             /\ done' = Append(done, result)
             /\ outs' = Put(outs, Resource.name, result.out)
             /\ statuses' = [statuses EXCEPT !.current = Append(@, status)]
             /\ said' = IF result.object # Nil /\ ~GetQualifiedResource(fate) THEN said
                        ELSE said \cup EventsFor(status, result) \cup
                             (IF Applies(Resource, result, fate) THEN {AppliedEvent(Resource)} ELSE {})
             /\ repo' = IF Applies(Resource, result, fate) THEN Written(result.object.stamped) ELSE repo
             /\ firstError' = IF firstError = Nil THEN result.err ELSE firstError
<1>2. \E chosen \in {choice} :
      \E fate \in IF chosen.tmpl = Nil THEN {NoFate} ELSE given.fates[chosen.tmpl] :
      \E result \in {Result(Do(Resource, chosen, fate), Resource, chosen)} :
      \E status \in {ResourceStatus(Resource, result)} : turn(fate, result, status)
  BY Zenon DEF RealizeResource
<1> HIDE DEF turn
<1> PICK chosen \in {choice} :
         \E fate \in IF chosen.tmpl = Nil THEN {NoFate} ELSE given.fates[chosen.tmpl] :
         \E result \in {Result(Do(Resource, chosen, fate), Resource, chosen)} :
         \E status \in {ResourceStatus(Resource, result)} : turn(fate, result, status)
  BY <1>2, Zenon
<1> PICK fate \in IF chosen.tmpl = Nil THEN {NoFate} ELSE given.fates[chosen.tmpl] :
         \E result \in {Result(Do(Resource, chosen, fate), Resource, chosen)} :
         \E status \in {ResourceStatus(Resource, result)} : turn(fate, result, status)
  BY Zenon
<1> PICK result \in {Result(Do(Resource, chosen, fate), Resource, chosen)} :
         \E status \in {ResourceStatus(Resource, result)} : turn(fate, result, status)
  BY Zenon
<1> DEFINE status == ResourceStatus(Resource, result)
           applies == Applies(Resource, result, fate)
           previous == PreviousStatus(Resource.name)
<1>2a. turn(fate, result, status)
  BY Zenon
<1>3. /\ done' = Append(done, result)
      /\ statuses' = [statuses EXCEPT !.current = Append(statuses.current, status)]
      /\ said' \subseteq said \cup EventsFor(status, result) \cup {AppliedEvent(Resource)}
      /\ repo' = repo \/ (applies /\ repo' = Written(result.object.stamped))
      /\ firstError' = IF firstError = Nil THEN result.err ELSE firstError
  <2> HIDE DEF status, applies
  <2>1. /\ done' = Append(done, result)
        /\ statuses' = [statuses EXCEPT !.current = Append(@, status)]
        /\ said' = IF result.object # Nil /\ ~GetQualifiedResource(fate) THEN said
                   ELSE said \cup EventsFor(status, result) \cup (IF applies THEN {AppliedEvent(Resource)} ELSE {})
        /\ repo' = IF applies THEN Written(result.object.stamped) ELSE repo
        /\ firstError' = IF firstError = Nil THEN result.err ELSE firstError
    BY <1>2a, Zenon DEF turn, applies
  <2> QED BY <2>1
<1>4. applies => result.object # Nil
  BY DEF Applies
<1>5. chain \in ToSet(AdmittedBlueprints) /\ IsList(chain.resources) /\ Given /\ IsList(done)
  BY <1>1, ChosenChainIsListed DEF Chosen
<1>6. Len(done) + 1 \in DOMAIN chain.resources
  <2>1. Len(done) \in Nat /\ Len(chain.resources) \in Nat /\ DOMAIN chain.resources = 1..Len(chain.resources)
    BY <1>5, Grows
  <2> QED BY <1>1, <2>1
<1>7. /\ round \in Nat /\ KeptObjects(repo) /\ DOMAIN statuses = {"previous", "current", "owner"}
      /\ KnownBefore(statuses.previous, round) /\ TemplatesFound(chain)
      /\ Told(done, statuses.current, statuses.previous, firstError, round) /\ \A e \in said : e.names
  BY <1>1 DEF Honest
<1>8. WellReported(Resource, result, status, previous) /\ (result.object # Nil => Labelled(result.object.stamped, Resource.name))
  <2>1. Resource = chain.resources[Len(done) + 1]
    BY DEF Resource
  <2>2. chosen = GetTemplateNameFromResource(Owner, Resource) /\ result = Result(Do(Resource, chosen, fate), Resource, chosen)
    BY Zenon
  <2> QED BY <1>5, <1>6, <1>7, <2>1, <2>2, TurnIsRight, SMTT(40)
<1> HIDE DEF status, applies
<1>9. Entry(result, status, StatusNamed(statuses.previous, status.name), round) /\ \A e \in EventsFor(status, result) : e.names
  BY <1>8 DEF WellReported, PreviousStatus
<1>10. statuses'.current = Append(statuses.current, status) /\ statuses'.previous = statuses.previous
       /\ DOMAIN statuses' = {"previous", "current", "owner"}
  BY <1>3, <1>7
<1>11. Told(done', statuses'.current, statuses'.previous, firstError', round')
  BY <1>1, <1>3, <1>5, <1>7, <1>9, <1>10, ToldGrows
<1>12. KeptObjects(repo')
  BY <1>3, <1>4, <1>7, <1>8, WrittenKeeps
<1>13. \A e \in said' : e.names
  <2>1. AppliedEvent(Resource).names
    BY DEF AppliedEvent
  <2> QED BY <1>3, <1>7, <1>9, <2>1
<1>14. TemplatesFound(chain)'
  BY <1>1, <1>7 DEF TemplatesFound, AdmittedTemplates
<1> QED BY <1>1, <1>7, <1>10, <1>11, <1>12, <1>13, <1>14 DEF Honest

LEMMA HonestInvariant ==
    ASSUME NilIsNoRecord
    PROVE  PipelineInit /\ [][PipelineNext]_pipelineVars => []Honest
<1>1. PipelineInit => Honest
  <2> SUFFICES ASSUME PipelineInit PROVE Honest
    OBVIOUS
  <2>1. KeptObjects(repo)
    BY DEF PipelineInit, NewRepository, KeptObjects
  <2>2. DOMAIN statuses = {"previous", "current", "owner"} /\ statuses.previous = <<>> /\ statuses.current = <<>>
    BY DEF PipelineInit
  <2>3. KnownBefore(statuses.previous, round)
    BY <2>2 DEF KnownBefore
  <2>4. round \in Nat /\ said = {} /\ stage = "submit"
    BY DEF PipelineInit
  <2> QED BY <2>1, <2>2, <2>3, <2>4 DEF Honest
<1>2. ASSUME Chosen, Honest, [PipelineNext]_pipelineVars PROVE Honest'
  <2>1. CASE SubmitAll
    <3>1. /\ stage = "submit" /\ stage' = "choose" /\ round' = round /\ statuses' = statuses
          /\ said' = said /\ repo' = repo
      BY <2>1 DEF SubmitAll
    <3> QED BY <1>2, <3>1 DEF Honest
  <2>2. CASE ChooseBlueprint
    <3>1. /\ stage = "choose" /\ round' = round /\ statuses' = statuses /\ repo' = repo /\ given' = given
          /\ done' = <<>> /\ said' = {} /\ firstError' = Nil
      BY <2>2 DEF ChooseBlueprint
    <3> DEFINE found == GetSupplyChain(Owner, AdmittedBlueprints)
    <3>2. /\ chain' = found.chain
          /\ found.err # "none" => stage' = found.err
          /\ found.err = "none" /\ ~IsBlueprintReady(found.chain) => stage' = "NotReady"
          /\ found.err = "none" => stage' \in {"NotReady", "ServiceAccountNotFound", "realize"}
      BY <2>2 DEF ChooseBlueprint
    <3>3. found.err \in {"none", "LabelsMissing", "ListFailed", "NotFound", "MultipleMatches"}
      BY <1>2, <3>1, BlueprintChoice DEF Chosen
    <3> HIDE DEF found
    <3>4. stage' \notin {"submit", "choose", "reported"}
      BY <3>2, <3>3
    <3>5. stage' = "realize" => TemplatesFound(chain')
      BY <3>2, <3>3, ReadyHasTemplates
    <3>6. stage' = "realize" => TemplatesFound(chain)'
      BY <3>1, <3>5 DEF TemplatesFound, AdmittedTemplates
    <3>7. Told(<<>>, <<>>, statuses.previous, Nil, round)
      <4>1. IsList(<<>>)
        BY ShortLists
      <4>2. DOMAIN <<>> = {}
        OBVIOUS
      <4> QED BY <4>1, <4>2 DEF Told
    <3>8. Told(done', statuses'.current, statuses'.previous, firstError', round')
      BY <1>2, <3>1, <3>7 DEF Honest
    <3> QED BY <1>2, <3>1, <3>4, <3>6, <3>8 DEF Honest
  <2>3. CASE RealizeResource
    BY <1>2, <2>3, RealizeIsHonest
  <2>4. CASE ReportOwner
    <3>1. /\ stage = "realize" /\ stage' = "reported" /\ round' = round /\ statuses' = statuses /\ repo' = repo
          /\ given' = given /\ chain' = chain /\ done' = done /\ said' = said /\ firstError' = firstError
      BY <2>4 DEF ReportOwner
    <3>2. report' = [conds   |-> OwnerConditions(chain.kind, firstError, statuses.current),
                     retried |-> firstError # Nil /\ IsUnhandledErrorType(firstError)]
      BY <2>4, Zenon DEF ReportOwner
    <3>3. report' = [conds   |-> OwnerConditions(chain'.kind, firstError', statuses'.current),
                     retried |-> firstError' # Nil /\ IsUnhandledErrorType(firstError')]
      BY <3>1, <3>2, Zenon
    <3>4. TemplatesFound(chain)'
      BY <1>2, <3>1 DEF Honest, TemplatesFound, AdmittedTemplates
    <3> QED BY <1>2, <3>1, <3>3, <3>4 DEF Honest
  <2>5. CASE Meddle
    <3>1. /\ stage = "reported" /\ stage' = stage /\ round' = round /\ statuses' = statuses /\ report' = report
          /\ given' = given /\ chain' = chain /\ done' = done /\ said' = said /\ firstError' = firstError
      BY <2>5 DEF Meddle
    <3>2. KeptObjects(repo')
      BY <1>2, <2>5, MeddleKeeps DEF Honest
    <3>3. TemplatesFound(chain)'
      BY <1>2, <3>1 DEF Honest, TemplatesFound, AdmittedTemplates
    <3> QED BY <1>2, <3>1, <3>2, <3>3 DEF Honest
  <2>6. CASE NextRound
    <3>1. /\ stage = "reported" /\ stage' = "choose" /\ round' = round + 1 /\ said' = said /\ repo' = repo
          /\ statuses' = [previous |-> IF StatusWritten THEN statuses.current ELSE statuses.previous,
                          owner    |-> IF StatusWritten THEN report.conds ELSE statuses.owner,
                          current  |-> <<>>]
      BY <2>6 DEF NextRound
    <3>2. KnownBefore(statuses.current, round + 1) /\ KnownBefore(statuses.previous, round + 1)
      BY <1>2, <3>1, ToldIsKnown DEF Honest, Chosen
    <3>3. /\ DOMAIN statuses' = {"previous", "current", "owner"} /\ statuses'.current = <<>>
          /\ statuses'.previous \in {statuses.current, statuses.previous}
      BY <3>1
    <3>4. KnownBefore(statuses'.previous, round')
      BY <3>1, <3>2, <3>3
    <3>5. round' \in Nat
      BY <1>2, <3>1 DEF Honest
    <3> QED BY <1>2, <3>1, <3>3, <3>4, <3>5 DEF Honest
  <2>7. CASE UNCHANGED pipelineVars
    <3>1. TemplatesFound(chain) => TemplatesFound(chain)'
      BY <2>7 DEF pipelineVars, TemplatesFound, AdmittedTemplates
    <3> QED BY <1>2, <2>7, <3>1 DEF Honest, pipelineVars
  <2> QED BY <1>2, <2>1, <2>2, <2>3, <2>4, <2>5, <2>6, <2>7 DEF PipelineNext
<1> QED BY <1>1, <1>2, ChosenInvariant, PTL

\* The owner reports Ready only when every resource was submitted in this
\* reconciliation, its output was read and it is healthy by its own rule; a
\* resource with an object, and one of which nothing was known, is reported with
\* the outputs of this reconciliation, whose times move exactly with their values;
\* one without an object, a pass through included, is reported as it was before;
\* no event speaks of an object that is not there; and the owner is retried
\* exactly when its first error came from the API server, unless that was a
\* refusal, or from choosing among options (Realize, ResourceStatuses,
\* DetermineHealthCondition, Finalize, IsUnhandledErrorType).
THEOREM ReportTellsTheTruth ==
    ASSUME NilIsNoRecord
    PROVE  PipelineInit /\ [][PipelineNext]_pipelineVars => []ReportIsHonest
<1>1. ASSUME Chosen, Honest PROVE ReportIsHonest
  <2> DEFINE list == statuses.current
             retried == firstError # Nil /\ IsUnhandledErrorType(firstError)
             cured(j) == /\ done[j].err # Nil /\ \A k \in 1..(j - 1) : done[k].err = Nil
                         /\ done[j].err.cause \in {"API", "option"} /\ ~done[j].err.forbidden
             d(i) == done[i]
             now(i) == statuses.current[i]
             before(i) == PreviousStatus(now(i).name)
             told(i) == /\ Last(report.conds).status = "True" =>
                             /\ d(i).err = Nil
                             /\ ~d(i).pass => /\ HealthyBy(d(i)) /\ now(i).realized.tmpl = d(i).tmpl
                                              /\ now(i).realized.stamped = now(i).name
                        /\ ConditionWithType(now(i).conds, "Ready").status = "True" => d(i).err = Nil
                        /\ IF d(i).object = Nil /\ before(i) # Nil THEN now(i).realized = before(i).realized
                           ELSE OutputsAreTold(now(i).realized.outputs, d(i).out, before(i))
  <2> SUFFICES ASSUME stage = "reported"
               PROVE  /\ \A e \in said : e.names
                      /\ report.retried <=> \E j \in DOMAIN done : cured(j)
                      /\ \A i \in DOMAIN done : told(i)
    BY Zenon DEF ReportIsHonest
  <2>1. Told(done, list, statuses.previous, firstError, round) /\ IsList(done) /\ \A e \in said : e.names
    BY <1>1 DEF Honest, Chosen
  <2>2. report = [conds |-> OwnerConditions(chain.kind, firstError, list), retried |-> retried]
    BY <1>1, Zenon DEF Honest
  <2>3. report.conds = OwnerConditions(chain.kind, firstError, list)
    BY <2>2
  <2>4. report.retried <=> retried
    BY <2>2, Zenon
  <2>5. ASSUME NEW i \in DOMAIN done PROVE told(i)
    <3>1. Entry(d(i), now(i), before(i), round)
      BY <2>1 DEF Told, PreviousStatus
    <3>2. i \in DOMAIN list
      BY <2>1, Grows DEF Told
    <3>3. ASSUME Last(report.conds).status = "True"
          PROVE  /\ d(i).err = Nil
                 /\ ~d(i).pass => /\ HealthyBy(d(i)) /\ now(i).realized.tmpl = d(i).tmpl
                                  /\ now(i).realized.stamped = now(i).name
      <4> DEFINE h == ConditionWithType(now(i).conds, "Healthy")
      <4>1. firstError = Nil /\ (h = Nil \/ h.status \notin {"False", "Unknown"})
        BY <2>1, <2>3, <3>2, <3>3, OwnerIsReady DEF Told
      <4>2. d(i).err = Nil
        BY <2>1, <4>1 DEF Told
      <4> HIDE DEF h, d, now, before
      <4> QED BY <3>1, <4>1, <4>2 DEF Entry, IsHealth, h
    <3> HIDE DEF d, now, before
    <3>4. ConditionWithType(now(i).conds, "Ready").status = "True" => d(i).err = Nil
      BY <3>1 DEF Entry
    <3>5. CASE d(i).object = Nil /\ before(i) # Nil
      BY <3>1, <3>3, <3>4, <3>5 DEF Entry
    <3>6. CASE ~(d(i).object = Nil /\ before(i) # Nil)
      <4>1. Moved(now(i).realized.outputs, d(i).out, OutputsOf(before(i)), round)
        BY <3>1, <3>6 DEF Entry
      <4>2. OutputsAreTold(now(i).realized.outputs, d(i).out, before(i))
        BY <4>1, Zenon DEF OutputsAreTold, Moved, OutputsOf
      <4> QED BY <3>3, <3>4, <3>6, <4>2
    <3> QED BY <3>5, <3>6
  <2>6. \A j \in DOMAIN done : done[j].err # Nil => Classified(done[j].err)
    BY <2>1 DEF Told, Entry
  <2>7. \A j \in DOMAIN done : FirstAt(done, j) => firstError = done[j].err
    <3> SUFFICES ASSUME NEW j \in DOMAIN done, FirstAt(done, j) PROVE firstError = done[j].err
      OBVIOUS
    <3>1. firstError # Nil
      BY <2>1 DEF Told, FirstAt
    <3>2. PICK k \in DOMAIN done : FirstAt(done, k) /\ done[k].err = firstError
      BY <2>1, <3>1 DEF Told, FirstIs
    <3>3. j \in Nat /\ k \in Nat /\ j >= 1 /\ k >= 1
      <4>1. DOMAIN done = 1..Len(done) /\ Len(done) \in Nat
        BY <2>1, Grows
      <4> QED BY <4>1
    <3>4. ~(j < k) /\ ~(k < j)
      <4>1. j < k => j \in 1..(k - 1)
        BY <3>3
      <4>2. k < j => k \in 1..(j - 1)
        BY <3>3
      <4> QED BY <3>2, <4>1, <4>2 DEF FirstAt
    <3> QED BY <3>2, <3>3, <3>4
  <2>8. ASSUME report.retried PROVE \E j \in DOMAIN done : cured(j)
    <3>1. firstError # Nil /\ IsUnhandledErrorType(firstError)
      BY <2>4, <2>8, Zenon
    <3>2. PICK j \in DOMAIN done : FirstAt(done, j) /\ done[j].err = firstError
      BY <2>1, <3>1 DEF Told, FirstIs
    <3>3. Classified(done[j].err) /\ IsUnhandledErrorType(done[j].err)
      BY <2>6, <3>1, <3>2
    <3>4. done[j].err.cause \in {"API", "option"} /\ ~done[j].err.forbidden
      BY <3>3, Zenon DEF Classified
    <3>5. cured(j)
      BY <3>2, <3>4, Zenon DEF FirstAt
    <3> QED BY <3>5
  <2>9. ASSUME NEW j \in DOMAIN done, cured(j) PROVE report.retried
    <3>1. FirstAt(done, j) /\ done[j].err # Nil /\ done[j].err.cause \in {"API", "option"} /\ ~done[j].err.forbidden
      BY <2>9, Zenon DEF FirstAt
    <3>2. firstError = done[j].err /\ Classified(done[j].err)
      BY <2>6, <2>7, <3>1
    <3>3. IsUnhandledErrorType(done[j].err)
      BY <3>1, <3>2, Zenon DEF Classified
    <3> QED BY <2>4, <3>1, <3>2, <3>3, Zenon
  <2> HIDE DEF told, cured
  <2> QED BY <2>1, <2>5, <2>8, <2>9, Zenon
<1> QED BY <1>1, ChosenInvariant, HonestInvariant, PTL

-----------------------------------------------------------------------------
(***************************************************************************)
(* What is made of an admitted blueprint.                                  *)
(***************************************************************************)
IsMap(f) == f = [n \in DOMAIN f |-> f[n]]

\* What a loop of assignments has made of a map after k turns: under a name is
\* the value of the last assignment to it, else what was there before.
LastAssigned(m, map, list, at, k) ==
    /\ IsMap(m)
    /\ \A n : n \in DOMAIN m <=> (n \in DOMAIN map \/ \E i \in 1..k \cap at : list[i].name = n)
    /\ \A n \in DOMAIN m :
          \/ /\ n \in DOMAIN map /\ m[n] = map[n]
             /\ \A i \in 1..k \cap at : list[i].name # n
          \/ \E i \in 1..k \cap at :
               /\ list[i].name = n /\ m[n] = list[i].value
               /\ \A j \in 1..k \cap at : list[j].name = n => j <= i

\* The values of the loop after each turn.
Turns(map, list, at, g) ==
    /\ AssignAll(map, list, at) = g[Len(list)] /\ g[0] = map
    /\ \A i \in 1..Len(list) : g[i] = IF i \in at THEN Put(g[i - 1], list[i].name, list[i].value) ELSE g[i - 1]

LEMMA AssignAllLoop ==
    ASSUME NEW list, IsList(list), NEW map, IsMap(map), NEW at
    PROVE  \E g : Turns(map, list, at, g)
<1> DEFINE n == Len(list)
           N == DOMAIN map \cup {list[i].name : i \in 1..n}
           V == {map[k] : k \in DOMAIN map} \cup {list[i].value : i \in 1..n}
           A == UNION {[D -> V] : D \in SUBSET N}
           Turn(i, acc) == IF i \in at THEN Put(acc, list[i].name, list[i].value) ELSE acc
           step == [i \in 1..n |-> [acc \in A |-> Turn(i, acc)]]
           Is(f) == f = [i \in 0..n |-> IF i = 0 THEN map ELSE Turn(i, f[i - 1])]
<1>1. n \in Nat
  BY DEF IsList
<1>2. map \in A
  <2>1. map \in [DOMAIN map -> V]
    BY DEF IsMap
  <2>2. DOMAIN map \in SUBSET N
    OBVIOUS
  <2> HIDE DEF V, N
  <2> QED BY <2>1, <2>2
<1>3. ASSUME NEW i \in 1..n, NEW acc \in A PROVE Turn(i, acc) \in A
  <2>1. PICK D \in SUBSET N : acc \in [D -> V]
    OBVIOUS
  <2>2. list[i].name \in N /\ list[i].value \in V
    OBVIOUS
  <2> HIDE DEF V, N
  <2>3. Put(acc, list[i].name, list[i].value) \in [D \cup {list[i].name} -> V]
    BY <2>1, <2>2 DEF Put
  <2>4. D \cup {list[i].name} \in SUBSET N
    BY <2>1, <2>2
  <2>5. Put(acc, list[i].name, list[i].value) \in A
    BY <2>3, <2>4
  <2> QED BY <2>5
<1>4. step \in [1..n -> [A -> A]]
  <2> HIDE DEF A, Turn
  <2> QED BY <1>3
<1> DEFINE g == CHOOSE h : Is(h)
<1>13. AssignAll(map, list, at) = g[n]
  BY DEF AssignAll
<1> HIDE DEF n, A, Turn
<1>5. \A i \in 1..n, acc \in A : step[i][acc] = Turn(i, acc)
  OBVIOUS
<1> HIDE DEF step
<1>0. PICK f : LoopValues(f, n, A, map, step)
  BY <1>1, <1>2, <1>4, LoopHasValues
<1>6. f \in [0..n -> A] /\ f[0] = map /\ \A i \in 1..n : f[i] = step[i][f[i - 1]]
  BY <1>0 DEF LoopValues
<1>7. \A i \in 1..n : i - 1 \in 0..n /\ i \in 0..n /\ i # 0
  BY <1>1
<1>8. \A i \in 1..n : f[i] = Turn(i, f[i - 1])
  BY <1>5, <1>6, <1>7
<1>9. \A i \in 0..n : i # 0 => i \in 1..n
  BY <1>1
<1>10. \A i \in 0..n : f[i] = IF i = 0 THEN map ELSE Turn(i, f[i - 1])
  BY <1>6, <1>8, <1>9
<1>11. Is(f)
  BY <1>6, <1>10
<1>12. Is(g)
  BY <1>11
<1> HIDE DEF g
<1>14. g[0] = map /\ \A i \in 1..n : g[i] = Turn(i, g[i - 1])
  BY <1>1, <1>7, <1>12
<1>15. Turns(map, list, at, g)
  BY <1>13, <1>14 DEF Turns, Turn, n
<1> QED BY <1>15

LEMMA AssignAllAssigns ==
    ASSUME NEW list, IsList(list), NEW map, IsMap(map), NEW at
    PROVE  LastAssigned(AssignAll(map, list, at), map, list, at, Len(list))
<1> DEFINE n == Len(list)
<1>1. n \in Nat
  BY DEF IsList
<1>2. PICK g : Turns(map, list, at, g)
  BY AssignAllLoop
<1> DEFINE After(k) == LastAssigned(g[k], map, list, at, k)
           D == {k \in 0..n : After(k)}
<1>3. 0 \in D
  <2>1. 1..0 = {} /\ 0 \in 0..n
    BY <1>1
  <2>2. g[0] = map
    BY <1>2 DEF Turns
  <2> QED BY <2>1, <2>2 DEF LastAssigned
<1>4. ASSUME NEW i \in 1..n, i - 1 \in D PROVE i \in D
  <2> DEFINE before == g[i - 1]
             after == g[i]
             earlier == 1..(i - 1) \cap at
             turns == 1..i \cap at
             name == list[i].name
  <2>1. i \in 0..n /\ \A j \in earlier : j <= i /\ j # i
    BY <1>1
  <2>2. LastAssigned(before, map, list, at, i - 1)
    BY <1>4
  <2>3. after = IF i \in at THEN Put(before, name, list[i].value) ELSE before
    BY <1>2 DEF Turns
  <2>4. CASE i \notin at
    <3>1. turns = earlier
      BY <1>1, <2>4
    <3> QED BY <2>1, <2>2, <2>3, <2>4, <3>1 DEF LastAssigned
  <2>5. CASE i \in at
    <3>1. turns = earlier \cup {i}
      BY <1>1, <2>5
    <3>2. after = Put(before, name, list[i].value)
      BY <2>3, <2>5
    <3> HIDE DEF before, after, earlier, turns
    <3>3. /\ IsMap(after) /\ DOMAIN after = DOMAIN before \cup {name} /\ after[name] = list[i].value
          /\ \A k \in DOMAIN before : k # name => after[k] = before[k]
      BY <3>2 DEF Put, IsMap
    <3>4. \A k : k \in DOMAIN after <=> (k \in DOMAIN map \/ \E j \in turns : list[j].name = k)
      BY <2>2, <3>1, <3>3 DEF LastAssigned, earlier
    <3>5. ASSUME NEW k \in DOMAIN after
          PROVE  \/ /\ k \in DOMAIN map /\ after[k] = map[k]
                    /\ \A j \in turns : list[j].name # k
                 \/ \E j \in turns : /\ list[j].name = k /\ after[k] = list[j].value
                                     /\ \A l \in turns : list[l].name = k => l <= j
      <4>1. CASE k = name
        <5>1. \A l \in turns : l <= i
          BY <2>1, <3>1
        <5> QED BY <3>1, <3>3, <4>1, <5>1
      <4>2. CASE k # name
        <5>1. k \in DOMAIN before /\ after[k] = before[k]
          BY <3>3, <4>2
        <5> QED BY <2>2, <3>1, <4>2, <5>1 DEF LastAssigned, earlier
      <4> QED BY <4>1, <4>2
    <3>6. LastAssigned(after, map, list, at, i)
      BY <3>3, <3>4, <3>5 DEF LastAssigned, turns
    <3> QED BY <2>1, <3>6 DEF after
  <2> QED BY <2>4, <2>5
<1> HIDE DEF D
<1>5. 0..n \subseteq D
  BY <1>1, <1>3, <1>4, TurnInduction
<1>6. n \in D
  BY <1>1, <1>5
<1>7. After(n)
  BY <1>6 DEF D
<1> QED BY <1>2, <1>7 DEF Turns

\* The last entry of a name.
LEMMA LastNamedIs ==
    ASSUME NEW list, IsList(list), NEW n, NEW i \in DOMAIN list, list[i].name = n,
           \A j \in DOMAIN list : list[j].name = n => j <= i
    PROVE  LastNamed(list, n) = list[i] /\ n \in NamesIn(list)
<1> DEFINE Is(k) == k \in DOMAIN list /\ list[k].name = n /\ \A j \in DOMAIN list : list[j].name = n => j <= k
           c == CHOOSE k \in DOMAIN list : list[k].name = n /\ \A j \in DOMAIN list : list[j].name = n => j <= k
<1>1. Is(i)
  OBVIOUS
<1>2. LastNamed(list, n) = list[c]
  BY DEF LastNamed
<1>3. Is(c)
  BY <1>1
<1> HIDE DEF c
<1>4. DOMAIN list \subseteq Nat
  BY Grows
<1>5. i <= c /\ c <= i
  BY <1>1, <1>3
<1>6. c = i
  BY <1>3, <1>4, <1>5
<1> QED BY <1>1, <1>2, <1>6 DEF NamesIn

\* A list that is made of the elements of another one.
LEMMA ListLike ==
    ASSUME NEW src, IsList(src), NEW list, IsMap(list), DOMAIN list = DOMAIN src
    PROVE  IsList(list) /\ Len(list) = Len(src) /\ DOMAIN list = 1..Len(list)
<1> DEFINE S == {list[i] : i \in DOMAIN list}
           n == Len(src)
<1>1. n \in Nat /\ DOMAIN src = 1..n
  BY Grows
<1>2. list \in [1..n -> S]
  BY <1>1 DEF IsMap
<1> HIDE DEF S, n
<1>3. list \in Seq(S) /\ Len(list) = n
  BY <1>1, <1>2
<1> QED BY <1>1, <1>3 DEF IsList, n

\* A loop that assigns for every entry of a list.
EveryAssigned(m, map, src, list) ==
    /\ IsMap(m) /\ DOMAIN m = DOMAIN map \cup NamesIn(src)
    /\ \A n \in DOMAIN m : n \notin NamesIn(src) => m[n] = map[n]
    /\ \A n \in NamesIn(src) : \E i \in DOMAIN src : LastNamed(src, n) = src[i] /\ m[n] = list[i].value

LEMMA AssignEvery ==
    ASSUME NEW src, IsList(src), NEW list, IsMap(list), DOMAIN list = DOMAIN src,
           \A i \in DOMAIN src : list[i].name = src[i].name,
           NEW map, IsMap(map)
    PROVE  EveryAssigned(AssignAll(map, list, DOMAIN list), map, src, list)
<1> DEFINE m == AssignAll(map, list, DOMAIN list)
           turns == 1..Len(list) \cap DOMAIN list
<1>1. IsList(list) /\ DOMAIN list = 1..Len(list)
  BY ListLike
<1>2. turns = DOMAIN src
  BY <1>1
<1>3. LastAssigned(m, map, list, DOMAIN list, Len(list))
  BY <1>1, AssignAllAssigns
<1> HIDE DEF m
<1>4. /\ IsMap(m)
      /\ \A n : n \in DOMAIN m <=> (n \in DOMAIN map \/ \E i \in DOMAIN src : src[i].name = n)
      /\ \A n \in DOMAIN m :
          \/ /\ n \in DOMAIN map /\ m[n] = map[n]
             /\ \A i \in DOMAIN src : src[i].name # n
          \/ \E i \in DOMAIN src :
               /\ src[i].name = n /\ m[n] = list[i].value
               /\ \A j \in DOMAIN src : src[j].name = n => j <= i
  BY <1>2, <1>3 DEF LastAssigned
<1>5. ASSUME NEW n \in NamesIn(src)
      PROVE  \E i \in DOMAIN src : LastNamed(src, n) = src[i] /\ m[n] = list[i].value
  <2>1. n \in DOMAIN m /\ \E i \in DOMAIN src : src[i].name = n
    BY <1>4 DEF NamesIn
  <2>2. PICK i \in DOMAIN src : /\ src[i].name = n /\ m[n] = list[i].value
                                /\ \A j \in DOMAIN src : src[j].name = n => j <= i
    BY <1>4, <2>1
  <2>3. LastNamed(src, n) = src[i]
    BY <2>2, LastNamedIs
  <2> QED BY <2>2, <2>3
<1>6. DOMAIN m = DOMAIN map \cup NamesIn(src)
  BY <1>4, ZenonT(60) DEF NamesIn
<1>7. \A n \in DOMAIN m : n \notin NamesIn(src) => m[n] = map[n]
  BY <1>4 DEF NamesIn
<1> QED BY <1>4, <1>5, <1>6, <1>7 DEF EveryAssigned, m

-----------------------------------------------------------------------------
\* The three loops over the defaults and the overrides.
LEMMA DefaultsAre ==
    ASSUME NEW params, IsList(params)
    PROVE  LET m == DefaultParams(params)
           IN IsMap(m) /\ DOMAIN m = NamesIn(params) /\ \A n \in DOMAIN m : m[n] = LastNamed(params, n).default
<1> DEFINE list == [i \in DOMAIN params |-> Assignment(params[i].name, params[i].default)]
           m == DefaultParams(params)
<1>1. m = AssignAll(<<>>, list, DOMAIN list)
  BY Zenon DEF DefaultParams
<1>2. /\ IsMap(list) /\ DOMAIN list = DOMAIN params
      /\ \A i \in DOMAIN params : list[i].name = params[i].name /\ list[i].value = params[i].default
  BY DEF IsMap, Assignment
<1>3. IsMap(<<>>) /\ DOMAIN <<>> = {}
  BY DEF IsMap
<1> HIDE DEF list, m
<1>4. EveryAssigned(m, <<>>, params, list)
  BY <1>1, <1>2, <1>3, AssignEvery
<1> QED BY <1>2, <1>3, <1>4 DEF EveryAssigned, m

Overridden(m, map, overrides) ==
    /\ IsMap(m) /\ DOMAIN m = DOMAIN map \cup NamesIn(overrides)
    /\ \A n \in DOMAIN m : n \notin NamesIn(overrides) => m[n] = map[n]
    /\ \A n \in NamesIn(overrides) :
          LET last == LastNamed(overrides, n)
          IN m[n] = IF last.value # Nil THEN last.value ELSE last.default

LEMMA OverridesAre ==
    ASSUME NEW map, IsMap(map), NEW overrides, IsList(overrides)
    PROVE  Overridden(OverrideParams(map, overrides), map, overrides)
<1> DEFINE val(i) == IF overrides[i].value # Nil THEN overrides[i].value ELSE overrides[i].default
           list == [i \in DOMAIN overrides |-> Assignment(overrides[i].name, val(i))]
           m == OverrideParams(map, overrides)
<1>1. m = AssignAll(map, list, DOMAIN list)
  BY Zenon DEF OverrideParams
<1>2. /\ IsMap(list) /\ DOMAIN list = DOMAIN overrides
      /\ \A i \in DOMAIN overrides : list[i].name = overrides[i].name /\ list[i].value = val(i)
  BY DEF IsMap, Assignment
<1> HIDE DEF list, m
<1>4. EveryAssigned(m, map, overrides, list)
  BY <1>1, <1>2, AssignEvery
<1> QED BY <1>2, <1>4 DEF EveryAssigned, Overridden, m

LEMMA ProtectedAre ==
    ASSUME NEW overrides, IsList(overrides)
    PROVE  LET m == ProtectedFromOwnerOverride(overrides)
           IN \A n : OwnerCanOverride(m, n) <=> (n \in NamesIn(overrides) => LastNamed(overrides, n).value = Nil)
<1> DEFINE list == [i \in DOMAIN overrides |-> Assignment(overrides[i].name, overrides[i].value # Nil)]
           m == ProtectedFromOwnerOverride(overrides)
<1>1. m = AssignAll(<<>>, list, DOMAIN list)
  BY Zenon DEF ProtectedFromOwnerOverride
<1>2. /\ IsMap(list) /\ DOMAIN list = DOMAIN overrides
      /\ \A i \in DOMAIN overrides : list[i].name = overrides[i].name
  BY DEF IsMap, Assignment
<1>3. IsMap(<<>>) /\ DOMAIN <<>> = {}
  BY DEF IsMap
<1>4. ASSUME NEW i \in DOMAIN overrides PROVE list[i].value <=> overrides[i].value # Nil
  <2>1. list[i] = Assignment(overrides[i].name, overrides[i].value # Nil)
    BY Zenon
  <2> QED BY <2>1, Zenon DEF Assignment
<1> HIDE DEF list, m
<1>5. EveryAssigned(m, <<>>, overrides, list)
  BY <1>1, <1>2, <1>3, AssignEvery
<1>6. DOMAIN m = NamesIn(overrides)
  BY <1>3, <1>5 DEF EveryAssigned
<1>7. ASSUME NEW n \in NamesIn(overrides) PROVE ~m[n] <=> LastNamed(overrides, n).value = Nil
  <2>1. PICK i \in DOMAIN overrides : LastNamed(overrides, n) = overrides[i] /\ m[n] = list[i].value
    BY <1>5, Zenon DEF EveryAssigned
  <2> QED BY <1>4, <2>1, Zenon
<1> QED BY <1>6, <1>7, Zenon DEF OwnerCanOverride, m

\* Merge gives every parameter the value of the highest level that sets it.
LEMMA MergeGives ==
    ASSUME NEW template, IsList(template.params), NEW bp, NEW rp, IsList(bp), IsList(rp), NEW op, IsList(op),
           \A i \in DOMAIN bp : ValidateParam(bp[i]), \A i \in DOMAIN rp : ValidateParam(rp[i])
    PROVE  ParamsInForce(MergeParams(template, bp, rp, op), template.params, bp \o rp, op)
<1> DEFINE overrides == bp \o rp
           protected == ProtectedFromOwnerOverride(overrides)
           base == DefaultParams(template.params)
           map == OverrideParams(base, overrides)
           at == {i \in DOMAIN op : OwnerCanOverride(protected, op[i].name)}
           m == AssignAll(map, op, at)
           last(n) == LastNamed(overrides, n)
           merged == MergeParams(template, bp, rp, op)
<1>1. IsList(overrides) /\ \A i \in DOMAIN overrides :
           (\E j \in DOMAIN bp : overrides[i] = bp[j]) \/ (\E j \in DOMAIN rp : overrides[i] = rp[j])
  <2>1. PICK S, T : bp \in Seq(S) /\ rp \in Seq(T)
    BY DEF IsList
  <2> DEFINE U == S \cup T
  <2>2. bp \in Seq(U) /\ rp \in Seq(U)
    BY <2>1
  <2> HIDE DEF U
  <2>3. overrides \in Seq(U) /\ Len(overrides) = Len(bp) + Len(rp)
        /\ \A i \in 1..(Len(bp) + Len(rp)) : overrides[i] = IF i <= Len(bp) THEN bp[i] ELSE rp[i - Len(bp)]
    BY <2>2, ConcatProperties
  <2> HIDE DEF overrides
  <2>4. /\ Len(bp) \in Nat /\ Len(rp) \in Nat /\ DOMAIN bp = 1..Len(bp) /\ DOMAIN rp = 1..Len(rp)
        /\ DOMAIN overrides = 1..Len(overrides)
    BY <2>2, <2>3
  <2>5. ASSUME NEW i \in DOMAIN overrides
        PROVE  (\E j \in DOMAIN bp : overrides[i] = bp[j]) \/ (\E j \in DOMAIN rp : overrides[i] = rp[j])
    <3>1. CASE i <= Len(bp)
      BY <2>3, <2>4, <3>1
    <3>2. CASE ~(i <= Len(bp))
      <4>1. i - Len(bp) \in DOMAIN rp /\ overrides[i] = rp[i - Len(bp)]
        BY <2>3, <2>4, <3>2
      <4> QED BY <4>1
    <3> QED BY <3>1, <3>2
  <2> QED BY <2>3, <2>5 DEF IsList
<1>2. \A i \in DOMAIN overrides : ~(overrides[i].value = Nil /\ overrides[i].default = Nil)
  <2>1. \A p : ValidateParam(p) => ~(p.value = Nil /\ p.default = Nil)
    BY Zenon DEF ValidateParam
  <2> HIDE DEF overrides
  <2> QED BY <1>1, <2>1
<1>3. merged.params = m
  <2>1. merged = [params |-> m, panic |-> \E i \in DOMAIN overrides : overrides[i].value = Nil /\ overrides[i].default = Nil]
    BY Zenon DEF MergeParams
  <2> HIDE DEF m, overrides, merged
  <2> QED BY <2>1, Zenon
<1>4. ~merged.panic
  <2>1. merged = [params |-> m, panic |-> \E i \in DOMAIN overrides : overrides[i].value = Nil /\ overrides[i].default = Nil]
    BY Zenon DEF MergeParams
  <2> HIDE DEF m, overrides, merged
  <2> QED BY <1>2, <2>1, Zenon
<1> HIDE DEF overrides, merged
<1>5. IsMap(base) /\ DOMAIN base = NamesIn(template.params)
      /\ \A n \in DOMAIN base : base[n] = LastNamed(template.params, n).default
  BY DefaultsAre
<1> HIDE DEF base
<1>6. /\ IsMap(map) /\ DOMAIN map = DOMAIN base \cup NamesIn(overrides)
      /\ \A n \in DOMAIN map : n \notin NamesIn(overrides) => map[n] = base[n]
      /\ \A n \in NamesIn(overrides) : map[n] = IF last(n).value # Nil THEN last(n).value ELSE last(n).default
  <2>1. Overridden(map, base, overrides)
    BY <1>1, <1>5, OverridesAre
  <2> HIDE DEF map
  <2> QED BY <2>1 DEF Overridden
<1>7. \A n : OwnerCanOverride(protected, n) <=> (n \in NamesIn(overrides) => last(n).value = Nil)
  BY <1>1, ProtectedAre
<1> HIDE DEF protected, map
<1>8. LastAssigned(m, map, op, at, Len(op)) /\ DOMAIN op = 1..Len(op)
  BY <1>6, AssignAllAssigns, Grows
<1>9. 1..Len(op) \cap at = at
  BY <1>8
<1> HIDE DEF m
<1>10. \A i \in at : i \in DOMAIN op /\ (op[i].name \in NamesIn(overrides) => last(op[i].name).value = Nil)
  BY <1>7
<1>11. \A i \in DOMAIN op : (op[i].name \in NamesIn(overrides) => last(op[i].name).value = Nil) => i \in at
  BY <1>7
<1> HIDE DEF at, last
<1>12. DOMAIN m = NamesIn(template.params) \cup NamesIn(overrides) \cup NamesIn(op)
  <2>1. \A n : n \in DOMAIN m <=> (n \in DOMAIN map \/ \E i \in at : op[i].name = n)
    BY <1>8, <1>9 DEF LastAssigned
  <2>2. DOMAIN map = NamesIn(template.params) \cup NamesIn(overrides)
    BY <1>5, <1>6
  <2>3. ASSUME NEW i \in at PROVE op[i].name \in NamesIn(op)
    BY <1>10 DEF NamesIn
  <2>4. ASSUME NEW n \in NamesIn(op), n \notin NamesIn(overrides) PROVE \E i \in at : op[i].name = n
    <3>1. PICK i \in DOMAIN op : op[i].name = n
      BY DEF NamesIn
    <3>2. i \in at
      BY <1>11, <2>4, <3>1
    <3> QED BY <3>1, <3>2
  <2>5. \A n : n \in DOMAIN m <=> n \in NamesIn(template.params) \cup NamesIn(overrides) \cup NamesIn(op)
    BY <2>1, <2>2, <2>3, <2>4
  <2> QED BY <2>5
<1>13. ASSUME NEW n \in DOMAIN m PROVE m[n] = ParamInForce(template.params, overrides, op, n)
  <2>1. \/ /\ n \in DOMAIN map /\ m[n] = map[n] /\ \A i \in at : op[i].name # n
        \/ \E i \in at : /\ op[i].name = n /\ m[n] = op[i].value
                         /\ \A j \in at : op[j].name = n => j <= i
    BY <1>8, <1>9 DEF LastAssigned
  <2>2. CASE n \in NamesIn(overrides) /\ last(n).value # Nil
    <3>1. n \in DOMAIN map /\ m[n] = map[n]
      BY <1>10, <2>1, <2>2
    <3>2. m[n] = last(n).value
      BY <1>6, <2>2, <3>1
    <3> QED BY <2>2, <3>2 DEF ParamInForce, last
  <2>3. CASE ~(n \in NamesIn(overrides) /\ last(n).value # Nil)
    <3>1. \A i \in DOMAIN op : op[i].name = n => i \in at
      BY <1>11, <2>3
    <3>2. CASE n \in NamesIn(op)
      <4>1. PICK i \in at : op[i].name = n /\ m[n] = op[i].value /\ \A j \in at : op[j].name = n => j <= i
        BY <2>1, <3>1, <3>2 DEF NamesIn
      <4>2. LastNamed(op, n) = op[i]
        BY <1>10, <3>1, <4>1, LastNamedIs
      <4> QED BY <2>3, <3>2, <4>1, <4>2 DEF ParamInForce, last
    <3>3. CASE n \notin NamesIn(op)
      <4>1. \A i \in at : op[i].name # n
        BY <1>10, <3>3 DEF NamesIn
      <4>2. n \in DOMAIN map /\ m[n] = map[n]
        BY <2>1, <4>1
      <4>3. CASE n \in NamesIn(overrides)
        <5>1. m[n] = last(n).default
          BY <1>6, <2>3, <4>2, <4>3
        <5> QED BY <2>3, <3>3, <4>3, <5>1 DEF ParamInForce, last
      <4>4. CASE n \notin NamesIn(overrides)
        <5>1. m[n] = LastNamed(template.params, n).default
          BY <1>5, <1>6, <4>2, <4>4
        <5> QED BY <2>3, <3>3, <4>4, <5>1 DEF ParamInForce, last
      <4> QED BY <4>3, <4>4
    <3> QED BY <3>2, <3>3
  <2> QED BY <2>2, <2>3
<1> QED BY <1>3, <1>4, <1>12, <1>13, Zenon DEF ParamsInForce, overrides, merged

-----------------------------------------------------------------------------
\* The inputs of one kind, by name and, when there is only one, by the kind.
InputsFrom(m, refs, seen, field) ==
    /\ \A n : n \in DOMAIN m <=> \E i \in DOMAIN refs : refs[i].name = n /\ HasOutput(seen, refs[i].resource, field)
    /\ \A n \in DOMAIN m :
          /\ m[n] # Nil
          /\ \A path : Len(path) = 2 /\ path[2] = n => SuppliedBy(refs, seen, field, path, m[n])
    /\ OnlyOne(m) # Nil => \A path : Len(path) = 1 => SuppliedBy(refs, seen, field, path, OnlyOne(m))
    /\ Len(refs) = 1 /\ HasOutput(seen, refs[1].resource, field) => OnlyOne(m) # Nil

LEMMA InputsAre ==
    ASSUME NEW refs, IsList(refs), NEW seen, NEW field
    PROVE  InputsFrom(Inputs(refs, seen, field), refs, seen, field)
<1> DEFINE val(i) == GetOutput(seen, refs[i].resource, field)
           list == [i \in DOMAIN refs |-> Assignment(refs[i].name, val(i))]
           at == {i \in DOMAIN refs : val(i) # Nil}
           m == Inputs(refs, seen, field)
           Has(i) == HasOutput(seen, refs[i].resource, field)
<1>1. m = AssignAll(<<>>, list, at)
  BY Zenon DEF Inputs
<1>2. \A i \in DOMAIN refs : (i \in at <=> Has(i)) /\ (Has(i) => val(i) = seen[refs[i].resource][field] /\ val(i) # Nil)
  BY DEF GetOutput, HasOutput
<1>3. /\ IsMap(list) /\ DOMAIN list = DOMAIN refs
      /\ \A i \in DOMAIN refs : list[i].name = refs[i].name /\ list[i].value = val(i)
  <2> HIDE DEF val
  <2> QED BY DEF IsMap, Assignment
<1>4. IsMap(<<>>) /\ DOMAIN <<>> = {}
  BY DEF IsMap
<1> HIDE DEF val, list, m, Has
<1>5. IsList(list) /\ DOMAIN refs = 1..Len(list) /\ Len(list) = Len(refs) /\ Len(refs) \in Nat
  BY <1>3, ListLike, Grows
<1>6. LastAssigned(m, <<>>, list, at, Len(list)) /\ 1..Len(list) \cap at = at
  BY <1>1, <1>4, <1>5, AssignAllAssigns
<1>7. /\ \A n : n \in DOMAIN m <=> \E i \in at : refs[i].name = n
      /\ \A n \in DOMAIN m : \E i \in at : /\ refs[i].name = n /\ m[n] = val(i)
                                           /\ \A j \in at : refs[j].name = n => j <= i
  BY <1>3, <1>4, <1>6, SMTT(40) DEF LastAssigned
<1>8. at = {i \in DOMAIN refs : Has(i)}
  BY <1>2
<1> HIDE DEF at
<1>9. \A n : n \in DOMAIN m <=> \E i \in DOMAIN refs : refs[i].name = n /\ Has(i)
  BY <1>7, <1>8
<1>10. ASSUME NEW n \in DOMAIN m
       PROVE  /\ m[n] # Nil
              /\ \A path : Len(path) = 2 /\ path[2] = n => SuppliedBy(refs, seen, field, path, m[n])
              /\ DOMAIN m = {n} => \A path : Len(path) = 1 => SuppliedBy(refs, seen, field, path, m[n])
  <2>1. PICK i \in at : refs[i].name = n /\ m[n] = val(i) /\ \A j \in at : refs[j].name = n => j <= i
    BY <1>7
  <2>2. m[n] # Nil /\ m[n] = seen[refs[i].resource][field] /\ Has(i) /\ i \in DOMAIN refs
    BY <1>2, <1>8, <2>1
  <2>3. ASSUME NEW path, Len(path) = 2, path[2] = n PROVE SuppliedBy(refs, seen, field, path, m[n])
    <3>1. Suppliers(refs, seen, field, path) = {j \in at : refs[j].name = n}
      BY <1>8, <2>3 DEF Suppliers, Has
    <3> QED BY <2>1, <2>2, <3>1 DEF SuppliedBy
  <2>4. ASSUME DOMAIN m = {n}, NEW path, Len(path) = 1 PROVE SuppliedBy(refs, seen, field, path, m[n])
    <3>1. Suppliers(refs, seen, field, path) = at
      BY <1>8, <2>4 DEF Suppliers, Has
    <3>2. \A j \in at : refs[j].name = n
      BY <1>7, <2>4
    <3> QED BY <2>1, <2>2, <3>1, <3>2 DEF SuppliedBy
  <2> QED BY <2>2, <2>3, <2>4
<1>11. IsFiniteSet(DOMAIN m)
  <2> DEFINE f == [i \in at |-> refs[i].name]
  <2>1. IsFiniteSet(1..Len(refs))
    BY <1>5, FS_Interval
  <2>2. at \in SUBSET (1..Len(refs))
    BY <1>5, <1>8
  <2>3. IsFiniteSet(at)
    BY <2>1, <2>2, FS_Subset
  <2>4. f \in Surjection(at, DOMAIN m)
    BY <1>7 DEF Surjection
  <2> QED BY <2>3, <2>4, FS_Surjection
<1>12. ASSUME OnlyOne(m) # Nil, NEW path, Len(path) = 1 PROVE SuppliedBy(refs, seen, field, path, OnlyOne(m))
  <2>1. Cardinality(DOMAIN m) = 1 /\ OnlyOne(m) = m[CHOOSE n \in DOMAIN m : TRUE]
    BY <1>12 DEF OnlyOne
  <2>2. PICK n : DOMAIN m = {n}
    BY <1>11, <2>1, FS_Singleton
  <2>3. OnlyOne(m) = m[n] /\ n \in DOMAIN m
    BY <2>1, <2>2
  <2> QED BY <1>10, <1>12, <2>2, <2>3
<1>13. ASSUME Len(refs) = 1, Has(1) PROVE OnlyOne(m) # Nil
  <2>1. DOMAIN refs = {1}
    BY <1>5, <1>13
  <2>2. DOMAIN m = {refs[1].name}
    BY <1>9, <1>13, <2>1
  <2>3. Cardinality(DOMAIN m) = 1
    BY <2>2, FS_Singleton
  <2>4. OnlyOne(m) = m[refs[1].name]
    BY <2>2, <2>3 DEF OnlyOne
  <2> QED BY <1>10, <2>2, <2>4
<1> QED BY <1>9, <1>10, <1>12, <1>13 DEF InputsFrom, Has, m

\* The context of a resource.
ContextOf(context, resource, seen, params) ==
    /\ DOMAIN context = {"workload", "deliverable", "params", "sources", "images", "configs", "deployment",
                         "source", "image", "config"}
    /\ context.params = params /\ context.workload # Nil /\ context.deliverable # Nil
    /\ \A field \in DOMAIN Lists :
          /\ context[field] = OnlyOne(context[Lists[field]])
          /\ InputsFrom(context[Lists[field]], resource[Lists[field]], seen, field)

\* The inputs of a resource are lists.
InputsAreLists(resource) == IsList(resource.sources) /\ IsList(resource.images) /\ IsList(resource.configs)

LEMMA GenerateGives ==
    ASSUME NEW template, NEW blueprint, NEW resource, InputsAreLists(resource), NEW owner, owner.name # Nil, NEW seen
    PROVE  ContextOf(Generate(template, blueprint, resource, owner, seen), resource, seen,
                     MergeParams(template, blueprint.params, resource.params, owner.params).params)
<1> DEFINE s == Inputs(resource.sources, seen, "source")
           i == Inputs(resource.images, seen, "image")
           c == Inputs(resource.configs, seen, "config")
           p == MergeParams(template, blueprint.params, resource.params, owner.params).params
           d == GetDeployment(resource, seen)
           context == [workload |-> owner.name, deliverable |-> owner.name, params |-> p,
                       sources |-> s, images |-> i, configs |-> c, deployment |-> d,
                       source |-> OnlyOne(s), image |-> OnlyOne(i), config |-> OnlyOne(c)]
<1>1. Generate(template, blueprint, resource, owner, seen) = context
  BY Zenon DEF Generate, GetSources, GetImages, GetConfigs
<1>2. /\ InputsFrom(s, resource.sources, seen, "source") /\ InputsFrom(i, resource.images, seen, "image")
      /\ InputsFrom(c, resource.configs, seen, "config")
  BY InputsAre DEF InputsAreLists
<1> HIDE DEF s, i, c, p, d
<1>3. /\ DOMAIN context = {"workload", "deliverable", "params", "sources", "images", "configs", "deployment",
                           "source", "image", "config"}
      /\ context.params = p /\ context.workload # Nil /\ context.deliverable # Nil
      /\ context.source = OnlyOne(s) /\ context.image = OnlyOne(i) /\ context.config = OnlyOne(c)
      /\ context.sources = s /\ context.images = i /\ context.configs = c
  OBVIOUS
<1>4. DOMAIN Lists = {"source", "image", "config"} /\ Lists["source"] = "sources" /\ Lists["image"] = "images"
      /\ Lists["config"] = "configs"
  BY DEF Lists
<1> HIDE DEF context
<1>5. ContextOf(context, resource, seen, p)
  BY <1>2, <1>3, <1>4 DEF ContextOf
<1> QED BY <1>1, <1>5 DEF p

LEMMA ListsAre ==
    /\ DOMAIN Lists = {"source", "image", "config"}
    /\ Lists["source"] = "sources" /\ Lists["image"] = "images" /\ Lists["config"] = "configs"
BY DEF Lists

\* A tag that is interpolated is filled in with what was seen.
LEMMA TagIsFilled ==
    ASSUME NEW context, NEW resource, NEW d, ContextOf(context, resource, d.seen, d.params.params),
           NEW tag, WellFormedTag(tag), HasValueAt(context, tag.path)
    PROVE  FilledIn(resource, d, tag, ValueAt(context, tag.path))
<1> DEFINE value == ValueAt(context, tag.path)
           head == tag.path[1]
<1>1. ASSUME head = "params" PROVE tag.path[2] \in DOMAIN d.params.params /\ value = d.params.params[tag.path[2]]
  <2>1. Len(tag.path) = 2
    BY <1>1 DEF WellFormedTag
  <2> QED BY <1>1, <2>1 DEF HasValueAt, ValueAt, ContextOf
<1>2. ASSUME NEW field \in DOMAIN Lists, head \in {field, Lists[field]}
      PROVE  SuppliedBy(resource[Lists[field]], d.seen, field, tag.path, value)
  <2> DEFINE m == context[Lists[field]]
  <2>1. context[field] = OnlyOne(m) /\ InputsFrom(m, resource[Lists[field]], d.seen, field)
    BY DEF ContextOf
  <2>2. field \in {"source", "image", "config"} /\ Lists[field] \in {"sources", "images", "configs"}
    BY ListsAre
  <2> HIDE DEF m
  <2>3. CASE head = field
    <3>1. Len(tag.path) = 1
      BY <2>2, <2>3 DEF WellFormedTag
    <3>2. value = OnlyOne(m) /\ value # Nil
      BY <2>1, <2>2, <2>3, <3>1 DEF HasValueAt, ValueAt
    <3> HIDE DEF value
    <3> QED BY <2>1, <3>1, <3>2 DEF InputsFrom
  <2>4. CASE head = Lists[field]
    <3>1. Len(tag.path) = 2
      BY <2>2, <2>4 DEF WellFormedTag
    <3>2. tag.path[2] \in DOMAIN m /\ value = m[tag.path[2]]
      BY <2>4, <3>1 DEF HasValueAt, ValueAt, m
    <3> HIDE DEF value
    <3> QED BY <2>1, <3>1, <3>2 DEF InputsFrom
  <2> QED BY <1>2, <2>3, <2>4
<1> QED BY <1>1, <1>2 DEF FilledIn

\* The resources that a resource of a supply chain refers to have either the
\* output of the kind or none.
OutputsSuit(resource, seen) ==
    \A field \in DOMAIN Lists : \A i \in DOMAIN resource[Lists[field]] :
        LET name == resource[Lists[field]][i].resource
        IN HasOutput(seen, name, field) \/ Absent(seen, name)

LEMMA TagIsUnfilled ==
    ASSUME NEW context, NEW resource, InputsAreLists(resource), NEW d,
           ContextOf(context, resource, d.seen, d.params.params), OutputsSuit(resource, d.seen),
           NEW tag, WellFormedTag(tag), ~Interpolates(tag, context)
    PROVE  Unfilled(resource, d, tag)
<1> DEFINE value == ValueAt(context, tag.path)
           head == tag.path[1]
           has == HasValueAt(context, tag.path)
<1>1. has => ~tag.whole /\ value = Nil
  BY Zenon DEF Interpolates
<1>2. CASE head = "params"
  <2>1. Len(tag.path) = 2 /\ head \in DOMAIN context /\ context[head] = d.params.params
    BY <1>2 DEF WellFormedTag, ContextOf
  <2>2. has <=> tag.path[2] \in DOMAIN d.params.params
    BY <2>1 DEF HasValueAt
  <2>3. value = d.params.params[tag.path[2]]
    BY <2>1 DEF ValueAt
  <2> HIDE DEF value, has
  <2> QED BY <1>1, <1>2, <2>2, <2>3, Zenon DEF Unfilled
<1>3. CASE head = "deployment"
  <2>1. Len(tag.path) = 1 /\ head \in DOMAIN context
    BY <1>3 DEF WellFormedTag, ContextOf
  <2>2. has
    BY <1>3, <2>1 DEF HasValueAt
  <2> QED BY <1>1, <1>3, <2>2, Zenon DEF Unfilled
<1>4. CASE head \in {"workload", "deliverable"}
  <2>1. Len(tag.path) = 1 /\ head \in DOMAIN context /\ context[head] # Nil
    BY <1>4 DEF WellFormedTag, ContextOf
  <2>2. has /\ value # Nil
    BY <1>4, <2>1 DEF HasValueAt, ValueAt
  <2> QED BY <1>1, <2>2
<1>5. ASSUME NEW field \in DOMAIN Lists, head \in {field, Lists[field]}
      PROVE  Unfilled(resource, d, tag)
  <2> DEFINE m == context[Lists[field]]
             refs == resource[Lists[field]]
  <2>1. context[field] = OnlyOne(m) /\ InputsFrom(m, refs, d.seen, field)
    BY DEF ContextOf
  <2>2. field \in {"source", "image", "config"} /\ Lists[field] \in {"sources", "images", "configs"}
    BY ListsAre
  <2>3. head \in DOMAIN context
    BY <1>5, <2>2 DEF ContextOf
  <2>4. \A i \in DOMAIN refs : HasOutput(d.seen, refs[i].resource, field) \/ Absent(d.seen, refs[i].resource)
    BY DEF OutputsSuit
  <2>5. IsList(refs)
    BY ListsAre DEF InputsAreLists
  <2> HIDE DEF m, refs
  <2>6. CASE head = field
    <3>1. Len(tag.path) = 1
      BY <2>2, <2>6 DEF WellFormedTag
    <3>2. value = OnlyOne(m) /\ (has <=> value # Nil)
      BY <2>1, <2>2, <2>3, <2>6, <3>1 DEF HasValueAt, ValueAt
    <3>3. OnlyOne(m) = Nil
      BY <1>1, <3>2
    <3>4. Len(refs) = 1 => 1 \in DOMAIN refs
      BY <2>5, Grows
    <3>5. Len(refs) # 1 \/ Absent(d.seen, refs[1].resource)
      BY <2>1, <2>4, <3>3, <3>4 DEF InputsFrom
    <3> QED BY <2>6, <3>5, Zenon DEF Unfilled, refs
  <2>7. CASE head = Lists[field]
    <3>1. Len(tag.path) = 2
      BY <2>2, <2>7 DEF WellFormedTag
    <3>2. has <=> tag.path[2] \in DOMAIN m
      BY <2>3, <2>7, <3>1 DEF HasValueAt, m
    <3>3. value = m[tag.path[2]]
      BY <2>7, <3>1 DEF ValueAt, m
    <3>4. tag.path[2] \notin DOMAIN m
      <4> HIDE DEF value, has
      <4> QED BY <1>1, <2>1, <3>2, <3>3 DEF InputsFrom
    <3>5. \A i \in DOMAIN refs : refs[i].name = tag.path[2] => Absent(d.seen, refs[i].resource)
      BY <2>1, <2>4, <3>4 DEF InputsFrom
    <3> QED BY <2>7, <3>5, Zenon DEF Unfilled, refs
  <2> QED BY <1>5, <2>6, <2>7
<1>6. head \in {"params", "deployment", "workload", "deliverable"} \/ \E field \in DOMAIN Lists : head \in {field, Lists[field]}
  BY ListsAre DEF WellFormedTag
<1> QED BY <1>2, <1>3, <1>4, <1>5, <1>6

-----------------------------------------------------------------------------
\* The kind of template that has an output of a kind.
KindOf == [source |-> "ClusterSourceTemplate", image |-> "ClusterImageTemplate", config |-> "ClusterConfigTemplate"]

LEMMA KindsAre ==
    /\ DOMAIN KindOf = DOMAIN Lists
    /\ KindOf["source"] = "ClusterSourceTemplate" /\ KindOf["image"] = "ClusterImageTemplate"
    /\ KindOf["config"] = "ClusterConfigTemplate"
BY ListsAre DEF KindOf

\* An output of a template has what the kind of the template says, or nothing.
OfKind(out, kind) ==
    \A field \in DOMAIN Lists : KindOf[field] = kind => out \in {Nil, NoOutput} \/ out[field] # Nil

\* An output with one value.
Only(field, value) == [NoOutput EXCEPT ![field] = value]

LEMMA OneOutput ==
    ASSUME NEW value, NEW field \in DOMAIN Lists
    PROVE  OfKind(Only(field, value), KindOf[field])
<1> DEFINE out == [NoOutput EXCEPT ![field] = value]
<1>1. DOMAIN NoOutput = DOMAIN Lists /\ NoOutput[field] = Nil /\ NoOutput = [f \in DOMAIN Lists |-> Nil]
  BY ListsAre DEF NoOutput
<1>2. out[field] = value
  BY <1>1
<1>3. value = Nil => out = NoOutput
  BY <1>1
<1>4. \A f \in DOMAIN Lists : KindOf[f] = KindOf[field] => f = field
  BY ListsAre, KindsAre
<1> HIDE DEF out
<1> QED BY <1>2, <1>3, <1>4 DEF OfKind, Only, out

LEMMA ReadOutputOfKind ==
    ASSUME NEW template, template.kind \in TemplateKinds, NEW object, NEW deployment
    PROVE  OfKind(ReadOutput(template, object, deployment).out, template.kind)
<1> DEFINE read == ReadOutput(template, object, deployment)
<1>1. \A kind : OfKind(Nil, kind)
  BY DEF OfKind
<1>2. \A err : Failed(err).out = Nil
  BY DEF Failed
<1>3. \A out : Read(out).out = out
  BY DEF Read
<1>4. CASE template.kind = "ClusterSourceTemplate"
  <2>1. read \in {Failed("JsonPathError"), SourceOutput(template, object)}
    BY <1>4 DEF ReadOutput
  <2>2. SourceOutput(template, object).out = Nil
        \/ \E v : SourceOutput(template, object).out = Only("source", v)
    <3> DEFINE v == [url |-> EvaluateJsonPath(SourceTemplatePaths(template).url, object.fields).value,
                     revision |-> EvaluateJsonPath(SourceTemplatePaths(template).revision, object.fields).value]
    <3>1. SourceOutput(template, object) = Failed("JsonPathError")
          \/ SourceOutput(template, object) = Read(Only("source", v))
      BY Zenon DEF SourceOutput, Only
    <3> HIDE DEF v
    <3> QED BY <1>2, <1>3, <3>1
  <2>3. \A v : OfKind(Only("source", v), "ClusterSourceTemplate")
    BY OneOutput, ListsAre, KindsAre
  <2> HIDE DEF read
  <2> QED BY <1>1, <1>2, <1>4, <2>1, <2>2, <2>3 DEF read
<1>5. CASE template.kind = "ClusterImageTemplate"
  <2>1. read \in {Failed("JsonPathError"), ImageOutput(template, object)}
    BY <1>5 DEF ReadOutput
  <2>2. ImageOutput(template, object).out = Nil
        \/ \E v : ImageOutput(template, object).out = Only("image", v)
    <3> DEFINE v == EvaluateJsonPath(ImageTemplatePaths(template).image, object.fields).value
    <3>1. ImageOutput(template, object) = Failed("JsonPathError")
          \/ ImageOutput(template, object) = Read(Only("image", v))
      BY Zenon DEF ImageOutput, Only
    <3> HIDE DEF v
    <3> QED BY <1>2, <1>3, <3>1
  <2>3. \A v : OfKind(Only("image", v), "ClusterImageTemplate")
    BY OneOutput, ListsAre, KindsAre
  <2> HIDE DEF read
  <2> QED BY <1>1, <1>2, <1>5, <2>1, <2>2, <2>3 DEF read
<1>6. CASE template.kind = "ClusterConfigTemplate"
  <2>1. read \in {Failed("JsonPathError"), ConfigOutput(template, object)}
    BY <1>6 DEF ReadOutput
  <2>2. ConfigOutput(template, object).out = Nil
        \/ \E v : ConfigOutput(template, object).out = Only("config", v)
    <3> DEFINE v == EvaluateJsonPath(ConfigTemplatePaths(template).config, object.fields).value
    <3>1. ConfigOutput(template, object) = Failed("JsonPathError")
          \/ ConfigOutput(template, object) = Read(Only("config", v))
      BY Zenon DEF ConfigOutput, Only
    <3> HIDE DEF v
    <3> QED BY <1>2, <1>3, <3>1
  <2>3. \A v : OfKind(Only("config", v), "ClusterConfigTemplate")
    BY OneOutput, ListsAre, KindsAre
  <2> HIDE DEF read
  <2> QED BY <1>1, <1>2, <1>6, <2>1, <2>2, <2>3 DEF read
<1>7. CASE template.kind \in {"ClusterTemplate", "ClusterDeploymentTemplate"}
  <2> HIDE DEF read
  <2> QED BY <1>7, ListsAre, KindsAre DEF OfKind, read
<1> QED BY <1>4, <1>5, <1>6, <1>7 DEF TemplateKinds, SupplyChainKinds, DeliveryKinds

LEMMA PassThroughOfKind ==
    ASSUME NEW resource, resource.kind \in TemplateKinds, NEW pass, NEW seen
    PROVE  OfKind(NewPassThroughReader(resource, pass, seen).out, resource.kind)
<1> DEFINE read == NewPassThroughReader(resource, pass, seen)
<1>1. \A kind : OfKind(Nil, kind)
  BY DEF OfKind
<1>2. \A inputs, field : PassThroughOutput(inputs, pass, field).out \in {Nil, Only(field, inputs[pass])}
  BY DEF PassThroughOutput, Failed, Read, Only
<1>3. \A v : /\ OfKind(Only("source", v), "ClusterSourceTemplate")
             /\ OfKind(Only("image", v), "ClusterImageTemplate")
             /\ OfKind(Only("config", v), "ClusterConfigTemplate")
  BY OneOutput, ListsAre, KindsAre
<1>4. CASE resource.kind = "ClusterSourceTemplate"
  <2>1. read = PassThroughOutput(GetSources(resource, seen), pass, "source")
    BY <1>4 DEF NewPassThroughReader
  <2> HIDE DEF read
  <2> QED BY <1>1, <1>2, <1>3, <1>4, <2>1 DEF read
<1>5. CASE resource.kind = "ClusterImageTemplate"
  <2>1. read = PassThroughOutput(GetImages(resource, seen), pass, "image")
    BY <1>5 DEF NewPassThroughReader
  <2> HIDE DEF read
  <2> QED BY <1>1, <1>2, <1>3, <1>5, <2>1 DEF read
<1>6. CASE resource.kind = "ClusterConfigTemplate"
  <2>1. read = PassThroughOutput(GetConfigs(resource, seen), pass, "config")
    BY <1>6 DEF NewPassThroughReader
  <2> HIDE DEF read
  <2> QED BY <1>1, <1>2, <1>3, <1>6, <2>1 DEF read
<1>7. CASE resource.kind \in {"ClusterTemplate", "ClusterDeploymentTemplate"}
  <2> HIDE DEF read
  <2> QED BY <1>7, ListsAre, KindsAre DEF OfKind, read
<1> QED BY <1>4, <1>5, <1>6, <1>7 DEF TemplateKinds, SupplyChainKinds, DeliveryKinds

\* An input that the webhook knows can be passed through as soon as there is an
\* output.
LEMMA PassThroughFails ==
    ASSUME NEW c, ValidatePassThroughs(c), NEW r \in DOMAIN c.resources, NEW i \in DOMAIN c.resources[r].options,
           c.resources[r].options[i].pass # Nil, InputsAreLists(c.resources[r]), NEW seen,
           NewPassThroughReader(c.resources[r], c.resources[r].options[i].pass, seen).err # "none"
    PROVE  \E field \in DOMAIN Lists : \E j \in DOMAIN c.resources[r][Lists[field]] :
              ~HasOutput(seen, c.resources[r][Lists[field]][j].resource, field)
<1> DEFINE resource == c.resources[r]
           pass == resource.options[i].pass
           read == NewPassThroughReader(resource, pass, seen)
<1>1. ASSUME NEW field \in DOMAIN Lists, IsPassThroughInputFound(resource[Lists[field]], pass),
             read = PassThroughOutput(Inputs(resource[Lists[field]], seen, field), pass, field)
      PROVE  \E j \in DOMAIN resource[Lists[field]] : ~HasOutput(seen, resource[Lists[field]][j].resource, field)
  <2> DEFINE refs == resource[Lists[field]]
             m == Inputs(refs, seen, field)
  <2>1. IsList(refs)
    BY ListsAre DEF InputsAreLists
  <2>2. InputsFrom(m, refs, seen, field)
    BY <2>1, InputsAre
  <2>3. PICK j \in DOMAIN refs : refs[j].name = pass
    BY <1>1 DEF IsPassThroughInputFound
  <2>5. read.err # "none" /\ read = PassThroughOutput(m, pass, field)
    BY <1>1
  <2> HIDE DEF m, refs, pass, read
  <2>6. pass \in DOMAIN m => PassThroughOutput(m, pass, field) = Read(Only(field, m[pass]))
    BY Zenon DEF PassThroughOutput, Only
  <2>7. \A out : Read(out).err = "none"
    BY DEF Read
  <2>4. pass \notin DOMAIN m
    BY <2>5, <2>6, <2>7
  <2> QED BY <2>2, <2>3, <2>4 DEF InputsFrom, refs
<1>2. \/ resource.kind = "ClusterSourceTemplate" /\ IsPassThroughInputFound(resource.sources, pass)
      \/ resource.kind = "ClusterImageTemplate" /\ IsPassThroughInputFound(resource.images, pass)
      \/ resource.kind = "ClusterConfigTemplate" /\ IsPassThroughInputFound(resource.configs, pass)
  BY DEF ValidatePassThroughs
<1>3. CASE resource.kind = "ClusterSourceTemplate" /\ IsPassThroughInputFound(resource.sources, pass)
  <2>1. read = PassThroughOutput(Inputs(resource.sources, seen, "source"), pass, "source")
    BY <1>3 DEF NewPassThroughReader, GetSources
  <2> HIDE DEF read, resource, pass
  <2> QED BY <1>1, <1>3, <2>1, ListsAre DEF resource
<1>4. CASE resource.kind = "ClusterImageTemplate" /\ IsPassThroughInputFound(resource.images, pass)
  <2>1. read = PassThroughOutput(Inputs(resource.images, seen, "image"), pass, "image")
    BY <1>4 DEF NewPassThroughReader, GetImages
  <2> HIDE DEF read, resource, pass
  <2> QED BY <1>1, <1>4, <2>1, ListsAre DEF resource
<1>5. CASE resource.kind = "ClusterConfigTemplate" /\ IsPassThroughInputFound(resource.configs, pass)
  <2>1. read = PassThroughOutput(Inputs(resource.configs, seen, "config"), pass, "config")
    BY <1>5 DEF NewPassThroughReader, GetConfigs
  <2> HIDE DEF read, resource, pass
  <2> QED BY <1>1, <1>5, <2>1, ListsAre DEF resource
<1> QED BY <1>2, <1>3, <1>4, <1>5

-----------------------------------------------------------------------------
\* What is in the cache was persisted as it was submitted.
CacheIsSubmitted(r) ==
    /\ {"objects", "cache"} \subseteq DOMAIN r
    /\ \A k \in DOMAIN r.cache : r.cache[k].submitted = r.cache[k].persisted

\* What Do makes of a template and of what was stamped from it.
StampedAs(d, template, stamped) ==
    /\ d.template = template
    /\ d.err # Nil /\ d.err.type = "StampError" => stamped = Nil
    /\ d.object # Nil => stamped # Nil /\ d.object.stamped.spec = stamped.spec
    /\ OfKind(d.out, template.kind)

DoneAs(d, resource, chosen, template, stamped, seen) ==
    \/ chosen.pass = Nil /\ d.template = Nil /\ d.object = Nil /\ d.out = Nil /\ d.err.type # "StampError"
    \/ chosen.pass # Nil /\ d = Returned(Nil, Nil, NewPassThroughReader(resource, chosen.pass, seen), FALSE)
    \/ chosen.err = "none" /\ chosen.pass = Nil /\ StampedAs(d, template, stamped)

LEMMA DoDoes ==
    ASSUME CacheIsSubmitted(repo), NEW resource, NEW chosen, NEW fate, NEW template, ReadFor(chosen, template),
           chosen.err = "none" /\ chosen.pass = Nil => template.kind \in TemplateKinds
    PROVE  DoneAs(Do(resource, chosen, fate), resource, chosen, template,
                  StampFromTemplate(template, resource, fate), outs)
<1> DEFINE d == Do(resource, chosen, fate)
           stamped == StampFromTemplate(template, resource, fate)
           deployment == GetDeployment(resource, outs)
           reader == NewReaderFromAPI(given.templates[chosen.tmpl])
           As(x) == StampedAs(x, template, stamped)
<1>0. \A type, cause, forbidden, isStamped : Error(type, cause, forbidden, isStamped).type = type
  BY DEF Error
<1>1. CASE chosen.err # "none"
  <2>0. chosen.err = "wrapError" /\ chosen.pass = Nil
    BY <1>1 DEF ReadFor
  <2> DEFINE e == Error("wrapError", "option", FALSE, FALSE)
  <2>1. d = Refused(Nil, e)
    BY <1>1, <2>0, Zenon DEF Do
  <2>3. e.type = "wrapError"
    BY <1>0
  <2> HIDE DEF d, stamped, e
  <2>2. d.template = Nil /\ d.object = Nil /\ d.out = Nil /\ d.err.type # "StampError"
    BY <2>1, <2>3 DEF Refused
  <2> QED BY <2>0, <2>2 DEF DoneAs, d, stamped
<1>2. CASE chosen.err = "none" /\ chosen.pass # Nil
  <2>1. d = Returned(Nil, Nil, NewPassThroughReader(resource, chosen.pass, outs), FALSE)
    BY <1>2, Zenon DEF Do, DoPassThrough
  <2> HIDE DEF d, stamped
  <2> QED BY <1>2, <2>1, Zenon DEF DoneAs, d, stamped
<1>3. CASE chosen.err = "none" /\ chosen.pass = Nil
  <2>0. reader = template /\ template.kind \in TemplateKinds
    BY <1>3 DEF ReadFor
  <2>1. d = IF fate.what = "gone" THEN Refused(Nil, Error("GetTemplateError", "API", FALSE, FALSE))
            ELSE DoStamped(template, stamped, fate, deployment)
    BY <1>3, <2>0 DEF Do
  <2>2. CASE fate.what = "gone"
    <3> DEFINE e == Error("GetTemplateError", "API", FALSE, FALSE)
    <3>1. d = Refused(Nil, e)
      BY <2>1, <2>2
    <3>3. e.type = "GetTemplateError"
      BY <1>0
    <3> HIDE DEF d, stamped, e
    <3>2. d.template = Nil /\ d.object = Nil /\ d.out = Nil /\ d.err.type # "StampError"
      BY <3>1, <3>3 DEF Refused
    <3> QED BY <1>3, <3>2 DEF DoneAs, d, stamped
  <2>3. CASE fate.what # "gone"
    <3>1. \A kind : OfKind(Nil, kind)
      BY DEF OfKind
    <3>2. ASSUME NEW e, e.type = "StampError" => stamped = Nil PROVE As(Refused(template, e))
      <4> DEFINE x == Refused(template, e)
      <4>1. x.template = template /\ x.err = e /\ x.object = Nil /\ x.out = Nil
        BY DEF Refused
      <4> HIDE DEF x, stamped
      <4> QED BY <3>1, <3>2, <4>1 DEF StampedAs, x
    <3>3. ASSUME stamped # Nil, NEW object, object.stamped.spec = stamped.spec, NEW from
          PROVE  As(Returned(template, object, ReadOutput(template, from, deployment), TRUE))
      <4> DEFINE read == ReadOutput(template, from, deployment)
                 x == Returned(template, object, read, TRUE)
      <4>1. OfKind(read.out, template.kind)
        BY <2>0, ReadOutputOfKind
      <4> DEFINE e == Error("RetrieveOutputError", read.err, FALSE, TRUE)
      <4>3. e.type = "RetrieveOutputError"
        BY <1>0
      <4> HIDE DEF read, stamped
      <4>2. x.template = template /\ x.object = object /\ x.out = read.out /\ (x.err = Nil \/ x.err = e)
        BY DEF Returned
      <4> HIDE DEF x, e
      <4> QED BY <3>3, <4>1, <4>2, <4>3 DEF StampedAs, x, read
    <3>4. As(Refused(template, ApplyError(fate))) /\ As(Refused(template, Error("ListCreatedObjectsError", "API", FALSE, FALSE)))
      <4>1. ApplyError(fate).type = "ApplyStampedObjectError"
        BY DEF ApplyError, Error
      <4> HIDE DEF As, stamped
      <4> QED BY <1>0, <3>2, <4>1
    <3>5. stamped = Nil => As(Refused(template, Error("StampError", "stamp", FALSE, FALSE)))
      <4> HIDE DEF As, stamped
      <4> QED BY <3>2
    <3> DEFINE object == [stamped |-> stamped, fields |-> fate.fields, conds |-> fate.conds, born |-> fate.born]
    <3>6. /\ object.stamped = stamped /\ DOMAIN object = {"stamped", "fields", "conds", "born"}
      <4> HIDE DEF stamped
      <4> QED OBVIOUS
    <3>7. ASSUME stamped # Nil PROVE As(DoImmutable(template, object, fate, deployment))
      <4> HIDE DEF As, stamped, object, deployment
      <4> QED BY <3>3, <3>4, <3>6, <3>7 DEF DoImmutable
    <3>8. ASSUME stamped # Nil PROVE As(DoMutable(template, object, fate, deployment))
      <4> DEFINE kept == EnsureMutable(object.stamped).object
                 ensured == [object EXCEPT !.stamped = kept]
      <4>1. DoMutable(template, object, fate, deployment) =
              IF fate.what \in {"rejected", "forbidden"} THEN Refused(template, ApplyError(fate))
              ELSE Returned(template, ensured, ReadOutput(template, ensured, deployment), TRUE)
        BY Zenon DEF DoMutable
      <4>2. kept.spec = stamped.spec
        <5> HIDE DEF stamped, object
        <5>1. kept = EnsureMutable(stamped).object
          BY <3>6
        <5>2. CASE EnsureMutable(stamped).object = stamped
          BY <5>1, <5>2
        <5>3. CASE EnsureMutable(stamped).object # stamped
          <6>1. kept = GetUnstructured(stamped) /\ UnchangedSinceCached(stamped, GetUnstructured(stamped))
            BY <5>1, <5>3 DEF EnsureMutable
          <6> QED BY <6>1 DEF UnchangedSinceCached, CacheIsSubmitted
        <5> QED BY <5>2, <5>3
      <4>3. ensured.stamped = kept
        <5> HIDE DEF kept, object
        <5> QED BY <3>6
      <4> HIDE DEF As, stamped, object, deployment, kept, ensured
      <4> QED BY <3>3, <3>4, <3>8, <4>1, <4>2, <4>3
    <3>9. DoStamped(template, stamped, fate, deployment) =
            IF stamped = Nil THEN Refused(template, Error("StampError", "stamp", FALSE, FALSE))
            ELSE IF IsImmutable(template) THEN DoImmutable(template, object, fate, deployment)
            ELSE DoMutable(template, object, fate, deployment)
      BY Zenon DEF DoStamped
    <3>10. As(d)
      <4> HIDE DEF As, stamped, object, deployment, d
      <4> QED BY <2>1, <2>3, <3>5, <3>7, <3>8, <3>9
    <3> HIDE DEF d, stamped
    <3> QED BY <1>3, <3>10, Zenon DEF DoneAs, d, stamped, As
  <2> QED BY <2>2, <2>3
<1> QED BY <1>1, <1>2, <1>3

-----------------------------------------------------------------------------
\* What the reader of a template leaves as it is.
LEMMA ReaderKeeps ==
    ASSUME NEW t, WellFormedTemplate(t)
    PROVE  /\ Reader(t).kind = t.kind /\ Reader(t).form = t.form /\ Reader(t).ns = t.ns
           /\ Reader(t).params = t.params /\ Reader(t).tags = t.tags
<1> DEFINE a == [t EXCEPT !.life = ConvertLifecycle(t.life)]
           b == [a EXCEPT !.rule = GetHealthRule(t)]
           c == [b EXCEPT !.retention = GetRetentionPolicy(t)]
           Same(x) == /\ DOMAIN x = DOMAIN t
                      /\ \A f \in {"kind", "form", "ns", "params", "tags"} : x[f] = t[f]
<1>1. Reader(t) = c
  BY Zenon DEF Reader
<1>2. {"kind", "rule", "life", "retention", "form", "ns", "params", "tags"} \subseteq DOMAIN t
  BY DEF WellFormedTemplate
<1>3. Same(a)
  BY <1>2
<1> HIDE DEF a
<1>4. Same(b)
  BY <1>2, <1>3
<1> HIDE DEF b
<1>5. Same(c)
  BY <1>2, <1>4
<1> HIDE DEF c
<1> QED BY <1>1, <1>5

\* A template that the webhooks let in.
Stampable(template) ==
    template.form \in {"template", "ytt"} /\ (template.form = "template" => ~template.ns)

\* What Stamp makes of such a template.
StampedFrom(stamped, template, context) ==
    /\ stamped # Nil => /\ stamped.spec = Interpolate(template, context)
                        /\ \A tag \in template.tags : Interpolates(tag, context)
    /\ stamped = Nil => template.form = "ytt" \/ \E tag \in template.tags : ~Interpolates(tag, context)

LEMMA StampGives ==
    ASSUME NilIsNoRecord, NEW template, Stampable(template), NEW context, NEW owner, NEW labels, NEW yttRuns
    PROVE  StampedFrom(Stamp(template, context, owner, labels, yttRuns), template, context)
<1> DEFINE spec == Interpolate(template, context)
           object == [ns |-> owner.ns, owner |-> owner.name, labels |-> labels, hasSpec |-> template.hasSpec,
                      spec |-> spec]
           stamped == Stamp(template, context, owner, labels, yttRuns)
           fills == \A tag \in template.tags : Interpolates(tag, context)
           refused == \/ template.form \notin {"template", "ytt"}
                      \/ template.form = "ytt" /\ ~yttRuns
                      \/ \E tag \in template.tags : ~Interpolates(tag, context)
                      \/ template.ns
<1>1. stamped = IF refused THEN Nil ELSE object
  BY Zenon DEF Stamp
<1>2. object # Nil
  BY DEF NilIsNoRecord
<1>3. object.spec = spec
  OBVIOUS
<1>4. refused => template.form = "ytt" \/ ~fills
  BY Zenon DEF Stampable
<1>5. ~refused => fills
  BY Zenon
<1> HIDE DEF object, spec, stamped, refused
<1>6. (stamped # Nil => stamped.spec = spec /\ fills) /\ (stamped = Nil => template.form = "ytt" \/ ~fills)
  BY <1>1, <1>2, <1>3, <1>4, <1>5
<1> QED BY <1>6, Zenon DEF StampedFrom, stamped, spec

\* A resource with a template.
LEMMA RealizedWithTemplate ==
    ASSUME NEW c, NEW owner, NEW resource, InputsAreLists(resource), NEW d, ~d.pass,
           ParamsInForce(d.params, d.template.params, c.params \o resource.params, owner.params),
           c.kind = "ClusterSupplyChain" => OutputsSuit(resource, d.seen),
           NEW context, ContextOf(context, resource, d.seen, d.params.params),
           \A tag \in d.template.tags : WellFormedTag(tag),
           NEW stamped, StampedFrom(stamped, d.template, context),
           d.object # Nil => stamped # Nil /\ d.object.stamped.spec = stamped.spec,
           d.err # Nil /\ d.err.type = "StampError" => stamped = Nil
    PROVE  Realizable(c, owner, resource, d)
<1>1. ASSUME d.object # Nil, NEW tag \in DOMAIN d.object.stamped.spec
      PROVE  FilledIn(resource, d, tag, d.object.stamped.spec[tag])
  <2>1. d.object.stamped.spec = Interpolate(d.template, context) /\ \A g \in d.template.tags : Interpolates(g, context)
    BY <1>1 DEF StampedFrom
  <2>2. tag \in d.template.tags /\ d.object.stamped.spec[tag] = ValueAt(context, tag.path)
    BY <1>1, <2>1 DEF Interpolate
  <2>3. HasValueAt(context, tag.path)
    BY <2>1, <2>2, Zenon DEF Interpolates
  <2>4. FilledIn(resource, d, tag, ValueAt(context, tag.path))
    BY <2>2, <2>3, TagIsFilled
  <2> QED BY <2>2, <2>4
<1>2. ASSUME d.err # Nil, d.err.type = "StampError", c.kind = "ClusterSupplyChain", d.template.form # "ytt"
      PROVE  \E tag \in d.template.tags : Unfilled(resource, d, tag)
  <2>1. PICK tag \in d.template.tags : ~Interpolates(tag, context)
    BY <1>2 DEF StampedFrom
  <2>2. Unfilled(resource, d, tag)
    BY <1>2, <2>1, TagIsUnfilled
  <2> QED BY <2>2
<1> QED BY <1>1, <1>2, Zenon DEF Realizable

-----------------------------------------------------------------------------
\* What is known under a name is an output of a resource of that name.
KindsKept(c, seen) ==
    \A name \in DOMAIN seen : \E j \in DOMAIN c.resources :
        c.resources[j].name = name /\ OfKind(seen[name], c.resources[j].kind)

\* The references of a supply chain were looked up.
LEMMA ReferencesSuit ==
    ASSUME NEW c, IsList(c.resources), AdmitBlueprint(c), c.kind = "ClusterSupplyChain",
           NEW seen, KindsKept(c, seen), NEW r \in DOMAIN c.resources
    PROVE  OutputsSuit(c.resources[r], seen)
<1> DEFINE resource == c.resources[r]
<1>1. /\ ValidateResourceRefs(c, resource.sources, "ClusterSourceTemplate")
      /\ ValidateResourceRefs(c, resource.images, "ClusterImageTemplate")
      /\ ValidateResourceRefs(c, resource.configs, "ClusterConfigTemplate")
      /\ ValidateResourceNamesUnique(c)
  BY DEF AdmitBlueprint, AdmitSupplyChain, ValidateBlueprint
<1>2. \A i, j \in DOMAIN c.resources : c.resources[i].name = c.resources[j].name => i = j
  BY <1>1 DEF ValidateResourceNamesUnique, Distinct
<1> HIDE DEF resource
<1>3. ASSUME NEW field \in DOMAIN Lists, NEW i \in DOMAIN resource[Lists[field]]
      PROVE  LET name == resource[Lists[field]][i].resource
             IN HasOutput(seen, name, field) \/ Absent(seen, name)
  <2> DEFINE refs == resource[Lists[field]]
             name == refs[i].resource
             found == {s \in DOMAIN c.resources : c.resources[s].name = name}
  <2>1. ValidateResourceRefs(c, refs, KindOf[field])
    BY <1>1, ListsAre, KindsAre
  <2>2. GetResourceByName(c, name).kind = KindOf[field]
    <3> HIDE DEF refs
    <3> QED BY <1>3, <2>1 DEF ValidateResourceRefs, refs
  <2> SUFFICES ASSUME name \in DOMAIN seen PROVE HasOutput(seen, name, field) \/ Absent(seen, name)
    BY DEF Absent
  <2>3. PICK j \in DOMAIN c.resources : c.resources[j].name = name /\ OfKind(seen[name], c.resources[j].kind)
    BY DEF KindsKept
  <2> HIDE DEF name
  <2>4. found = {j}
    BY <1>2, <2>3
  <2>5. j \in Nat
    BY Grows
  <2>6. (CHOOSE s \in found : \A q \in found : s <= q) = j
    BY <2>4, <2>5
  <2>7. GetResourceByName(c, name) = c.resources[j]
    BY <2>4, <2>6 DEF GetResourceByName
  <2>8. seen[name] \in {Nil, NoOutput} \/ seen[name][field] # Nil
    BY <2>2, <2>3, <2>7 DEF OfKind
  <2> QED BY <2>8 DEF HasOutput, Absent
<1> QED BY <1>3, Zenon DEF OutputsSuit, resource

\* What the case says of the resources of an admitted blueprint.
LEMMA AdmittedIsListed ==
    ASSUME Given, NEW c \in ToSet(AdmittedBlueprints), NEW r \in DOMAIN c.resources
    PROVE  /\ AdmitBlueprint(c) /\ IsList(c.resources) /\ IsList(c.params) /\ IsList(c.resources[r].params)
           /\ InputsAreLists(c.resources[r]) /\ IsList(Owner.params) /\ Owner.name # Nil
           /\ \A i \in DOMAIN c.params : ValidateParam(c.params[i])
           /\ \A i \in DOMAIN c.resources[r].params : ValidateParam(c.resources[r].params[i])
           /\ ValidatePassThroughs(c)
<1>1. c \in ToSet(given.blueprints) /\ AdmitBlueprint(c) /\ Owner \in ToSet(given.owners)
  BY AdmittedAreAdmitted DEF ToSet
<1>2. /\ c.params \in Seq(ToSet(c.params)) /\ c.resources \in Seq(ToSet(c.resources))
      /\ WellFormedResource(c.resources[r], given.owners)
      /\ Owner.name # Nil /\ Owner.params \in Seq(ToSet(Owner.params))
  BY <1>1, CasesAssumption DEF Given
<1>3. IsList(c.params) /\ IsList(c.resources) /\ IsList(Owner.params)
  BY <1>2 DEF IsList
<1>4. InputsAreLists(c.resources[r]) /\ IsList(c.resources[r].params)
  BY <1>2 DEF WellFormedResource, InputsAreLists, IsList
<1>5. ValidateBlueprint(c)
  BY <1>1 DEF AdmitBlueprint, AdmitSupplyChain, AdmitDelivery
<1>6. ValidateParams(c) /\ ValidatePassThroughs(c)
  BY <1>5 DEF ValidateBlueprint
<1> QED BY <1>1, <1>2, <1>3, <1>4, <1>6 DEF ValidateParams

\* The template that Do reads for a resource, as its reader shows it.
ShownFor(template, resource) ==
    /\ template # Nil /\ template.kind = resource.kind /\ template.kind \in TemplateKinds
    /\ Stampable(template) /\ IsList(template.params) /\ \A tag \in template.tags : WellFormedTag(tag)

LEMMA TemplateIsShown ==
    ASSUME NilIsNoRecord, Given, NEW c \in ToSet(AdmittedBlueprints), NEW r \in DOMAIN c.resources, TemplatesFound(c),
           NEW chosen, chosen = GetTemplateNameFromResource(Owner, c.resources[r]),
           chosen.err = "none", chosen.pass = Nil
    PROVE  ShownFor(NewReaderFromAPI(given.templates[chosen.tmpl]), c.resources[r])
<1> DEFINE t == given.templates[chosen.tmpl]
           shown == Reader(t)
<1>1. /\ chosen.tmpl \in DOMAIN given.templates /\ t.kind = c.resources[r].kind /\ t.kind \in TemplateKinds
      /\ AdmitTemplate(t)
  BY TemplateOfTheResource
<1>2. WellFormedTemplate(t)
  BY <1>1, CasesAssumption DEF Given
<1> HIDE DEF t
<1>3. ValidateTemplateSpec(t)
  BY <1>1 DEF AdmitTemplate, TemplateKinds, SupplyChainKinds, DeliveryKinds, AdmitSourceTemplate, AdmitImageTemplate,
              AdmitConfigTemplate, AdmitClusterTemplate, AdmitDeploymentTemplate
<1>4. /\ shown.kind = t.kind /\ shown.form = t.form /\ shown.ns = t.ns /\ shown.params = t.params
      /\ shown.tags = t.tags
  BY <1>2, ReaderKeeps
<1>5. {"kind", "rule", "life", "retention"} \subseteq DOMAIN t
  BY <1>2 DEF WellFormedTemplate
<1>6. shown # Nil /\ NewReaderFromAPI(t) = shown
  BY <1>1, <1>5, ReaderShows
<1> HIDE DEF shown
<1>7. Stampable(shown)
  BY <1>3, <1>4, Zenon DEF ValidateTemplateSpec, Stampable
<1>8. IsList(shown.params) /\ \A tag \in shown.tags : WellFormedTag(tag)
  BY <1>2, <1>4 DEF WellFormedTemplate, IsList
<1>9. ShownFor(shown, c.resources[r])
  BY <1>1, <1>4, <1>6, <1>7, <1>8, Zenon DEF ShownFor
<1> QED BY <1>6, <1>9 DEF t

\* What a turn of Realize records of a resource.
LEMMA TurnIsRealizable ==
    ASSUME NilIsNoRecord, Given, CacheIsSubmitted(repo), chain \in ToSet(AdmittedBlueprints), TemplatesFound(chain),
           KindsKept(chain, outs), NEW r \in DOMAIN chain.resources,
           NEW resource, resource = chain.resources[r],
           NEW chosen, chosen = GetTemplateNameFromResource(Owner, resource), NEW fate,
           NEW result, result = Result(Do(resource, chosen, fate), resource, chosen)
    PROVE  Realizable(chain, Owner, resource, result) /\ OfKind(result.out, resource.kind)
<1> DEFINE d == Do(resource, chosen, fate)
           template == NewReaderFromAPI(given.templates[chosen.tmpl])
           stamped == StampFromTemplate(template, resource, fate)
           params == MergeParams(template, chain.params, resource.params, Owner.params)
           read == chosen.err = "none" /\ chosen.pass = Nil
           Goal == Realizable(chain, Owner, resource, result) /\ OfKind(result.out, resource.kind)
<1>1. /\ AdmitBlueprint(chain) /\ IsList(chain.resources) /\ IsList(chain.params) /\ IsList(resource.params)
      /\ InputsAreLists(resource) /\ IsList(Owner.params) /\ Owner.name # Nil
      /\ \A i \in DOMAIN chain.params : ValidateParam(chain.params[i])
      /\ \A i \in DOMAIN resource.params : ValidateParam(resource.params[i])
      /\ ValidatePassThroughs(chain)
  <2> HIDE DEF d, template, stamped, params
  <2> QED BY AdmittedIsListed
<1>2. resource.kind \in TemplateKinds
  <2> HIDE DEF d, template, stamped, params
  <2> QED BY <1>1, AdmittedIsValid
<1>3. chain.kind = "ClusterSupplyChain" => OutputsSuit(resource, outs)
  <2> HIDE DEF d, template, stamped, params
  <2> QED BY <1>1, ReferencesSuit
<1>4. chosen.err \in {"none", "wrapError"} /\ (chosen.err # "none" => chosen.pass = Nil)
  <2> HIDE DEF d
  <2>1. chosen.err \in {"none", "wrapError"}
    BY TemplateNameErrors
  <2> QED BY <2>1 DEF GetTemplateNameFromResource, TemplateNameOf
<1>5. read => ShownFor(template, resource)
  <2> HIDE DEF d, template, stamped, params
  <2> QED BY TemplateIsShown DEF template
<1>6. DoneAs(d, resource, chosen, template, stamped, outs)
  <2> HIDE DEF d, stamped, params
  <2>1. read => template # Nil /\ template.kind \in TemplateKinds
    BY <1>5 DEF ShownFor
  <2>2. ReadFor(chosen, template)
    BY <1>4, <2>1 DEF ReadFor
  <2> QED BY <2>1, <2>2, DoDoes, Zenon DEF d, stamped
<1>7. /\ result.template = d.template /\ result.object = d.object /\ result.out = d.out /\ result.err = d.err
      /\ result.seen = outs
      /\ result.params = IF d.template = Nil THEN Nil ELSE MergeParams(d.template, chain.params, resource.params, Owner.params)
  <2> HIDE DEF d
  <2> QED BY DEF Result, d
<1>8. result.pass <=> chosen.pass # Nil
  <2>1. result.pass = (chosen.pass # Nil)
    BY Zenon DEF Result
  <2> QED BY <2>1, Zenon
<1> HIDE DEF d, template, stamped, params
<1>9. \A kind : OfKind(Nil, kind)
  BY DEF OfKind
<1>10. ASSUME chosen.pass = Nil, d.template = Nil, d.object = Nil, d.out = Nil, d.err.type # "StampError"
       PROVE  Goal
  <2>1. result.params = Nil /\ result.object = Nil /\ ~result.pass /\ result.err.type # "StampError" /\ result.out = Nil
    BY <1>7, <1>8, <1>10, Zenon
  <2> QED BY <1>9, <2>1, Zenon DEF Realizable
<1>11. ASSUME chosen.pass # Nil, d = Returned(Nil, Nil, NewPassThroughReader(resource, chosen.pass, outs), FALSE)
       PROVE  Goal
  <2> DEFINE passed == NewPassThroughReader(resource, chosen.pass, outs)
             e == Error("RetrieveOutputError", passed.err, FALSE, FALSE)
  <2>1. OfKind(passed.out, resource.kind)
    BY <1>2, PassThroughOfKind
  <2>2. e.type = "RetrieveOutputError"
    BY DEF Error
  <2>3. passed.err # "none" => \E field \in DOMAIN Lists : \E j \in DOMAIN resource[Lists[field]] :
                                  ~HasOutput(outs, resource[Lists[field]][j].resource, field)
    <3> HIDE DEF passed
    <3>1. resource.options # <<>>
      BY <1>11 DEF GetTemplateNameFromResource
    <3>2. PICK i \in DOMAIN resource.options : chosen.pass = resource.options[i].pass
      BY <1>4, <1>11, <3>1, OptionChoice
    <3> QED BY <1>1, <1>11, <3>2, PassThroughFails DEF passed
  <2>4. d.template = Nil /\ d.object = Nil /\ d.out = passed.out /\ d.err = IF passed.err = "none" THEN Nil ELSE e
    <3>1. d = Returned(Nil, Nil, passed, FALSE)
      BY <1>11
    <3> HIDE DEF passed
    <3> QED BY <3>1 DEF Returned
  <2> HIDE DEF passed, e
  <2>5. /\ result.params = Nil /\ result.object = Nil /\ result.out = passed.out /\ result.seen = outs
        /\ ~(result.err # Nil /\ result.err.type = "StampError")
        /\ result.err # Nil => passed.err # "none"
    BY <1>7, <2>2, <2>4
  <2>6. \A name, field : ~HasOutput(outs, name, field) /\ (chain.kind = "ClusterSupplyChain" => Absent(outs, name))
                            => Missing(chain.kind, outs, name, field)
    BY DEF Missing
  <2>7. chain.kind = "ClusterSupplyChain" =>
           \A field \in DOMAIN Lists : \A j \in DOMAIN resource[Lists[field]] :
              HasOutput(outs, resource[Lists[field]][j].resource, field) \/ Absent(outs, resource[Lists[field]][j].resource)
    BY <1>3 DEF OutputsSuit
  <2>8. result.err # Nil => \E field \in DOMAIN Lists : \E j \in DOMAIN resource[Lists[field]] :
            Missing(chain.kind, result.seen, resource[Lists[field]][j].resource, field)
    BY <2>3, <2>5, <2>6, <2>7
  <2> QED BY <2>1, <2>5, <2>8, Zenon DEF Realizable
<1>12. ASSUME read, StampedAs(d, template, stamped)
       PROVE  Goal
  <2> DEFINE context == Generate(template, chain, resource, Owner, outs)
  <2>1. ShownFor(template, resource)
    BY <1>5, <1>12
  <2>2. template # Nil /\ template.kind = resource.kind /\ IsList(template.params)
        /\ \A tag \in template.tags : WellFormedTag(tag)
    BY <2>1 DEF ShownFor
  <2>3. ParamsInForce(params, template.params, chain.params \o resource.params, Owner.params)
    BY <1>1, <2>2, MergeGives DEF params
  <2>4. ContextOf(context, resource, outs, params.params)
    BY <1>1, GenerateGives DEF params
  <2>5. StampedFrom(stamped, template, context)
    <3> DEFINE labels == ResourceLabels(Owner, chain, resource, template)
               yttRuns == fate.what # "yttFails"
    <3>1. stamped = Stamp(template, context, Owner, labels, yttRuns)
      BY Zenon DEF stamped, StampFromTemplate
    <3>2. Stampable(template)
      BY <2>1 DEF ShownFor
    <3> HIDE DEF labels, yttRuns, context
    <3>3. StampedFrom(Stamp(template, context, Owner, labels, yttRuns), template, context)
      BY <3>2, StampGives
    <3> QED BY <3>1, <3>3
  <2> HIDE DEF context
  <2>6. result.template = template /\ result.params = params
    BY <1>7, <1>12, <2>2 DEF StampedAs, params
  <2>7. /\ result.object # Nil => stamped # Nil /\ result.object.stamped.spec = stamped.spec
        /\ result.err # Nil /\ result.err.type = "StampError" => stamped = Nil
    BY <1>7, <1>12 DEF StampedAs
  <2>8. ~result.pass
    BY <1>8, <1>12, Zenon
  <2>9. Realizable(chain, Owner, resource, result)
    BY <1>1, <1>3, <1>7, <2>2, <2>3, <2>4, <2>5, <2>6, <2>7, <2>8, RealizedWithTemplate, ZenonT(60)
  <2> QED BY <1>7, <1>12, <2>2, <2>9 DEF StampedAs
<1> QED BY <1>6, <1>10, <1>11, <1>12, Zenon DEF DoneAs

-----------------------------------------------------------------------------
\* What is seen are outputs of the first n resources.
Produced(seen, c, results, n) ==
    \A name \in DOMAIN seen : \E j \in 1..n : c.resources[j].name = name /\ seen[name] = results[j].out

\* What is known after the first turns of Realize.
ResultsAre(c, owner, results, seen) ==
    /\ Produced(seen, c, results, Len(results))
    /\ \A i \in DOMAIN results :
          /\ Realizable(c, owner, c.resources[i], results[i]) /\ OfKind(results[i].out, c.resources[i].kind)
          /\ Produced(results[i].seen, c, results, i - 1)

LEMMA ResultsGrow ==
    ASSUME NEW c, NEW owner, NEW results, IsList(results), NEW seen, ResultsAre(c, owner, results, seen),
           NEW d, d.seen = seen, Realizable(c, owner, c.resources[Len(results) + 1], d),
           OfKind(d.out, c.resources[Len(results) + 1].kind)
    PROVE  ResultsAre(c, owner, Append(results, d), Put(seen, c.resources[Len(results) + 1].name, d.out))
<1> DEFINE n == Len(results)
           more == Append(results, d)
           name == c.resources[n + 1].name
           after == Put(seen, name, d.out)
<1>1. /\ n \in Nat /\ DOMAIN results = 1..n /\ DOMAIN more = 1..(n + 1) /\ Len(more) = n + 1
      /\ more[n + 1] = d /\ \A i \in DOMAIN results : more[i] = results[i]
  BY Grows
<1>2. DOMAIN after = DOMAIN seen \cup {name} /\ \A k \in DOMAIN after : after[k] = IF k = name THEN d.out ELSE seen[k]
  BY DEF Put
<1> HIDE DEF more, after, n
<1>3. ASSUME NEW m \in 0..n, NEW s, Produced(s, c, results, m) PROVE Produced(s, c, more, m)
  <2>1. \A j \in 1..m : j \in DOMAIN results
    BY <1>1
  <2> QED BY <1>1, <1>3, <2>1 DEF Produced
<1>4. Produced(seen, c, results, n)
  BY DEF ResultsAre, n
<1>5. Produced(after, c, more, n + 1)
  <2>1. Produced(seen, c, more, n)
    BY <1>1, <1>3, <1>4
  <2>2. n + 1 \in 1..(n + 1) /\ \A j \in 1..n : j \in 1..(n + 1)
    BY <1>1
  <2> QED BY <1>1, <1>2, <2>1, <2>2 DEF Produced
<1>6. ASSUME NEW i \in DOMAIN more
      PROVE  /\ Realizable(c, owner, c.resources[i], more[i]) /\ OfKind(more[i].out, c.resources[i].kind)
             /\ Produced(more[i].seen, c, more, i - 1)
  <2>1. CASE i = n + 1
    <3>1. i - 1 = n
      BY <1>1, <2>1
    <3>2. Produced(d.seen, c, more, n)
      BY <1>1, <1>3, <1>4
    <3> QED BY <1>1, <2>1, <3>1, <3>2 DEF n
  <2>2. CASE i # n + 1
    <3>1. i \in DOMAIN results /\ i - 1 \in 0..n /\ more[i] = results[i]
      BY <1>1, <2>2
    <3>2. /\ Realizable(c, owner, c.resources[i], results[i]) /\ OfKind(results[i].out, c.resources[i].kind)
          /\ Produced(results[i].seen, c, results, i - 1)
      BY <3>1 DEF ResultsAre
    <3>3. Produced(results[i].seen, c, more, i - 1)
      BY <1>3, <3>1, <3>2
    <3> QED BY <3>1, <3>2, <3>3
  <2> QED BY <2>1, <2>2
<1> QED BY <1>1, <1>5, <1>6 DEF ResultsAre, more, after, n

\* What is written is what was submitted.
LEMMA WrittenIsSubmitted ==
    ASSUME CacheIsSubmitted(repo), NEW object
    PROVE  CacheIsSubmitted(Written(object))
<1> DEFINE key == GetKey(object)
           entry == [submitted |-> object, persisted |-> object]
           objects == Put(repo.objects, key, object)
           cache == Put(repo.cache, key, entry)
<1>1. Written(object) = [objects |-> objects, cache |-> cache]
  BY Zenon DEF Written
<1>2. entry.submitted = entry.persisted
  OBVIOUS
<1> HIDE DEF entry
<1>3. DOMAIN cache = DOMAIN repo.cache \cup {key} /\ \A k \in DOMAIN cache : cache[k] = IF k = key THEN entry ELSE repo.cache[k]
  BY DEF Put
<1> HIDE DEF objects, cache, key
<1>4. \A k \in DOMAIN cache : cache[k].submitted = cache[k].persisted
  BY <1>2, <1>3 DEF CacheIsSubmitted
<1> QED BY <1>1, <1>4 DEF CacheIsSubmitted

LEMMA MeddleIsSubmitted ==
    ASSUME CacheIsSubmitted(repo), Meddle
    PROVE  CacheIsSubmitted(repo')
<1>1. (\E objects : repo' = [repo EXCEPT !.objects = objects]) \/ repo' = [repo EXCEPT !.cache = <<>>]
  BY DEF Meddle
<1>2. DOMAIN repo' = DOMAIN repo /\ (repo'.cache = repo.cache \/ repo'.cache = <<>>)
  BY <1>1 DEF CacheIsSubmitted
<1> QED BY <1>2 DEF CacheIsSubmitted

\* Where the reconciliation stands, and what was realized until now.
Realized ==
    /\ CacheIsSubmitted(repo)
    /\ stage \in {"realize", "reported"} =>
         AccountOf(Owner, chain) \in given.accounts /\ ResultsAre(chain, Owner, done, outs)

LEMMA RealizeRealizes ==
    ASSUME NilIsNoRecord, Chosen, Honest, Realized, RealizeResource
    PROVE  Realized'
<1>1. /\ stage = "realize" /\ stage' = stage /\ given' = given /\ chain' = chain /\ round' = round
      /\ Len(done) < Len(chain.resources)
  BY DEF RealizeResource
<1> DEFINE chosen == GetTemplateNameFromResource(Owner, Resource)
           turn(fate, result) ==
             /\ done' = Append(done, result) /\ outs' = Put(outs, Resource.name, result.out)
             /\ repo' = IF Applies(Resource, result, fate) THEN Written(result.object.stamped) ELSE repo
<1>2. \E fate : turn(fate, Result(Do(Resource, chosen, fate), Resource, chosen))
  BY Zenon DEF RealizeResource
<1> HIDE DEF turn
<1>3. PICK fate : turn(fate, Result(Do(Resource, chosen, fate), Resource, chosen))
  BY <1>2, Zenon
<1> DEFINE result == Result(Do(Resource, chosen, fate), Resource, chosen)
<1>4. result.seen = outs
  BY DEF Result
<1>5. chain \in ToSet(AdmittedBlueprints) /\ IsList(chain.resources) /\ Given /\ IsList(done)
      /\ DOMAIN done \subseteq DOMAIN chain.resources /\ TemplatesFound(chain)
  BY <1>1, ChosenChainIsListed DEF Chosen, Honest
<1>6. Len(done) + 1 \in DOMAIN chain.resources /\ DOMAIN done = 1..Len(done)
  <2>1. Len(done) \in Nat /\ Len(chain.resources) \in Nat /\ DOMAIN chain.resources = 1..Len(chain.resources)
        /\ DOMAIN done = 1..Len(done)
    BY <1>5, Grows
  <2> QED BY <1>1, <2>1
<1>7. CacheIsSubmitted(repo) /\ AccountOf(Owner, chain) \in given.accounts /\ ResultsAre(chain, Owner, done, outs)
  BY <1>1 DEF Realized
<1>8. KindsKept(chain, outs)
  <2>1. /\ Produced(outs, chain, done, Len(done))
        /\ \A i \in DOMAIN done : OfKind(done[i].out, chain.resources[i].kind)
    BY <1>7 DEF ResultsAre
  <2> QED BY <1>5, <1>6, <2>1 DEF KindsKept, Produced
<1>9. Resource = chain.resources[Len(done) + 1]
  BY DEF Resource
<1>10. Realizable(chain, Owner, Resource, result) /\ OfKind(result.out, Resource.kind)
  BY <1>5, <1>6, <1>7, <1>8, <1>9, TurnIsRealizable, Zenon
<1>11. /\ done' = Append(done, result) /\ outs' = Put(outs, Resource.name, result.out)
       /\ repo' = repo \/ repo' = Written(result.object.stamped)
  BY <1>3 DEF turn
<1> HIDE DEF result
<1>12. ResultsAre(chain, Owner, done', outs')
  BY <1>4, <1>5, <1>7, <1>9, <1>10, <1>11, ResultsGrow
<1>13. CacheIsSubmitted(repo')
  BY <1>7, <1>11, WrittenIsSubmitted
<1>14. Owner' = Owner /\ AccountOf(Owner, chain)' = AccountOf(Owner, chain)
  BY <1>1 DEF Owner, AccountOf, ServiceAccountForWorkload, ServiceAccountForDeliverable, ServiceAccountFor
<1> QED BY <1>1, <1>7, <1>12, <1>13, <1>14 DEF Realized

\* The start of a reconciliation.
LEMMA ChooseRealizes ==
    ASSUME Chosen, Realized, ChooseBlueprint
    PROVE  Realized'
<1>1. /\ stage = "choose" /\ repo' = repo /\ given' = given /\ round' = round /\ done' = <<>> /\ outs' = <<>>
  BY DEF ChooseBlueprint
<1> DEFINE found == GetSupplyChain(Owner, AdmittedBlueprints)
<1>2. /\ chain' = found.chain
      /\ found.err # "none" => stage' = found.err
      /\ found.err = "none" => stage' \in {"NotReady", "ServiceAccountNotFound", "realize"}
      /\ found.err = "none" /\ stage' = "realize" => AccountOf(Owner, found.chain) \in given.accounts
  BY DEF ChooseBlueprint, GetServiceAccount
<1>3. found.err \in {"none", "LabelsMissing", "ListFailed", "NotFound", "MultipleMatches"}
  BY <1>1, BlueprintChoice DEF Chosen
<1> HIDE DEF found
<1>4. stage' \in {"realize", "reported"} => AccountOf(Owner, chain') \in given'.accounts
  BY <1>1, <1>2, <1>3
<1>5. Owner' = Owner
  BY <1>1 DEF Owner
<1>6. \A c, owner : ResultsAre(c, owner, <<>>, <<>>)
  BY DEF ResultsAre, Produced
<1> QED BY <1>1, <1>4, <1>5, <1>6 DEF Realized

\* The cache holds what was submitted, and everything realized until now was
\* realizable.
LEMMA RealizedInvariant ==
    ASSUME NilIsNoRecord
    PROVE  PipelineInit /\ [][PipelineNext]_pipelineVars => []Realized
<1>1. PipelineInit => Realized
  BY DEF PipelineInit, NewRepository, CacheIsSubmitted, Realized
<1>2. ASSUME Chosen, Honest, Realized, [PipelineNext]_pipelineVars PROVE Realized'
  <2>1. CASE SubmitAll \/ NextRound
    <3>1. repo' = repo /\ stage' = "choose"
      BY <2>1 DEF SubmitAll, NextRound
    <3> QED BY <1>2, <3>1 DEF Realized
  <2>2. CASE ChooseBlueprint
    BY <1>2, <2>2, ChooseRealizes
  <2>3. CASE RealizeResource
    BY <1>2, <2>3, RealizeRealizes
  <2>4. CASE ReportOwner \/ Meddle \/ UNCHANGED pipelineVars
    <3>1. /\ given' = given /\ chain' = chain /\ round' = round /\ done' = done /\ outs' = outs
          /\ stage' \in {"realize", "reported"} => stage \in {"realize", "reported"}
      BY <2>4 DEF ReportOwner, Meddle, pipelineVars
    <3>2. Owner' = Owner /\ (AccountOf(Owner, chain) \in given.accounts => AccountOf(Owner, chain') \in given'.accounts)
      BY <3>1 DEF Owner
    <3>3. CacheIsSubmitted(repo')
      <4>1. CASE Meddle
        BY <1>2, <4>1, MeddleIsSubmitted DEF Realized
      <4>2. CASE repo' = repo
        BY <1>2, <4>2 DEF Realized
      <4>3. ReportOwner \/ UNCHANGED pipelineVars => repo' = repo
        BY DEF ReportOwner, pipelineVars
      <4> QED BY <2>4, <4>1, <4>2, <4>3
    <3> QED BY <1>2, <3>1, <3>2, <3>3 DEF Realized
  <2> QED BY <1>2, <2>1, <2>2, <2>3, <2>4 DEF PipelineNext
<1> QED BY <1>1, <1>2, ChosenInvariant, HonestInvariant, PTL

\* The account that an owner is realized with.
LEMMA AccountsAre ==
    ASSUME NEW owner, NEW c, AccountOf(owner, c) \in given.accounts
    PROVE  AccountIsAllowed(owner, c)
<1> DEFINE account == AccountOf(owner, c)
<1>1. account = ServiceAccountFor(owner, c.account)
  BY DEF AccountOf, ServiceAccountForWorkload, ServiceAccountForDeliverable
<1>2. \A name : ServiceAccountRef(name, owner.ns).ns = owner.ns
  BY DEF ServiceAccountRef
<1>3. account.ns # owner.ns => owner.account = Nil /\ c.account = account
  BY <1>1, <1>2 DEF ServiceAccountFor
<1> QED BY <1>3 DEF AccountIsAllowed

\* What was admitted can be realized: no parameter is left without a value and
\* each has the value of the highest level that sets it; an object holds these
\* values and the outputs that the resources it refers to had in this very
\* reconciliation; it cannot be stamped, or an input passed through, only for
\* want of the output of a resource that comes before, or because of what the
\* template itself asks for; and it is realized with an account that exists and
\* that the owner is given (webhooks, Merge, Generate, Stamp, doPassthrough).
THEOREM AdmittedCanBeRealized ==
    ASSUME NilIsNoRecord
    PROVE  PipelineInit /\ [][PipelineNext]_pipelineVars => []AdmittedIsRealizable
<1>1. Realized => AdmittedIsRealizable
  <2> SUFFICES ASSUME Realized, stage \in {"realize", "reported"}
               PROVE  /\ AccountIsAllowed(Owner, chain)
                      /\ \A i \in DOMAIN done :
                            /\ Realizable(chain, Owner, chain.resources[i], done[i])
                            /\ \A name \in DOMAIN done[i].seen : \E j \in 1..(i - 1) :
                                  chain.resources[j].name = name /\ done[i].seen[name] = done[j].out
    BY DEF AdmittedIsRealizable
  <2>1. AccountIsAllowed(Owner, chain)
    BY AccountsAre DEF Realized
  <2>2. ResultsAre(chain, Owner, done, outs)
    BY DEF Realized
  <2> QED BY <2>1, <2>2 DEF ResultsAre, Produced
<1> QED BY <1>1, RealizedInvariant, PTL

-----------------------------------------------------------------------------
(***************************************************************************)
(* cartotest.  The operators of Cartotest with the tree as a parameter.    *)
(***************************************************************************)
PathIn(t, d) ==
    LET up[e \in DOMAIN t.dirs] == {e} \cup (IF t.dirs[e].parent = 0 THEN {} ELSE up[t.dirs[e].parent])
    IN up[d]

SayingIn(t, d, field) == {e \in PathIn(t, d) : t.dirs[e].info[field] # Nil}

InEffectIn(t, d, field) ==
    LET saying == SayingIn(t, d, field)
    IN IF saying = {} THEN Nil ELSE t.dirs[CHOOSE e \in saying : \A f \in saying : f <= e].info[field]

\* The directories of a tree.
LEMMA TreeFacts ==
    ASSUME NEW t \in Trees
    PROVE  /\ Len(t.dirs) \in Nat /\ DOMAIN t.dirs = 1..Len(t.dirs)
           /\ \A d \in DOMAIN t.dirs :
                /\ d \in Nat /\ d >= 1
                /\ t.dirs[d].parent \in Nat /\ t.dirs[d].parent < d
                /\ t.dirs[d].parent # 0 => t.dirs[d].parent \in DOMAIN t.dirs
<1>1. t.dirs \in Seq(ToSet(t.dirs)) /\ \A d \in DOMAIN t.dirs : t.dirs[d].parent \in 0..(d - 1)
  BY TreesAssumption
<1>2. Len(t.dirs) \in Nat /\ DOMAIN t.dirs = 1..Len(t.dirs)
  BY <1>1
<1> QED BY <1>1, <1>2

\* The path of a directory is the directory and the path of its parent.
LEMMA PathStep ==
    ASSUME NEW t \in Trees, NEW d \in DOMAIN t.dirs
    PROVE  PathIn(t, d) = {d} \cup (IF t.dirs[d].parent = 0 THEN {} ELSE PathIn(t, t.dirs[d].parent))
<1> DEFINE D == DOMAIN t.dirs
           p(e) == t.dirs[e].parent
           Closed(S) == \A y \in S : p(y) # 0 => p(y) \in S
           W(e) == {x \in D : \A S \in SUBSET D : e \in S /\ Closed(S) => x \in S}
           Is(f) == f = [e \in D |-> {e} \cup (IF p(e) = 0 THEN {} ELSE f[p(e)])]
<1>1. \A e \in D : p(e) # 0 => p(e) \in D
  BY TreeFacts
<1> HIDE DEF D, p
<1>2. \A e \in D : e \in W(e) /\ Closed(W(e)) /\ W(e) \in SUBSET D
  BY <1>1
<1>3. ASSUME NEW e \in D PROVE W(e) = {e} \cup (IF p(e) = 0 THEN {} ELSE W(p(e)))
  <2> DEFINE S0 == {e} \cup (IF p(e) = 0 THEN {} ELSE W(p(e)))
  <2>1. S0 \in SUBSET D /\ e \in S0
    BY <1>1, <1>2
  <2>2. Closed(S0)
    <3> SUFFICES ASSUME NEW y \in S0, p(y) # 0 PROVE p(y) \in S0
      OBVIOUS
    <3>1. CASE y = e
      BY <3>1, <1>1, <1>2
    <3>2. CASE y # e
      BY <3>2, <1>1, <1>2
    <3> QED BY <3>1, <3>2
  <2>3. W(e) \subseteq S0
    <3> HIDE DEF S0
    <3> QED BY <2>1, <2>2
  <2>4. S0 \subseteq W(e)
    <3> SUFFICES ASSUME NEW x \in S0 PROVE x \in W(e)
      OBVIOUS
    <3>1. CASE x = e
      BY <3>1, <1>2
    <3>2. CASE x # e
      <4>1. p(e) # 0 /\ x \in W(p(e)) /\ x \in D
        BY <3>2, <1>1, <1>2
      <4>2. ASSUME NEW S \in SUBSET D, e \in S, Closed(S) PROVE x \in S
        <5>1. p(e) \in S
          BY <4>1, <4>2
        <5> QED BY <4>1, <4>2, <5>1
      <4> QED BY <4>1, <4>2
    <3> QED BY <3>1, <3>2
  <2> HIDE DEF W
  <2> QED BY <2>3, <2>4
<1> DEFINE f == [e \in D |-> W(e)]
           g == CHOOSE h : Is(h)
<1> HIDE DEF W
<1>4. Is(f)
  BY <1>1, <1>3
<1>5. Is(g)
  <2> HIDE DEF f
  <2> QED BY <1>4
<1>6. \A e \in D : PathIn(t, e) = g[e]
  BY DEF PathIn, D, p
<1> HIDE DEF g
<1>7. \A e \in D : g[e] = {e} \cup (IF p(e) = 0 THEN {} ELSE g[p(e)])
  BY <1>5
<1>8. d \in D
  BY DEF D
<1>9. PathIn(t, d) = {d} \cup (IF p(d) = 0 THEN {} ELSE PathIn(t, p(d)))
  BY <1>1, <1>6, <1>7, <1>8
<1> QED BY <1>9 DEF p

\* The path of a directory leads to directories before it.
LEMMA PathBelow ==
    ASSUME NEW t \in Trees, NEW d \in DOMAIN t.dirs
    PROVE  PathIn(t, d) \subseteq 1..d /\ PathIn(t, d) \subseteq DOMAIN t.dirs /\ d \in PathIn(t, d)
<1> DEFINE D == DOMAIN t.dirs
           Bad == {e \in D : ~(PathIn(t, e) \subseteq 1..e)}
<1>1. Bad = {}
  <2> SUFFICES ASSUME Bad # {} PROVE FALSE
    OBVIOUS
  <2>1. Bad \subseteq Nat
    BY TreeFacts
  <2> HIDE DEF Bad
  <2>2. PICK e \in Bad : \A f \in Bad : e <= f
    BY <2>1, Least
  <2>3. e \in D /\ ~(PathIn(t, e) \subseteq 1..e)
    BY <2>2 DEF Bad
  <2> DEFINE p == t.dirs[e].parent
  <2>4. e \in Nat /\ e >= 1 /\ p \in Nat /\ p < e /\ (p # 0 => p \in D)
    BY <2>3, TreeFacts
  <2>5. PathIn(t, e) = {e} \cup (IF p = 0 THEN {} ELSE PathIn(t, p))
    BY <2>3, PathStep
  <2> HIDE DEF p
  <2>6. p # 0 => PathIn(t, p) \subseteq 1..p
    BY <2>2, <2>4 DEF Bad
  <2>7. 1..p \subseteq 1..e /\ e \in 1..e
    BY <2>4
  <2> QED BY <2>3, <2>5, <2>6, <2>7
<1>2. PathIn(t, d) \subseteq 1..d
  BY <1>1
<1>3. DOMAIN t.dirs = 1..Len(t.dirs) /\ Len(t.dirs) \in Nat
  BY TreeFacts
<1>4. 1..d \subseteq DOMAIN t.dirs
  BY <1>3
<1>5. d \in PathIn(t, d)
  BY PathStep
<1> QED BY <1>2, <1>4, <1>5

\* What a directory says counts, else what counts for its parent.
LEMMA InEffectStep ==
    ASSUME NEW t \in Trees, NEW d \in DOMAIN t.dirs, NEW field
    PROVE  InEffectIn(t, d, field) =
              IF t.dirs[d].info[field] # Nil THEN t.dirs[d].info[field]
              ELSE IF t.dirs[d].parent = 0 THEN Nil ELSE InEffectIn(t, t.dirs[d].parent, field)
<1> DEFINE p == t.dirs[d].parent
           v(e) == t.dirs[e].info[field]
<1>1. d \in Nat /\ p \in Nat /\ p < d /\ (p # 0 => p \in DOMAIN t.dirs)
  BY TreeFacts
<1>2. PathIn(t, d) = {d} \cup (IF p = 0 THEN {} ELSE PathIn(t, p))
  BY PathStep
<1>3. PathIn(t, d) \subseteq 1..d /\ (p # 0 => PathIn(t, p) \subseteq 1..p)
  BY <1>1, PathBelow
<1> HIDE DEF p
<1>4. CASE v(d) # Nil
  <2> DEFINE saying == SayingIn(t, d, field)
             last == CHOOSE e \in saying : \A f \in saying : f <= e
  <2>1. d \in saying /\ saying \subseteq 1..d
    BY <1>2, <1>3, <1>4 DEF SayingIn
  <2> HIDE DEF saying
  <2>2. \A f \in saying : f <= d /\ f \in Nat
    BY <2>1, <1>1
  <2>3. last \in saying /\ \A f \in saying : f <= last
    BY <2>1, <2>2
  <2> HIDE DEF last
  <2>4. last = d
    BY <2>1, <2>2, <2>3, <1>1
  <2>5. InEffectIn(t, d, field) = v(last)
    BY <2>1 DEF InEffectIn, saying, last
  <2> QED BY <2>4, <2>5, <1>4
<1>5. CASE v(d) = Nil /\ p = 0
  <2>1. SayingIn(t, d, field) = {}
    BY <1>2, <1>5 DEF SayingIn
  <2> QED BY <2>1, <1>5 DEF InEffectIn, p
<1>6. CASE v(d) = Nil /\ p # 0
  <2>1. SayingIn(t, d, field) = SayingIn(t, p, field)
    BY <1>2, <1>6 DEF SayingIn
  <2> QED BY <2>1, <1>6 DEF InEffectIn, p
<1> QED BY <1>4, <1>5, <1>6

-----------------------------------------------------------------------------
(***************************************************************************)
(* The tests that buildTestSuite has built so far.                         *)
(***************************************************************************)
FocusIn(t, d) == IF InEffectIn(t, d, "focus") = Nil THEN FALSE ELSE InEffectIn(t, d, "focus")

\* The test of a directory says what the directories on its path say.
TestFields == {"template", "values", "workload", "expect", "focus", "options", "chain"}
IsTest(test) == test = [f \in TestFields |-> test[f]]
TestIs(t, d, test) ==
    /\ IsTest(test)
    /\ test.template = InEffectIn(t, d, "template") /\ test.values = InEffectIn(t, d, "values")
    /\ test.workload = InEffectIn(t, d, "workload") /\ test.expect = InEffectIn(t, d, "expect")
    /\ test.focus = FocusIn(t, d)
    /\ test.chain = OwnChain(t.dirs[d].info)

\* Its options are those that were allocated for the first directory of the
\* path that specifies any.
PointerIs(t, d, ts) ==
    /\ ts[d].options = 0 => \A e \in PathIn(t, d) : t.dirs[e].info.options = <<>>
    /\ ts[d].options # 0 =>
         /\ ts[d].options \in PathIn(t, d) /\ t.dirs[ts[d].options].info.options # <<>>
         /\ \A e \in PathIn(t, d) :
              /\ e >= ts[d].options => ts[e].options = ts[d].options
              /\ e < ts[d].options => t.dirs[e].info.options = <<>>

\* The directories that have written an option.
Writers(t, o, ts, n) == {e \in DOMAIN ts : ts[e].options = o /\ n \in DOMAIN t.dirs[e].info.options}

\* What is allocated holds the last word of the directories that write to it.
OptionsAre(t, o, ts, options) ==
    /\ options = [n \in DOMAIN options |-> options[n]]
    /\ \A n : n \in DOMAIN options <=> Writers(t, o, ts, n) # {}
    /\ \A n \in DOMAIN options : \A e \in Writers(t, o, ts, n) :
          (\A f \in Writers(t, o, ts, n) : f <= e) => options[n] = t.dirs[e].info.options[n]

BuiltWell(t, ts, cs) ==
    /\ IsList(ts) /\ DOMAIN ts \subseteq DOMAIN t.dirs
    /\ cs = [o \in DOMAIN ts |-> cs[o]]
    /\ \A d \in DOMAIN ts : TestIs(t, d, ts[d]) /\ PointerIs(t, d, ts) /\ OptionsAre(t, d, ts, cs[d])

\* One field of a test changes.
LEMMA OneField ==
    ASSUME NEW test, IsTest(test), NEW f \in TestFields, NEW v
    PROVE  /\ IsTest([test EXCEPT ![f] = v])
           /\ [test EXCEPT ![f] = v][f] = v
           /\ \A g \in TestFields \ {f} : [test EXCEPT ![f] = v][g] = test[g]
BY DEF IsTest, TestFields

\* populateTestCase, one field after the other.
LEMMA PopulateFields ==
    ASSUME NEW test, IsTest(test), NEW info, NEW d
    PROVE  LET new == PopulateTestCase(test, info, d)
           IN /\ IsTest(new)
              /\ new.template = Locally(info.template, test.template) /\ new.values = Locally(info.values, test.values)
              /\ new.workload = Locally(info.workload, test.workload) /\ new.expect = Locally(info.expect, test.expect)
              /\ new.focus = Locally(info.focus, test.focus) /\ new.options = OptionsOf(test, info, d)
              /\ new.chain = OwnChain(info)
<1> DEFINE a1 == [test EXCEPT !["template"] = Locally(info.template, test.template)]
           a2 == [a1 EXCEPT !["values"] = Locally(info.values, a1.values)]
           a3 == [a2 EXCEPT !["workload"] = Locally(info.workload, a2.workload)]
           a4 == [a3 EXCEPT !["expect"] = Locally(info.expect, a3.expect)]
           a5 == [a4 EXCEPT !["focus"] = Locally(info.focus, a4.focus)]
           a6 == [a5 EXCEPT !["options"] = OptionsOf(a5, info, d)]
           mock == [real |-> FALSE, inputs |-> info.inputs, params |-> info.params]
           a7 == [a6 EXCEPT !["chain"] = mock]
           new == PopulateTestCase(test, info, d)
<1>0. new = PopulateTestCaseSupplyChain(a7, info)
  BY DEF PopulateTestCase, PopulateTestCaseWorkload, PopulateTestCaseTemplate, PopulateTestCaseMockSupplyChain,
         PopulateCompareOptions
<1> DEFINE F == {"template", "values", "workload", "expect", "focus", "options", "chain"}
<1>f. TestFields = F
  BY DEF TestFields
<1>1. IsTest(a1) /\ a1["template"] = Locally(info.template, test.template) /\ \A g \in F \ {"template"} : a1[g] = test[g]
  BY OneField, <1>f, "template" \in F
<1> HIDE DEF a1
<1>2. IsTest(a2) /\ a2["values"] = Locally(info.values, a1.values) /\ \A g \in F \ {"values"} : a2[g] = a1[g]
  BY <1>1, OneField, <1>f, "values" \in F
<1> HIDE DEF a2
<1>3. IsTest(a3) /\ a3["workload"] = Locally(info.workload, a2.workload) /\ \A g \in F \ {"workload"} : a3[g] = a2[g]
  BY <1>2, OneField, <1>f, "workload" \in F
<1> HIDE DEF a3
<1>4. IsTest(a4) /\ a4["expect"] = Locally(info.expect, a3.expect) /\ \A g \in F \ {"expect"} : a4[g] = a3[g]
  BY <1>3, OneField, <1>f, "expect" \in F
<1> HIDE DEF a4
<1>5. IsTest(a5) /\ a5["focus"] = Locally(info.focus, a4.focus) /\ \A g \in F \ {"focus"} : a5[g] = a4[g]
  BY <1>4, OneField, <1>f, "focus" \in F
<1> HIDE DEF a5
<1>6. IsTest(a6) /\ a6["options"] = OptionsOf(a5, info, d) /\ \A g \in F \ {"options"} : a6[g] = a5[g]
  BY <1>5, OneField, <1>f, "options" \in F
<1> HIDE DEF a6
<1>7. IsTest(a7) /\ a7["chain"] = mock /\ \A g \in F \ {"chain"} : a7[g] = a6[g]
  BY <1>6, OneField, <1>f, "chain" \in F
<1> HIDE DEF a7
<1> DEFINE Fields(x) ==
      /\ IsTest(x)
      /\ x.template = Locally(info.template, test.template) /\ x.values = Locally(info.values, test.values)
      /\ x.workload = Locally(info.workload, test.workload) /\ x.expect = Locally(info.expect, test.expect)
      /\ x.focus = Locally(info.focus, test.focus) /\ x.options = OptionsOf(test, info, d)
<1>8. OptionsOf(a5, info, d) = OptionsOf(test, info, d)
  <2>1. a5.options = test.options
    BY <1>1, <1>2, <1>3, <1>4, <1>5
  <2> QED BY <2>1 DEF OptionsOf
<1>9. Fields(a7)
  BY <1>1, <1>2, <1>3, <1>4, <1>5, <1>6, <1>7, <1>8
<1>10. a7.chain.real = FALSE
  BY <1>7
<1> DEFINE previous == [real |-> TRUE, paths |-> Nil, target |-> Nil, outputs |-> Nil, values |-> Nil]
           set1 == [previous EXCEPT !.target = Locally(info.target, @)]
           set2 == [set1 EXCEPT !.outputs = Locally(info.outputs, @)]
           set3 == [set2 EXCEPT !.values = Locally(info.chainValues, @)]
           set == [set3 EXCEPT !.paths = Locally(info.paths, @)]
<1>11. set = FileSet(info.paths, info.target, info.outputs, info.chainValues)
  <2> DEFINE P == {"real", "paths", "target", "outputs", "values"}
             Has(x, paths, target, outputs, values) ==
               /\ x = [f \in P |-> x[f]] /\ x.real = TRUE /\ x.paths = paths
               /\ x.target = target /\ x.outputs = outputs /\ x.values = values
  <2>0. \A v : Locally(v, Nil) = v
    BY DEF Locally
  <2>1. Has(set1, Nil, info.target, Nil, Nil)
    BY <2>0
  <2> HIDE DEF set1
  <2>2. Has(set2, Nil, info.target, info.outputs, Nil)
    BY <2>0, <2>1
  <2> HIDE DEF set2
  <2>3. Has(set3, Nil, info.target, info.outputs, info.chainValues)
    BY <2>0, <2>2
  <2> HIDE DEF set3
  <2>4. Has(set, info.paths, info.target, info.outputs, info.chainValues)
    BY <2>0, <2>3
  <2> HIDE DEF set
  <2> DEFINE y == FileSet(info.paths, info.target, info.outputs, info.chainValues)
  <2>5. Has(y, info.paths, info.target, info.outputs, info.chainValues)
    BY DEF FileSet
  <2> HIDE DEF y
  <2>6. \A f \in P : set[f] = y[f]
    BY <2>4, <2>5
  <2>7. set = y
    BY <2>4, <2>5, <2>6
  <2> QED BY <2>7 DEF y
<1>12. new = IF FileSetNotEmpty(set) THEN [a7 EXCEPT !["chain"] = set] ELSE a7
  BY <1>0, <1>10 DEF PopulateTestCaseSupplyChain
<1> HIDE DEF set
<1>13. OwnChain(info) = IF FileSetNotEmpty(set) THEN set ELSE mock
  BY <1>11 DEF FileSet, FileSetNotEmpty, OwnChain, MockOf
<1> DEFINE a8 == [a7 EXCEPT !["chain"] = set]
<1>14. IsTest(a8) /\ a8["chain"] = set /\ \A g \in F \ {"chain"} : a8[g] = a7[g]
  BY <1>7, OneField, <1>f, "chain" \in F
<1> HIDE DEF a8
<1>15. Fields(a8) /\ a8.chain = set
  BY <1>9, <1>14
<1> HIDE DEF Fields
<1>16. Fields(new) /\ new.chain = OwnChain(info)
  BY <1>7, <1>9, <1>12, <1>13, <1>15 DEF a8
<1> HIDE DEF new
<1> QED BY <1>16 DEF Fields, new

\* populateTestCase carries over what counts for the parent.
LEMMA PopulateCarriesOver ==
    ASSUME NEW t \in Trees, NEW d \in DOMAIN t.dirs, NEW before, NEW info,
           info = t.dirs[d].info,
           IF t.dirs[d].parent = 0 THEN before = NoTest ELSE TestIs(t, t.dirs[d].parent, before)
    PROVE  /\ TestIs(t, d, PopulateTestCase(before, info, d))
           /\ PopulateTestCase(before, info, d).options = OptionsOf(before, info, d)
<1> DEFINE p == t.dirs[d].parent
           In(f) == IF p = 0 THEN Nil ELSE InEffectIn(t, p, f)
           Foc == IF p = 0 THEN FALSE ELSE FocusIn(t, p)
           new == PopulateTestCase(before, info, d)
<1>1. /\ IsTest(before)
      /\ before.template = In("template") /\ before.values = In("values")
      /\ before.workload = In("workload") /\ before.expect = In("expect")
      /\ before.focus = Foc
  <2>1. CASE p = 0
    <3>1. before = NoTest
      BY <2>1
    <3>2. IsTest(NoTest)
      BY DEF NoTest, IsTest, TestFields
    <3> QED BY <2>1, <3>1, <3>2 DEF NoTest
  <2>2. CASE p # 0
    BY <2>2 DEF TestIs
  <2> QED BY <2>1, <2>2
<1>2. \A f : InEffectIn(t, d, f) = Locally(info[f], In(f))
  BY InEffectStep DEF Locally
<1>3. FocusIn(t, d) = Locally(info.focus, Foc)
  <2>1. InEffectIn(t, d, "focus") = Locally(info.focus, In("focus"))
    BY <1>2
  <2> QED BY <2>1 DEF FocusIn, Locally
<1> HIDE DEF In, Foc, p
<1>4. /\ IsTest(new)
      /\ new.template = Locally(info.template, before.template) /\ new.values = Locally(info.values, before.values)
      /\ new.workload = Locally(info.workload, before.workload) /\ new.expect = Locally(info.expect, before.expect)
      /\ new.focus = Locally(info.focus, before.focus) /\ new.options = OptionsOf(before, info, d)
      /\ new.chain = OwnChain(info)
  BY <1>1, PopulateFields
<1> HIDE DEF new
<1>5. TestIs(t, d, new)
  BY <1>1, <1>2, <1>3, <1>4 DEF TestIs
<1> QED BY <1>4, <1>5 DEF new

\* The pointer of a test that was built.
LEMMA PointerBelow ==
    ASSUME NEW t \in Trees, NEW ts, NEW cs, BuiltWell(t, ts, cs), NEW d \in DOMAIN ts
    PROVE  ts[d].options \in 0..d /\ d \in DOMAIN t.dirs /\ d \in Nat
<1>1. d \in DOMAIN t.dirs /\ PointerIs(t, d, ts)
  BY DEF BuiltWell
<1>2. PathIn(t, d) \subseteq 1..d /\ d \in Nat
  BY <1>1, PathBelow, TreeFacts
<1> QED BY <1>1, <1>2 DEF PointerIs

\* populateCompareOptions keeps to the options of the first directory of the path
\* that has any.
LEMMA PointerStep ==
    ASSUME NEW t \in Trees, NEW ts, NEW cs, BuiltWell(t, ts, cs), NEW d \in DOMAIN t.dirs, NEW ts2,
           \A e \in 1..(d - 1) : e \in DOMAIN ts /\ ts2[e] = ts[e],
           NEW b, b = IF t.dirs[d].parent = 0 THEN 0 ELSE ts[t.dirs[d].parent].options,
           ts2[d].options = IF t.dirs[d].info.options = <<>> \/ b # 0 THEN b ELSE d
    PROVE  PointerIs(t, d, ts2)
<1> DEFINE p == t.dirs[d].parent
           Says(e) == t.dirs[e].info.options
           Root == PathIn(t, d)
           Up == IF p = 0 THEN {} ELSE PathIn(t, p)
<1>1. d \in Nat /\ d >= 1 /\ p \in Nat /\ p < d /\ (p # 0 => p \in DOMAIN t.dirs /\ p \in 1..(d - 1))
  BY TreeFacts
<1>2. Root = {d} \cup Up
  BY PathStep
<1>3. Up \subseteq 1..(d - 1)
  <2>1. p # 0 => PathIn(t, p) \subseteq 1..p
    BY <1>1, PathBelow
  <2>2. 1..p \subseteq 1..(d - 1)
    BY <1>1
  <2> QED BY <2>1, <2>2
<1>4. \A e \in Up : ts2[e] = ts[e]
  BY <1>3
<1>5. p # 0 => PointerIs(t, p, ts)
  BY <1>1 DEF BuiltWell
<1>6. /\ b = 0 => \A e \in Up : Says(e) = <<>>
      /\ b # 0 => /\ b \in Up /\ Says(b) # <<>>
                  /\ \A e \in Up : /\ e >= b => ts2[e].options = b
                                   /\ e < b => Says(e) = <<>>
  BY <1>4, <1>5 DEF PointerIs
<1> DEFINE o == ts2[d].options
<1>7. o = IF Says(d) = <<>> \/ b # 0 THEN b ELSE d
  OBVIOUS
<1>8. \A e \in Up : e \in Nat /\ e < d
  BY <1>1, <1>3
<1>9. /\ o = 0 => \A e \in Root : Says(e) = <<>>
      /\ o # 0 => /\ o \in Root /\ Says(o) # <<>>
                  /\ \A e \in Root : /\ e >= o => ts2[e].options = o
                                     /\ e < o => Says(e) = <<>>
  <2> HIDE DEF Up, Root, Says, p
  <2>1. CASE b # 0
    <3>1. o = b /\ b \in Up
      BY <2>1, <1>6, <1>7
    <3>2. b \in Nat /\ b # 0 /\ b < d /\ b \in Root /\ Says(b) # <<>>
      BY <2>1, <3>1, <1>2, <1>6, <1>8
    <3>3. ASSUME NEW e \in Root
          PROVE  (e >= b => ts2[e].options = b) /\ (e < b => Says(e) = <<>>)
      <4>1. CASE e = d
        BY <4>1, <3>1, <3>2, <1>1
      <4>2. CASE e \in Up
        BY <4>2, <2>1, <1>6
      <4> QED BY <4>1, <4>2, <1>2
    <3> HIDE DEF o
    <3> QED BY <3>1, <3>2, <3>3
  <2>2. CASE b = 0 /\ Says(d) = <<>>
    BY <2>2, <1>2, <1>6, <1>7
  <2>3. CASE b = 0 /\ Says(d) # <<>>
    <3>1. o = d
      BY <2>3, <1>7
    <3>2. ASSUME NEW e \in Root
          PROVE  (e >= d => ts2[e].options = d) /\ (e < d => Says(e) = <<>>)
      <4>1. CASE e = d
        BY <4>1, <3>1, <1>1
      <4>2. CASE e \in Up
        <5>1. e < d /\ e \in Nat
          BY <4>2, <1>8
        <5>2. Says(e) = <<>>
          BY <4>2, <2>3, <1>6
        <5> QED BY <5>1, <5>2, <1>1
      <4> QED BY <4>1, <4>2, <1>2
    <3>3. d # 0 /\ d \in Root /\ Says(d) # <<>>
      BY <1>1, <1>2, <2>3
    <3> HIDE DEF o
    <3> QED BY <3>1, <3>2, <3>3
  <2> QED BY <2>1, <2>2, <2>3
<1> QED BY <1>9 DEF PointerIs

\* The tests with one for the directory d behind those that were there.
OneMore(ts, ts2, d) ==
    /\ d \in Nat /\ DOMAIN ts2 = DOMAIN ts \cup {d}
    /\ \A e \in DOMAIN ts : ts2[e] = ts[e] /\ e \in Nat /\ e < d

\* What becomes of the options that were allocated for o.
Writes(t, d, test, o, before, after) ==
    after = IF test.options = o THEN Overlay(t.dirs[d].info.options, before) ELSE before

\* Overlay: the new writer has the last word.
LEMMA OverlayStep ==
    ASSUME NEW t, NEW ts, NEW o, NEW before, OptionsAre(t, o, ts, before), NEW d, NEW ts2,
           OneMore(ts, ts2, d), NEW after, Writes(t, d, ts2[d], o, before, after)
    PROVE  OptionsAre(t, o, ts2, after)
<1> USE DEF OneMore, Writes
<1> DEFINE new == t.dirs[d].info.options
           W(n) == Writers(t, o, ts, n)
           W2(n) == Writers(t, o, ts2, n)
<1>1. /\ before = [n \in DOMAIN before |-> before[n]]
      /\ \A n : n \in DOMAIN before <=> W(n) # {}
      /\ \A n \in DOMAIN before : \A e \in W(n) :
            (\A f \in W(n) : f <= e) => before[n] = t.dirs[e].info.options[n]
  BY DEF OptionsAre
<1>2. ~(d \in DOMAIN ts)
  OBVIOUS
<1>3. \A n : W(n) \subseteq DOMAIN ts
  BY DEF Writers
<1>4. CASE ts2[d].options # o
  <2>1. \A n : W2(n) = W(n)
    BY <1>2, <1>4 DEF Writers
  <2>2. after = before
    BY <1>4
  <2> QED BY <1>1, <2>1, <2>2 DEF OptionsAre
<1>5. CASE ts2[d].options = o
  <2>1. \A n : W2(n) = IF n \in DOMAIN new THEN W(n) \cup {d} ELSE W(n)
    BY <1>2, <1>5 DEF Writers
  <2> HIDE DEF W, W2
  <2>2. /\ DOMAIN after = DOMAIN new \cup DOMAIN before
        /\ after = [n \in DOMAIN after |-> after[n]]
        /\ \A n \in DOMAIN after : after[n] = IF n \in DOMAIN new THEN new[n] ELSE before[n]
    BY <1>5 DEF Overlay
  <2>3. \A n : n \in DOMAIN after <=> W2(n) # {}
    BY <1>1, <2>1, <2>2
  <2>4. ASSUME NEW n \in DOMAIN after, NEW e \in W2(n), \A f \in W2(n) : f <= e
        PROVE  after[n] = t.dirs[e].info.options[n]
    <3>1. CASE n \in DOMAIN new
      <4>1. e = d
        BY <1>3, <2>1, <2>4, <3>1
      <4> QED BY <2>2, <3>1, <4>1
    <3>2. CASE n \notin DOMAIN new
      BY <1>1, <2>1, <2>2, <2>4, <3>2
    <3> QED BY <3>1, <3>2
  <2> HIDE DEF new
  <2> QED BY <2>2, <2>3, <2>4 DEF OptionsAre, W2
<1> QED BY <1>4, <1>5

\* What is allocated after the next directory, for it or for one before it.
LEMMA OptionsStep ==
    ASSUME NEW t \in Trees, NEW ts, NEW cs, BuiltWell(t, ts, cs), NEW d \in Nat, DOMAIN ts = 1..(d - 1),
           NEW ts2, OneMore(ts, ts2, d), NEW o \in 1..d, NEW after,
           Writes(t, d, ts2[d], o, IF o = d THEN <<>> ELSE cs[o], after)
    PROVE  OptionsAre(t, o, ts2, after)
<1> DEFINE old == IF o = d THEN <<>> ELSE cs[o]
<1>1. OptionsAre(t, o, ts, old)
  <2>1. CASE o # d
    BY <2>1 DEF BuiltWell
  <2>2. CASE o = d
    <3>1. \A e \in DOMAIN ts : ts[e].options # d
      <4> SUFFICES ASSUME NEW e \in DOMAIN ts PROVE ts[e].options # d
        OBVIOUS
      <4>1. ts[e].options \in 0..e /\ e \in Nat /\ e < d
        BY PointerBelow
      <4> QED BY <4>1
    <3>2. \A n : Writers(t, o, ts, n) = {}
      BY <2>2, <3>1 DEF Writers
    <3>3. old = <<>> /\ DOMAIN old = {}
      BY <2>2
    <3>4. old = [n \in DOMAIN old |-> old[n]]
      BY <3>3
    <3> QED BY <3>2, <3>3, <3>4 DEF OptionsAre
  <2> QED BY <2>1, <2>2
<1>2. Writes(t, d, ts2[d], o, old, after)
  OBVIOUS
<1> HIDE DEF old
<1> QED BY <1>1, <1>2, OverlayStep, Zenon

\* buildTestSuite builds the test of the next directory.
Builds(t, ts, cs, ts2, cs2) ==
    LET d    == Len(ts) + 1
        test == PopulateTestCase(IF t.dirs[d].parent = 0 THEN NoTest ELSE ts[t.dirs[d].parent], t.dirs[d].info, d)
    IN /\ ts2 = Append(ts, test)
       /\ cs2 = [e \in 1..d |->
             LET before == IF e = d THEN <<>> ELSE cs[e]
             IN IF e = test.options THEN Overlay(t.dirs[d].info.options, before) ELSE before]

\* It is built as well as those before it.
LEMMA BuildKeeps ==
    ASSUME NEW t \in Trees, NEW ts, NEW cs, BuiltWell(t, ts, cs), Len(ts) < Len(t.dirs), NEW ts2, NEW cs2,
           Builds(t, ts, cs, ts2, cs2)
    PROVE  BuiltWell(t, ts2, cs2)
<1> DEFINE d == Len(ts) + 1
           p == t.dirs[d].parent
           D == DOMAIN t.dirs
           before == IF p = 0 THEN NoTest ELSE ts[p]
           test == PopulateTestCase(before, t.dirs[d].info, d)
<1>a. ts2 = Append(ts, test) /\ DOMAIN cs2 = 1..d /\ cs2 = [o \in 1..d |-> cs2[o]]
  BY DEF Builds
<1>b. \A o \in 1..d : cs2[o] = IF o = test.options
                               THEN Overlay(t.dirs[d].info.options, IF o = d THEN <<>> ELSE cs[o])
                               ELSE IF o = d THEN <<>> ELSE cs[o]
  BY DEF Builds
<1> HIDE DEF test
<1>1. IsList(ts) /\ DOMAIN ts \subseteq D /\ cs = [o \in DOMAIN ts |-> cs[o]]
  BY DEF BuiltWell
<1>2. Len(ts) \in Nat /\ DOMAIN ts = 1..Len(ts)
  BY <1>1 DEF IsList
<1>3. Len(t.dirs) \in Nat /\ D = 1..Len(t.dirs)
  BY TreeFacts
<1>4. d \in D /\ d \in Nat /\ d >= 1 /\ DOMAIN ts = 1..(d - 1)
  BY <1>2, <1>3
<1>5. p \in Nat /\ p < d /\ (p # 0 => p \in DOMAIN ts)
  <2>1. p \in Nat /\ p < d
    BY <1>4, TreeFacts
  <2> QED BY <2>1, <1>4
<1>6. IsList(ts2) /\ DOMAIN ts2 = 1..d /\ ts2[d] = test /\ \A e \in DOMAIN ts : ts2[e] = ts[e]
  <2>1. PICK S : ts \in Seq(S)
    BY <1>1 DEF IsList
  <2>2. ts \in Seq(S \cup {test}) /\ test \in S \cup {test}
    BY <2>1
  <2> HIDE DEF p, D
  <2> DEFINE T == S \cup {test}
  <2> HIDE DEF T
  <2>3. ts \in Seq(T) /\ test \in T
    BY <2>2 DEF T
  <2>4. Append(ts, test) \in Seq(T) /\ Len(Append(ts, test)) = Len(ts) + 1
    BY <2>3
  <2>5. Append(ts, test)[Len(ts) + 1] = test /\ \A e \in 1..Len(ts) : Append(ts, test)[e] = ts[e]
    BY <2>3
  <2>6. DOMAIN Append(ts, test) = 1..Len(Append(ts, test))
    BY <2>4
  <2> QED BY <1>2, <1>a, <2>4, <2>5, <2>6 DEF IsList
<1>7. TestIs(t, d, test) /\ test.options = OptionsOf(before, t.dirs[d].info, d)
  <2>1. IF p = 0 THEN before = NoTest ELSE TestIs(t, p, before)
    BY <1>5 DEF BuiltWell
  <2> HIDE DEF before
  <2> QED BY <1>4, <2>1, PopulateCarriesOver DEF test
<1>8. \A e \in DOMAIN ts2 : TestIs(t, e, ts2[e])
  <2>1. \A e \in DOMAIN ts : TestIs(t, e, ts[e])
    BY DEF BuiltWell
  <2>2. \A e \in 1..d : e = d \/ e \in DOMAIN ts
    BY <1>4
  <2> QED BY <1>6, <1>7, <2>1, <2>2
<1>9. PointerIs(t, d, ts2)
  <2> DEFINE b == IF p = 0 THEN 0 ELSE ts[p].options
  <2>1. before.options = b
    BY DEF NoTest
  <2>2. ts2[d].options = IF t.dirs[d].info.options = <<>> \/ b # 0 THEN b ELSE d
    BY <1>6, <1>7, <2>1 DEF OptionsOf
  <2>3. \A e \in 1..(d - 1) : e \in DOMAIN ts /\ ts2[e] = ts[e]
    BY <1>4, <1>6
  <2> QED BY <1>4, <2>2, <2>3, PointerStep
<1>10. ASSUME NEW e \in DOMAIN ts PROVE PointerIs(t, e, ts2)
  <2>1. PointerIs(t, e, ts) /\ e \in D /\ e \in Nat /\ e < d
    BY <1>1, <1>4 DEF BuiltWell
  <2>2. PathIn(t, e) \subseteq 1..e
    BY <2>1, PathBelow
  <2>3. 1..e \subseteq 1..(d - 1)
    BY <2>1, <1>4
  <2>4. \A f \in PathIn(t, e) : ts2[f] = ts[f]
    BY <2>2, <2>3, <1>4, <1>6
  <2>5. ts2[e] = ts[e]
    BY <1>6
  <2> QED BY <2>1, <2>4, <2>5 DEF PointerIs
<1>11. ASSUME NEW o \in 1..d PROVE OptionsAre(t, o, ts2, cs2[o])
  <2>1. Writes(t, d, ts2[d], o, IF o = d THEN <<>> ELSE cs[o], cs2[o])
    BY <1>6, <1>b DEF Writes
  <2>2. OneMore(ts, ts2, d)
    BY <1>4, <1>6 DEF OneMore
  <2>3. DOMAIN ts = 1..(d - 1) /\ d \in Nat
    BY <1>4
  <2> QED BY <2>1, <2>2, <2>3, OptionsStep, Zenon
<1>12. cs2 = [o \in DOMAIN ts2 |-> cs2[o]]
  BY <1>6, <1>a
<1>13. DOMAIN ts2 \subseteq D
  BY <1>3, <1>4, <1>6
<1>14. \A e \in DOMAIN ts2 : PointerIs(t, e, ts2)
  <2>1. \A e \in 1..d : e = d \/ e \in DOMAIN ts
    BY <1>4
  <2> QED BY <1>6, <1>9, <1>10, <2>1, Zenon
<1> QED BY <1>6, <1>8, <1>11, <1>12, <1>13, <1>14 DEF BuiltWell

\* A bounded set of numbers has a greatest one.
LEMMA Greatest ==
    ASSUME NEW d \in Nat, NEW S \in SUBSET (1..d), S # {}
    PROVE  \E e \in S : \A f \in S : f <= e
<1> DEFINE T == {k \in 0..d : d - k \in S}
<1>1. PICK x \in S : TRUE
  OBVIOUS
<1>2. \A y \in 1..d : y \in Nat /\ d - (d - y) = y /\ d - y \in 0..d
  OBVIOUS
<1>3. d - x \in T
  <2>1. x \in 1..d /\ d - (d - x) = x /\ d - x \in 0..d
    BY <1>1, <1>2
  <2>2. d - (d - x) \in S
    BY <1>1, <2>1
  <2> QED BY <2>1, <2>2
<1>4. T \subseteq Nat
  OBVIOUS
<1>5. \A f \in S : d - f \in T /\ f \in Nat
  <2> SUFFICES ASSUME NEW f \in S PROVE d - f \in T /\ f \in Nat
    OBVIOUS
  <2>1. f \in 1..d /\ d - (d - f) = f /\ d - f \in 0..d /\ f \in Nat
    BY <1>2
  <2>2. d - (d - f) \in S
    BY <2>1
  <2> QED BY <2>1, <2>2
<1>6. \A k \in T : d - k \in S /\ k \in Nat
  OBVIOUS
<1> HIDE DEF T
<1>7. PICK k \in T : \A l \in T : k <= l
  BY <1>3, <1>4, Least
<1>8. \A f \in S : f <= d - k
  <2> SUFFICES ASSUME NEW f \in S PROVE f <= d - k
    OBVIOUS
  <2>1. k <= d - f /\ k \in Nat /\ f \in Nat
    BY <1>5, <1>6, <1>7
  <2> QED BY <2>1
<1> QED BY <1>6, <1>7, <1>8

\* The directories whose options count for a test: those below the topmost one of
\* its path that has any.
SpecifyIn(t, d) == {e \in PathIn(t, d) : t.dirs[e].info.options # <<>>}
WritersIn(t, d) ==
    IF SpecifyIn(t, d) = {} THEN {}
    ELSE {e \in DOMAIN t.dirs : (CHOOSE o \in SpecifyIn(t, d) : \A f \in SpecifyIn(t, d) : o <= f) \in PathIn(t, e)}

OptionsInForceIn(t, d) ==
    [n \in UNION {DOMAIN t.dirs[e].info.options : e \in WritersIn(t, d)} |->
       LET saying == {e \in WritersIn(t, d) : n \in DOMAIN t.dirs[e].info.options}
       IN t.dirs[CHOOSE e \in saying : \A f \in saying : f <= e].info.options[n]]

OptionsFor(test, cs) == IF test.options = 0 THEN <<>> ELSE cs[test.options]

\* The pointer of a test leads to the topmost directory of its path that has
\* options, and the tests that share it are those below that directory.
LEMMA PointersAreShared ==
    ASSUME NEW t \in Trees, NEW ts, NEW cs, BuiltWell(t, ts, cs), DOMAIN ts = DOMAIN t.dirs, NEW d \in DOMAIN ts,
           NEW o, o = ts[d].options
    PROVE  /\ o = 0 => WritersIn(t, d) = {}
           /\ o # 0 => /\ o \in DOMAIN ts
                       /\ \A e : e \in WritersIn(t, d) <=> e \in DOMAIN ts /\ ts[e].options = o
<1> DEFINE says(e) == t.dirs[e].info.options
           specify == SpecifyIn(t, d)
           top == CHOOSE e \in specify : \A f \in specify : e <= f
<1>1. \A e \in DOMAIN ts : /\ PointerIs(t, e, ts) /\ e \in Nat /\ ts[e].options \in Nat
                           /\ PathIn(t, e) \subseteq 1..e /\ e \in PathIn(t, e) /\ PathIn(t, e) \subseteq DOMAIN ts
  <2> SUFFICES ASSUME NEW e \in DOMAIN ts
               PROVE  /\ PointerIs(t, e, ts) /\ e \in Nat /\ ts[e].options \in Nat
                      /\ PathIn(t, e) \subseteq 1..e /\ e \in PathIn(t, e) /\ PathIn(t, e) \subseteq DOMAIN ts
    OBVIOUS
  <2>1. PointerIs(t, e, ts)
    BY DEF BuiltWell
  <2>2. ts[e].options \in 0..e /\ e \in DOMAIN t.dirs /\ e \in Nat
    BY PointerBelow
  <2>3. PathIn(t, e) \subseteq 1..e /\ e \in PathIn(t, e) /\ PathIn(t, e) \subseteq DOMAIN ts
    BY <2>2, PathBelow
  <2> QED BY <2>1, <2>2, <2>3
<1>2. CASE o = 0
  <2>1. specify = {}
    BY <1>1, <1>2 DEF PointerIs, SpecifyIn
  <2> QED BY <1>2, <2>1 DEF WritersIn
<1>3. CASE o # 0
  <2>1. /\ o \in PathIn(t, d) /\ says(o) # <<>> /\ o \in DOMAIN ts /\ o \in Nat
        /\ \A e \in PathIn(t, d) : (e >= o => ts[e].options = o) /\ (e < o => says(e) = <<>>)
    BY <1>1, <1>3 DEF PointerIs
  <2>2. ts[o].options = o
    BY <2>1
  <2>3. o \in specify /\ \A f \in specify : o <= f /\ f \in Nat
    <3>1. o \in specify
      BY <2>1 DEF SpecifyIn
    <3>2. ASSUME NEW f \in specify PROVE o <= f /\ f \in Nat
      <4>1. f \in PathIn(t, d) /\ says(f) # <<>>
        BY <3>2 DEF SpecifyIn
      <4>2. f \in Nat
        BY <4>1, <1>1
      <4>3. ~(f < o)
        BY <4>1, <2>1
      <4> QED BY <4>2, <4>3, <2>1
    <3> QED BY <3>1, <3>2
  <2> HIDE DEF specify, says
  <2>4. top \in specify /\ \A f \in specify : top <= f
    BY <2>3
  <2> HIDE DEF top
  <2>5. top = o
    BY <2>3, <2>4
  <2>6. \A e : e \in WritersIn(t, d) <=> e \in DOMAIN ts /\ o \in PathIn(t, e)
    BY <2>3, <2>5 DEF WritersIn, specify, top
  <2>7. ASSUME NEW e \in DOMAIN ts PROVE ts[e].options = o <=> o \in PathIn(t, e)
    <3>1. ASSUME ts[e].options = o PROVE o \in PathIn(t, e)
      BY <3>1, <1>1, <1>3 DEF PointerIs
    <3>2. ASSUME o \in PathIn(t, e) PROVE ts[e].options = o
      <4> DEFINE q == ts[e].options
      <4>1. says(o) # <<>> /\ PointerIs(t, e, ts) /\ q \in Nat
        BY <1>1, <2>1
      <4>2. q # 0
        BY <3>2, <4>1 DEF PointerIs, says
      <4>3. (o >= q => ts[o].options = q) /\ (o < q => says(o) = <<>>)
        BY <3>2, <4>1, <4>2 DEF PointerIs, says
      <4> QED BY <4>1, <4>3, <2>1, <2>2
    <3> QED BY <3>1, <3>2
  <2> QED BY <1>3, <2>1, <2>6, <2>7
<1> QED BY <1>2, <1>3

\* A test is compared with the options that the directories below the topmost one
\* of its path with options have written last, those beside its path included.
LEMMA OptionsCount ==
    ASSUME NEW t \in Trees, NEW ts, NEW cs, BuiltWell(t, ts, cs), DOMAIN ts = DOMAIN t.dirs, NEW d \in DOMAIN ts
    PROVE  OptionsFor(ts[d], cs) = OptionsInForceIn(t, d)
<1> DEFINE o == ts[d].options
           says(e) == t.dirs[e].info.options
           writers == WritersIn(t, d)
           names == UNION {DOMAIN says(e) : e \in writers}
           saying(n) == {e \in writers : n \in DOMAIN says(e)}
           last(n) == CHOOSE e \in saying(n) : \A f \in saying(n) : f <= e
           meant == [n \in names |-> says(last(n))[n]]
<1>1. OptionsInForceIn(t, d) = meant
  BY DEF OptionsInForceIn
<1>2. /\ o = 0 => writers = {}
      /\ o # 0 => /\ o \in DOMAIN ts
                  /\ \A e : e \in writers <=> e \in DOMAIN ts /\ ts[e].options = o
  BY PointersAreShared
<1>3. Len(ts) \in Nat /\ DOMAIN ts = 1..Len(ts)
  BY DEF BuiltWell, IsList
<1> HIDE DEF writers
<1>5. CASE o = 0
  <2>1. names = {}
    BY <1>2, <1>5
  <2> HIDE DEF names, saying, last
  <2>2. meant = <<>>
    BY <2>1
  <2> QED BY <1>1, <1>5, <2>2 DEF OptionsFor
<1>6. CASE o # 0
  <2>3. OptionsAre(t, o, ts, cs[o])
    BY <1>2, <1>6 DEF BuiltWell
  <2>5. \A n : Writers(t, o, ts, n) = saying(n)
    BY <1>2, <1>6 DEF Writers
  <2>6. \A n : saying(n) # {} <=> n \in names
    OBVIOUS
  <2>7. ASSUME NEW n \in names
        PROVE  last(n) \in saying(n) /\ \A f \in saying(n) : f <= last(n)
    <3>1. saying(n) # {} /\ saying(n) \in SUBSET (1..Len(ts))
      BY <2>6, <1>2, <1>3, <1>6
    <3> HIDE DEF saying
    <3>2. \E e \in saying(n) : \A f \in saying(n) : f <= e
      BY <3>1, <1>3, Greatest
    <3> QED BY <3>2
  <2> DEFINE c == cs[o]
  <2> HIDE DEF names, saying, last, c
  <2>8. /\ c = [n \in DOMAIN c |-> c[n]]
        /\ \A n : n \in DOMAIN c <=> saying(n) # {}
        /\ \A n \in DOMAIN c : \A e \in saying(n) :
              (\A f \in saying(n) : f <= e) => c[n] = says(e)[n]
    BY <2>3, <2>5 DEF OptionsAre, c
  <2>9. DOMAIN c = names
    BY <2>6, <2>8
  <2>10. \A n \in names : c[n] = says(last(n))[n]
    BY <2>7, <2>8, <2>9
  <2> HIDE DEF says
  <2>11. c = meant
    BY <2>8, <2>9, <2>10
  <2> QED BY <1>1, <1>6, <2>11 DEF OptionsFor, c
<1> QED BY <1>5, <1>6

-----------------------------------------------------------------------------
(***************************************************************************)
(* The verdicts and the outcome.                                           *)
(***************************************************************************)
VerdictOf(d) == RunOf(tests[d], CompareOptions(tests[d]))

\* The verdict of a test does not change once the tests are built.
LEMMA VerdictStays ==
    ASSUME UNCHANGED <<tree, tests, compare>>, NEW d
    PROVE  VerdictOf(d)' = VerdictOf(d)
BY DEF VerdictOf, RunOf, Compared, GetActualObject, GetTemplate, PreprocessYtt, EnsureYTTAvailable, StampSupplyChain,
       StampFor, StampResource, ReadAllPaths, StampMock, CompareOptions, GetWorkload, GetExpected

\* The elements of a list.
LEMMA ListElement ==
    ASSUME NEW S, NEW list \in Seq(S), NEW i \in DOMAIN list
    PROVE  list[i] \in S
OBVIOUS

\* The only match is one of the blueprints (BestSelectorMatch), also when they
\* were not validated.
LEMMA OnlyMatchIsListed ==
    ASSUME NEW owner, NEW S, NEW list \in Seq(S),
           \A i \in DOMAIN list :
              /\ IsFiniteSet(list[i].selector.labels)
              /\ IsList(list[i].selector.exprs) /\ IsList(list[i].selector.fields),
           Len(BestSelectorMatch(owner, list).matches) = 1
    PROVE  \E i \in DOMAIN list : BestSelectorMatch(owner, list).matches[1] = list[i]
<1> DEFINE n == Len(list)
           sel == [i \in DOMAIN list |-> LegacySelectorToSelector(list[i])]
           found == BestSelectorMatchIndices(owner, sel)
           V == {LegacySelectorToSelector(list[i]) : i \in DOMAIN list}
<1>1. n \in Nat /\ DOMAIN list = 1..n
  OBVIOUS
<1>2. sel \in Seq(V) /\ Len(sel) = n /\ \A i \in 1..n : sel[i] = LegacySelectorToSelector(list[i])
  BY <1>1
<1>3. \A i \in 1..n : Specificity(sel[i]) \in Nat /\ Fit(owner, sel[i]) \in Fits
  <2> SUFFICES ASSUME NEW i \in 1..n PROVE Specificity(sel[i]) \in Nat /\ Fit(owner, sel[i]) \in Fits
    OBVIOUS
  <2> DEFINE s == sel[i]
  <2>1. s.labels = list[i].selector.labels /\ s.exprs = list[i].selector.exprs /\ s.fields = list[i].selector.fields
    BY <1>2 DEF LegacySelectorToSelector, Selector
  <2> HIDE DEF s
  <2>2. Cardinality(s.labels) \in Nat
    BY <1>1, <2>1, FS_CardinalityType
  <2>3. Len(s.exprs) \in Nat /\ Len(s.fields) \in Nat
    BY <1>1, <2>1 DEF IsList
  <2>4. Specificity(s) \in Nat
    BY <2>2, <2>3 DEF Specificity
  <2>5. Fit(owner, s) \in Fits
    BY DEF Fit, MatchesAllFields, Fits
  <2> QED BY <2>4, <2>5 DEF s
<1> HIDE DEF sel, V, n
<1>4. found \in Accumulators(n)
  <2> HIDE DEF found
  <2>1. \A i \in 1..Len(sel) : Specificity(sel[i]) \in Nat /\ Fit(owner, sel[i]) \in Fits
    BY <1>2, <1>3
  <2>2. PICK f \in [0..Len(sel) -> Accumulators(Len(sel))] : found = f[Len(sel)]
    BY <1>2, <2>1, BestSelectorLoop DEF found
  <2> QED BY <1>1, <1>2, <2>2
<1>5. found.best \in Seq(1..n)
  BY <1>4 DEF Accumulators
<1> DEFINE m == [i \in DOMAIN found.best |-> list[found.best[i]]]
<1>6. BestSelectorMatch(owner, list).matches = m
  BY DEF BestSelectorMatch, BlueprintsOf, sel
<1> HIDE DEF found
<1>7. DOMAIN found.best = 1..Len(found.best) /\ Len(found.best) \in Nat
  BY <1>5
<1>8. Len(m) = Len(found.best)
  BY <1>7
<1>9. 1 \in DOMAIN found.best
  <2> HIDE DEF m
  <2>1. Len(found.best) = 1
    BY <1>6, <1>8
  <2> QED BY <1>7, <2>1
<1>10. found.best[1] \in 1..n /\ m[1] = list[found.best[1]]
  <2>1. m[1] = list[found.best[1]]
    BY <1>9
  <2>2. found.best[1] \in 1..n
    <3> HIDE DEF m
    <3> QED BY <1>5, <1>9, ListElement, Zenon
  <2> QED BY <2>1, <2>2
<1> QED BY <1>1, <1>6, <1>10

\* The first resource with the name of the target has it.
LEMMA TargetIsNamed ==
    ASSUME NEW supplyChain, IsList(supplyChain.resources), NEW name, TargetResource(supplyChain, name) # Nil
    PROVE  \E r \in DOMAIN supplyChain.resources :
              /\ supplyChain.resources[r].name = name
              /\ TargetResource(supplyChain, name) = supplyChain.resources[r]
<1> DEFINE found == {r \in DOMAIN supplyChain.resources : supplyChain.resources[r].name = name}
           first == CHOOSE r \in found : \A s \in found : r <= s
<1>1. found # {} /\ TargetResource(supplyChain, name) = supplyChain.resources[first]
  BY DEF TargetResource
<1>2. found \subseteq Nat
  BY DEF IsList
<1>3. first \in found
  <2> HIDE DEF found
  <2>1. \E r \in found : \A s \in found : r <= s
    BY <1>1, <1>2, Least
  <2> QED BY <2>1
<1> HIDE DEF first
<1> QED BY <1>1, <1>3

\* A test that passes with real supply chains has found the supply chain and the
\* template that the controller would use.
LEMMA PassIsAsController ==
    ASSUME NEW t \in Trees, NEW d \in DOMAIN t.dirs, NEW test, TestIs(t, d, test), NEW opts,
           RunOf(test, opts) = "pass"
    PROVE  SameAsController(test)
<1> SUFFICES ASSUME test.chain.real, test.workload.labels # {}
             PROVE  \E found \in {GetSupplyChain(test.workload, test.chain.paths)} :
                       /\ found.err = "none"
                       /\ \E r \in DOMAIN found.chain.resources :
                            /\ found.chain.resources[r].name = test.chain.target
                            /\ GetTemplateNameFromResource(test.workload, found.chain.resources[r]).tmpl = test.template.name
  BY DEF SameAsController
<1> DEFINE paths == test.chain.paths
           chains == ReadAllPaths(test.chain)
           sc == SelectedSupplyChain(test, chains)
           resource == TargetResource(sc, test.chain.target)
<1>1. paths = t.dirs[d].info.paths
  <2>1. test.chain = OwnChain(t.dirs[d].info) /\ test.chain.real
    BY DEF TestIs
  <2> QED BY <2>1 DEF OwnChain, FileSet, MockOf
<1>2. GetActualObject(test) # Nil
  BY DEF RunOf, Compared
<1>3. StampSupplyChain(test) # Nil
  BY <1>2 DEF GetActualObject
<1>4. sc # Nil /\ StampResource(test, sc, resource) # Nil
  BY <1>3 DEF StampSupplyChain, StampFor
<1>5. resource # Nil /\ TemplateMatchesResource(test, resource)
  BY <1>4 DEF StampResource
<1> DEFINE found == BestSelectorMatch(test.workload, chains)
<1>6. chains # Unreadable /\ found.err = "none" /\ Len(found.matches) = 1 /\ sc = found.matches[1]
  BY <1>4 DEF SelectedSupplyChain, SingleMatch
<1>7. \/ paths = Nil /\ chains = <<>>
      \/ paths # Nil /\ chains = paths /\ \A i \in DOMAIN paths : paths[i] # Unreadable
  BY <1>6 DEF ReadAllPaths, Range
<1> HIDE DEF chains, sc, resource
<1>8. /\ IsList(chains)
      /\ \A i \in DOMAIN chains :
           /\ IsFiniteSet(chains[i].selector.labels)
           /\ IsList(chains[i].selector.exprs) /\ IsList(chains[i].selector.fields)
           /\ IsList(chains[i].resources)
  <2>1. CASE paths = Nil /\ chains = <<>>
    BY <2>1 DEF IsList
  <2>2. CASE paths # Nil /\ chains = paths /\ \A i \in DOMAIN paths : paths[i] # Unreadable
    <3> DEFINE ps == t.dirs[d].info.paths
               Shape(x) == /\ x.resources \in Seq(ToSet(x.resources)) /\ IsFiniteSet(x.selector.labels)
                           /\ x.selector.exprs \in Seq(ToSet(x.selector.exprs))
                           /\ x.selector.fields \in Seq(ToSet(x.selector.fields))
    <3>1. ps # Nil => ps \in Seq(ToSet(ps)) /\ \A i \in DOMAIN ps : ps[i] # Unreadable => Shape(ps[i])
      BY TreesAssumption
    <3>2. \A x : Shape(x) => /\ IsFiniteSet(x.selector.labels) /\ IsList(x.selector.exprs)
                            /\ IsList(x.selector.fields) /\ IsList(x.resources)
      BY DEF IsList
    <3>3. chains = ps /\ ps # Nil /\ \A i \in DOMAIN ps : ps[i] # Unreadable
      BY <2>2, <1>1
    <3> HIDE DEF ps, Shape, paths
    <3>4. IsList(ps) /\ \A i \in DOMAIN ps : Shape(ps[i])
      BY <3>1, <3>3 DEF IsList
    <3> QED BY <3>2, <3>3, <3>4
  <2> QED BY <1>7, <2>1, <2>2
<1>9. PICK i \in DOMAIN chains : sc = chains[i]
  <2>1. PICK S : chains \in Seq(S)
    BY <1>8 DEF IsList
  <2> QED BY <2>1, <1>6, <1>8, OnlyMatchIsListed
<1>10. chains = paths
  BY <1>7, <1>9
<1>11. PICK r \in DOMAIN sc.resources :
          sc.resources[r].name = test.chain.target /\ resource = sc.resources[r]
  BY <1>5, <1>8, <1>9, TargetIsNamed DEF resource
<1>12. GetTemplateNameFromResource(test.workload, sc.resources[r]).tmpl = test.template.name
  BY <1>5, <1>11 DEF TemplateMatchesResource
<1> HIDE DEF found
<1>13. found.matches # <<>> /\ ~(Len(found.matches) > 1)
  <2>1. Len(<<>>) # 1
    OBVIOUS
  <2>2. found.matches # <<>>
    BY <2>1, <1>6, Zenon
  <2>3. ~(Len(found.matches) > 1)
    BY <1>6
  <2> QED BY <2>2, <2>3
<1>14. GetSupplyChain(test.workload, paths) = [err |-> "none", chain |-> sc]
  <2>1. GetSupplyChain(test.workload, paths) = OnlyMatch(test.workload, found)
    BY <1>10 DEF GetSupplyChain, found
  <2> QED BY <2>1, <1>6, <1>13 DEF OnlyMatch
<1> QED BY <1>11, <1>12, <1>14

\* Of the focus, a directory says yes or no.
LEMMA FocusIsBoolean ==
    ASSUME NEW t \in Trees, NEW d \in DOMAIN t.dirs
    PROVE  InEffectIn(t, d, "focus") \in {Nil, TRUE, FALSE}
<1> DEFINE saying == SayingIn(t, d, "focus")
           last == CHOOSE e \in saying : \A f \in saying : f <= e
           value == t.dirs[last].info.focus
<1>1. PathIn(t, d) \subseteq 1..d /\ PathIn(t, d) \subseteq DOMAIN t.dirs /\ d \in Nat
  BY PathBelow, TreeFacts
<1>2. saying \in SUBSET (1..d) /\ saying \subseteq DOMAIN t.dirs
  BY <1>1 DEF SayingIn
<1>3. InEffectIn(t, d, "focus") = IF saying = {} THEN Nil ELSE value
  BY DEF InEffectIn
<1> HIDE DEF saying
<1>4. saying # {} => last \in DOMAIN t.dirs
  <2> SUFFICES ASSUME saying # {} PROVE last \in DOMAIN t.dirs
    OBVIOUS
  <2>1. \E e \in saying : \A f \in saying : f <= e
    BY <1>1, <1>2, Greatest
  <2>2. last \in saying
    BY <2>1
  <2> QED BY <1>2, <2>2
<1> HIDE DEF last
<1>5. saying # {} => value \in {Nil, TRUE, FALSE}
  BY <1>4, TreesAssumption, Zenon
<1> HIDE DEF value
<1> QED BY <1>3, <1>5, Zenon

\* A test says what is meant by it.
LEMMA MeantIsTested ==
    ASSUME NEW test, IsTest(test)
    PROVE  [test EXCEPT !.template = test.template, !.values = test.values, !.workload = test.workload,
                        !.expect = test.expect, !.chain = test.chain] = test
BY DEF IsTest, TestFields

AllBuilt == tree # Nil /\ Len(tests) = Len(tree.dirs)

\* What holds throughout: the tests are built well, the verdicts are those of
\* the tests, and the outcome follows from them.
SuiteInv ==
    /\ tree = Nil => tests = <<>> /\ compare = <<>> /\ verdicts = <<>> /\ outcome = Nil
    /\ tree # Nil => tree \in Trees /\ BuiltWell(tree, tests, compare)
    /\ DOMAIN verdicts # {} => AllBuilt
    /\ \A d \in DOMAIN verdicts : d \in TestsToRun /\ verdicts[d] = VerdictOf(d)
    /\ outcome \in {"PASS", "FAIL"} => AllBuilt
    /\ outcome = "PASS" => DOMAIN verdicts = Leaves /\ \A d \in DOMAIN verdicts : verdicts[d] = "pass"
    /\ outcome = "FAIL" => Focused # {} \/ \E d \in DOMAIN verdicts : verdicts[d] # "pass"

\* What does not change once the tests are built.
LEMMA BuiltStays ==
    ASSUME UNCHANGED <<tree, tests>>
    PROVE  Leaves' = Leaves /\ Focused' = Focused /\ TestsToRun' = TestsToRun /\ AllBuilt' = AllBuilt
<1>1. Leaves' = Leaves
  BY DEF Leaves, Subdirectories
<1>2. Focused' = Focused
  BY <1>1 DEF Focused
<1> QED BY <1>1, <1>2 DEF TestsToRun, AllBuilt

\* Every step keeps it.
LEMMA SuiteInvariant == CartotestInit /\ [][CartotestNext]_cartotestVars => []SuiteInv
<1>0. Nil # "PASS" /\ Nil # "FAIL"
  BY OutcomeAssumption, Zenon
<1>1. CartotestInit => SuiteInv
  BY <1>0 DEF CartotestInit, SuiteInv
<1>2. SuiteInv /\ [CartotestNext]_cartotestVars => SuiteInv'
  <2> SUFFICES ASSUME SuiteInv, [CartotestNext]_cartotestVars PROVE SuiteInv'
    OBVIOUS
  <2>1. CASE CliTest
    <3>1. /\ tests' = <<>> /\ compare' = <<>> /\ verdicts' = <<>> /\ outcome' = Nil
          /\ tree' \in Trees
      BY <2>1 DEF CliTest, SuiteInv
    <3>2. BuiltWell(tree', <<>>, <<>>)
      <4>1. DOMAIN <<>> = {} /\ IsList(<<>>)
        BY DEF IsList
      <4> QED BY <4>1 DEF BuiltWell
    <3> QED BY <1>0, <3>1, <3>2 DEF SuiteInv
  <2>2. CASE BuildTestSuite
    <3>1. /\ tree # Nil /\ outcome = Nil /\ Len(tests) < Len(tree.dirs)
          /\ tree' = tree /\ verdicts' = verdicts
      BY <2>2 DEF BuildTestSuite
    <3>2. tree \in Trees /\ BuiltWell(tree, tests, compare)
      BY <3>1 DEF SuiteInv
    <3>3. Len(tests) \in Nat /\ Len(tree.dirs) \in Nat
      BY <3>2, TreeFacts DEF BuiltWell, IsList
    <3>4. DOMAIN verdicts = {}
      <4>1. Len(tests) # Len(tree.dirs)
        BY <3>1, <3>3
      <4> QED BY <4>1 DEF SuiteInv, AllBuilt
    <3>5. outcome' # "PASS" /\ outcome' # "FAIL"
      <4>1. outcome' = "build fails" \/ outcome' = Nil
        BY <2>2, <3>1, Zenon DEF BuildTestSuite
      <4> QED BY <1>0, <4>1, Zenon
    <3>6. BuiltWell(tree, tests', compare')
      <4>1. CASE UNCHANGED <<tests, compare>>
        BY <4>1, <3>2
      <4>2. CASE ~UNCHANGED <<tests, compare>>
        <5> DEFINE d == Len(tests) + 1
                   before == IF tree.dirs[d].parent = 0 THEN NoTest ELSE tests[tree.dirs[d].parent]
                   test == PopulateTestCase(before, tree.dirs[d].info, d)
        <5>1. /\ tests' = Append(tests, test)
              /\ compare' = [e \in 1..d |->
                     LET old == IF e = d THEN <<>> ELSE compare[e]
                     IN IF e = test.options THEN Overlay(tree.dirs[d].info.options, old) ELSE old]
          BY <2>2, <4>2 DEF BuildTestSuite, Info
        <5>2. Builds(tree, tests, compare, tests', compare')
          BY <5>1 DEF Builds
        <5> QED BY <3>1, <3>2, <5>2, BuildKeeps
      <4> QED BY <4>1, <4>2
    <3> QED BY <1>0, <3>1, <3>2, <3>4, <3>5, <3>6 DEF SuiteInv
  <2>3. ASSUME NEW d \in DOMAIN tests, RunTest(d) PROVE SuiteInv'
    <3>1. /\ UNCHANGED <<tree, tests, compare>> /\ AllBuilt /\ outcome = Nil /\ d \in TestsToRun
          /\ \/ outcome' = "panic" /\ verdicts' = verdicts
             \/ /\ outcome' = outcome
                /\ verdicts' = [e \in DOMAIN verdicts \cup {d} |-> IF e = d THEN VerdictOf(d) ELSE verdicts[e]]
      BY <2>3 DEF RunTest, Built, AllBuilt, VerdictOf
    <3>2. \A e \in DOMAIN verdicts' : e \in TestsToRun /\ verdicts'[e] = VerdictOf(e)
      BY <3>1 DEF SuiteInv
    <3>3. \A e : VerdictOf(e)' = VerdictOf(e)
      BY <3>1, VerdictStays
    <3>4. TestsToRun' = TestsToRun /\ AllBuilt' = AllBuilt
      BY <3>1, BuiltStays
    <3>5. outcome' # "PASS" /\ outcome' # "FAIL"
      BY <3>1, <1>0
    <3>6. tree' # Nil /\ tree' \in Trees /\ BuiltWell(tree', tests', compare')
      BY <3>1 DEF SuiteInv, AllBuilt
    <3> QED BY <3>1, <3>2, <3>3, <3>4, <3>5, <3>6 DEF SuiteInv
  <2>4. CASE ReportTestResults
    <3>1. /\ UNCHANGED <<tree, tests, compare, verdicts>> /\ AllBuilt /\ DOMAIN verdicts = TestsToRun
          /\ outcome' = IF Focused # {} \/ \E d \in DOMAIN verdicts : verdicts[d] # "pass" THEN "FAIL" ELSE "PASS"
      BY <2>4 DEF ReportTestResults, Built, AllBuilt
    <3>2. \A e : VerdictOf(e)' = VerdictOf(e)
      BY <3>1, VerdictStays
    <3>3. TestsToRun' = TestsToRun /\ AllBuilt' = AllBuilt /\ Leaves' = Leaves /\ Focused' = Focused
      BY <3>1, BuiltStays
    <3>4. tree' # Nil /\ tree' \in Trees /\ BuiltWell(tree', tests', compare')
      BY <3>1 DEF SuiteInv, AllBuilt
    <3>5. outcome' = "PASS" => DOMAIN verdicts = Leaves /\ \A d \in DOMAIN verdicts : verdicts[d] = "pass"
      BY <3>1 DEF TestsToRun
    <3>6. outcome' = "FAIL" => Focused # {} \/ \E d \in DOMAIN verdicts : verdicts[d] # "pass"
      BY <3>1
    <3>7. \A d \in DOMAIN verdicts : d \in TestsToRun /\ verdicts[d] = VerdictOf(d)
      BY DEF SuiteInv
    <3> QED BY <3>1, <3>2, <3>3, <3>4, <3>5, <3>6, <3>7 DEF SuiteInv
  <2>5. CASE UNCHANGED cartotestVars
    <3>1. UNCHANGED <<tree, tests, compare, verdicts, outcome>>
      BY <2>5 DEF cartotestVars
    <3>2. \A e : VerdictOf(e)' = VerdictOf(e)
      BY <3>1, VerdictStays
    <3>3. TestsToRun' = TestsToRun /\ AllBuilt' = AllBuilt /\ Leaves' = Leaves /\ Focused' = Focused
      BY <3>1, BuiltStays
    <3> QED BY <3>1, <3>2, <3>3 DEF SuiteInv
  <2> QED BY <2>1, <2>2, <2>3, <2>4, <2>5 DEF CartotestNext
<1> QED BY <1>1, <1>2, PTL

\* The operators of Cartotest are those above, for its tree.
LEMMA OfTheTree ==
    ASSUME NEW d
    PROVE  /\ \A field : InEffect(d, field) = InEffectIn(tree, d, field)
           /\ OptionsInForce(d) = OptionsInForceIn(tree, d)
           /\ CompareOptions(tests[d]) = OptionsFor(tests[d], compare)
<1>1. \A e : Path(e) = PathIn(tree, e)
  BY DEF Path, PathIn
<1>2. \A field : InEffect(d, field) = InEffectIn(tree, d, field)
  BY DEF InEffect, InEffectIn, SayingIn, Info, Path, PathIn
<1>3. OptionsInForce(d) = OptionsInForceIn(tree, d)
  BY DEF OptionsInForce, OptionsInForceIn, WritersIn, SpecifyIn, Info, Path, PathIn
<1>4. CompareOptions(tests[d]) = OptionsFor(tests[d], compare)
  BY DEF CompareOptions, OptionsFor
<1> QED BY <1>2, <1>3, <1>4

\* When cartotest says PASS, every directory without subdirectories was tested
\* and holds: with the template, the workload and the expected object that the
\* lowest directory of its path specifies, with the supply chain that it specifies
\* itself and no other, and with the compare options last written by any directory
\* below the topmost one of its path that has some; with real supply chains the
\* controller would choose the same chain and template.  When it says FAIL, a test
\* is focused or does not hold in this sense.  For every set of trees, of any depth
\* and breadth (buildTestSuite, populateTestCase, Run and reportTestResults).
THEOREM SuiteTellsTheTruth == CartotestInit /\ [][CartotestNext]_cartotestVars => []SuiteIsHonest
<1>1. SuiteInv => SuiteIsHonest
  <2> SUFFICES ASSUME SuiteInv, AllBuilt PROVE SuiteIsHonest
    BY DEF SuiteInv, SuiteIsHonest
  <2>1. tree \in Trees /\ BuiltWell(tree, tests, compare) /\ DOMAIN tests = DOMAIN tree.dirs
    <3>1. tree \in Trees /\ BuiltWell(tree, tests, compare) /\ Len(tests) = Len(tree.dirs)
      BY DEF SuiteInv, AllBuilt
    <3>2. DOMAIN tests = 1..Len(tests)
      BY <3>1 DEF BuiltWell, IsList
    <3>3. DOMAIN tree.dirs = 1..Len(tree.dirs)
      BY <3>1, TreeFacts
    <3> QED BY <3>1, <3>2, <3>3
  <2>2. \A d \in Leaves : d \in DOMAIN tests /\ d \in DOMAIN tree.dirs
    BY <2>1 DEF Leaves
  <2>3. \A d \in Leaves : CompareOptions(tests[d]) = OptionsInForce(d)
    BY <2>1, <2>2, OfTheTree, OptionsCount
  <2>4. \A d \in Leaves : TestIs(tree, d, tests[d])
    BY <2>1, <2>2 DEF BuiltWell
  <2>5. ASSUME NEW d \in Leaves PROVE TestWith(d, OwnChain(Info(d))) = tests[d]
    <3> DEFINE test == tests[d]
    <3>1. /\ IsTest(test) /\ test.chain = OwnChain(Info(d))
          /\ test.template = InEffect(d, "template") /\ test.values = InEffect(d, "values")
          /\ test.workload = InEffect(d, "workload") /\ test.expect = InEffect(d, "expect")
      BY <2>4, OfTheTree DEF TestIs, Info
    <3> HIDE DEF test
    <3>2. [test EXCEPT !.template = test.template, !.values = test.values, !.workload = test.workload,
                       !.expect = test.expect, !.chain = test.chain] = test
      BY <3>1, MeantIsTested
    <3>3. [test EXCEPT !.template = InEffect(d, "template"), !.values = InEffect(d, "values"),
                       !.workload = InEffect(d, "workload"), !.expect = InEffect(d, "expect"),
                       !.chain = OwnChain(Info(d))] = test
      BY <3>1, <3>2
    <3> QED BY <3>3 DEF TestWith, test
  <2> DEFINE holds(d) == RunOf(TestWith(d, OwnChain(Info(d))), OptionsInForce(d)) = "pass"
  <2>6. \A d \in Leaves : holds(d) <=> VerdictOf(d) = "pass"
    BY <2>3, <2>5, Zenon DEF VerdictOf
  <2>7. ASSUME outcome = "PASS", NEW d \in Leaves PROVE holds(d) /\ SameAsController(tests[d])
    <3>1. VerdictOf(d) = "pass"
      BY <2>7 DEF SuiteInv
    <3>2. SameAsController(tests[d])
      BY <2>1, <2>2, <2>4, <3>1, PassIsAsController DEF VerdictOf
    <3> QED BY <2>6, <3>1, <3>2
  <2>8. ASSUME outcome = "FAIL" PROVE \E d \in Leaves : InEffect(d, "focus") = TRUE \/ ~holds(d)
    <3> HIDE DEF holds
    <3>1. CASE Focused # {}
      <4>1. PICK d \in Leaves : tests[d].focus
        BY <3>1 DEF Focused
      <4>2. tests[d].focus = FocusIn(tree, d)
        BY <2>4 DEF TestIs
      <4>3. InEffectIn(tree, d, "focus") \in {Nil, TRUE, FALSE}
        BY <2>1, <2>2, FocusIsBoolean
      <4>4. InEffectIn(tree, d, "focus") = TRUE
        BY <4>1, <4>2, <4>3, Zenon DEF FocusIn
      <4>5. InEffect(d, "focus") = TRUE
        BY <4>4, OfTheTree, Zenon
      <4> QED BY <4>5, Zenon
    <3>2. CASE \E d \in DOMAIN verdicts : verdicts[d] # "pass"
      <4>1. PICK d \in DOMAIN verdicts : verdicts[d] # "pass"
        BY <3>2
      <4>2. d \in Leaves
        BY <4>1 DEF SuiteInv, TestsToRun, Focused
      <4>3. VerdictOf(d) # "pass"
        BY <4>1 DEF SuiteInv
      <4> QED BY <2>6, <4>2, <4>3
    <3> QED BY <2>8, <3>1, <3>2 DEF SuiteInv
  <2> QED BY <2>7, <2>8 DEF SuiteIsHonest
<1> QED BY <1>1, SuiteInvariant, PTL
=============================================================================
