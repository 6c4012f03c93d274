---------------------------- MODULE LimiterProofs ----------------------------
(***************************************************************************)
(* A limit that is counted first and recorded afterwards is exceeded by at *)
(* most the number of calls that can be under way at once, less one.       *)
(***************************************************************************)
EXTENDS Limiter, FiniteSetTheorems, TLAPS

\* Every variable stays in its type.
LimiterTypeOK ==
  /\ recorded \in [Keys -> Nat]
  /\ passed \in [Keys -> SUBSET Callers]

\* What is recorded and what may still be recorded, together.
Pending == \A k \in Keys : recorded[k] + Cardinality(passed[k]) < Limit + Cardinality(Callers)

LimiterInv == LimiterTypeOK /\ Pending

\* The overshoot: n calls at a time record at most n - 1 more than the limit.
Overshoot == \A k \in Keys : recorded[k] < Limit + Cardinality(Callers)

\* Taking a call out of those that have passed leaves one fewer.
LEMMA OneFewer ==
  ASSUME IsFiniteSet(Callers), NEW S \in SUBSET Callers, NEW c \in S
  PROVE  /\ Cardinality(S) \in Nat
         /\ Cardinality(S \ {c}) \in Nat
         /\ Cardinality(S \ {c}) + 1 = Cardinality(S)
<1>1. IsFiniteSet(S)
  BY FS_Subset
<1>2. /\ Cardinality(S \ {c}) = Cardinality(S) - 1
      /\ IsFiniteSet(S \ {c})
  BY <1>1, FS_RemoveElement
<1>3. Cardinality(S) \in Nat /\ Cardinality(S \ {c}) \in Nat
  BY <1>1, <1>2, FS_CardinalityType
<1> QED
  BY <1>2, <1>3

\* No more calls have passed than can be under way.
LEMMA AtMostAll ==
  ASSUME IsFiniteSet(Callers), NEW S \in SUBSET Callers
  PROVE  Cardinality(S) \in Nat /\ Cardinality(S) <= Cardinality(Callers)
BY FS_Subset, FS_CardinalityType

LEMMA LimiterInitInv ==
  ASSUME Limit \in Nat \ {0}, IsFiniteSet(Callers)
  PROVE  LimiterInit => LimiterInv
BY FS_CardinalityType, FS_EmptySet DEF LimiterInit, LimiterInv, LimiterTypeOK, Pending

LEMMA LimiterStep ==
  ASSUME Limit \in Nat \ {0}, IsFiniteSet(Callers), LimiterInv, [LimiterNext]_limiterVars
  PROVE  LimiterInv'
<1> DEFINE N == Cardinality(Callers)
<1>N. N \in Nat
  BY FS_CardinalityType
<1>0. \A k \in Keys : recorded[k] \in Nat /\ passed[k] \in SUBSET Callers
  BY DEF LimiterInv, LimiterTypeOK
<1>1. CASE UNCHANGED limiterVars
  BY <1>1 DEF limiterVars, LimiterInv, LimiterTypeOK, Pending
<1>2. ASSUME NEW k \in Keys, Forget(k) PROVE LimiterInv'
  <2>1. PICK n \in 0..recorded[k] : recorded' = [recorded EXCEPT ![k] = n]
    BY <1>2 DEF Forget
  <2>2. LimiterTypeOK' /\ passed' = passed
    BY <1>0, <1>2, <2>1 DEF Forget, LimiterInv, LimiterTypeOK
  <2>3. ASSUME NEW j \in Keys
        PROVE  recorded'[j] + Cardinality(passed'[j]) < Limit + N
    <3>1. recorded'[j] <= recorded[j] /\ recorded'[j] \in Nat
      BY <1>0, <2>1 DEF LimiterInv, LimiterTypeOK
    <3>2. Cardinality(passed[j]) \in Nat
      BY <1>0, AtMostAll
    <3> QED
      BY <1>N, <1>0, <2>2, <3>1, <3>2 DEF LimiterInv, Pending
  <2> QED
    BY <2>2, <2>3 DEF LimiterInv, Pending
<1>3. ASSUME NEW k \in Keys, NEW c \in Callers, Pass(k, c) PROVE LimiterInv'
  <2>1. LimiterTypeOK' /\ recorded' = recorded
    BY <1>0, <1>3 DEF Pass, LimiterInv, LimiterTypeOK
  <2>2. ASSUME NEW j \in Keys
        PROVE  recorded'[j] + Cardinality(passed'[j]) < Limit + N
    <3>1. CASE j = k
      <4>1. recorded'[j] < Limit /\ recorded'[j] \in Nat
        BY <1>0, <1>3, <2>1, <3>1 DEF Pass
      <4>2. passed'[j] \in SUBSET Callers
        BY <2>1 DEF LimiterTypeOK
      <4>3. Cardinality(passed'[j]) \in Nat /\ Cardinality(passed'[j]) <= N
        BY <4>2, AtMostAll
      <4> QED
        BY <1>N, <4>1, <4>3
    <3>2. CASE j # k
      <4>1. passed'[j] = passed[j]
        BY <1>3, <3>2 DEF Pass, LimiterInv, LimiterTypeOK
      <4> QED
        BY <2>1, <4>1 DEF LimiterInv, Pending
    <3> QED
      BY <3>1, <3>2
  <2> QED
    BY <2>1, <2>2 DEF LimiterInv, Pending
<1>4. ASSUME NEW k \in Keys, NEW c \in Callers,
             Record(k, c) \/ Give(k, c) \/ GiveAndForget(k, c)
      PROVE  LimiterInv'
  <2>1. c \in passed[k] /\ passed' = [passed EXCEPT ![k] = @ \ {c}]
    BY <1>4 DEF Record, Give, GiveAndForget
  <2>2. /\ recorded' \in [Keys -> Nat]
        /\ recorded'[k] <= recorded[k] + 1
        /\ \A j \in Keys \ {k} : recorded'[j] = recorded[j]
    BY <1>0, <1>4 DEF Record, Give, GiveAndForget, LimiterInv, LimiterTypeOK
  <2>3. LimiterTypeOK'
    BY <1>0, <2>1, <2>2 DEF LimiterInv, LimiterTypeOK
  <2>4. ASSUME NEW j \in Keys
        PROVE  recorded'[j] + Cardinality(passed'[j]) < Limit + N
    <3>1. CASE j = k
      <4>1. passed'[j] = passed[k] \ {c}
        BY <2>1, <3>1 DEF LimiterInv, LimiterTypeOK
      <4>2. /\ Cardinality(passed[k]) \in Nat
            /\ Cardinality(passed'[j]) \in Nat
            /\ Cardinality(passed'[j]) + 1 = Cardinality(passed[k])
        BY <1>0, <2>1, <4>1, OneFewer
      <4>3. recorded[k] + Cardinality(passed[k]) < Limit + N
        BY DEF LimiterInv, Pending
      <4>4. recorded'[j] \in Nat /\ recorded'[j] <= recorded[k] + 1
        BY <2>2, <3>1
      <4> QED
        BY <1>N, <1>0, <4>2, <4>3, <4>4
    <3>2. CASE j # k
      <4>1. passed'[j] = passed[j]
        BY <2>1, <3>2 DEF LimiterInv, LimiterTypeOK
      <4> QED
        BY <2>2, <3>2, <4>1 DEF LimiterInv, Pending
    <3> QED
      BY <3>1, <3>2
  <2> QED
    BY <2>3, <2>4 DEF LimiterInv, Pending
<1> QED
  BY <1>1, <1>2, <1>3, <1>4 DEF LimiterNext

LEMMA LimiterBounds ==
  ASSUME Limit \in Nat \ {0}, IsFiniteSet(Callers), LimiterInv
  PROVE  Overshoot
<1> DEFINE N == Cardinality(Callers)
<1>N. N \in Nat
  BY FS_CardinalityType
<1> SUFFICES ASSUME NEW k \in Keys PROVE recorded[k] < Limit + N
  BY DEF Overshoot
<1>1. recorded[k] \in Nat /\ passed[k] \in SUBSET Callers
  BY DEF LimiterInv, LimiterTypeOK
<1>2. Cardinality(passed[k]) \in Nat
  BY <1>1, AtMostAll
<1>3. recorded[k] + Cardinality(passed[k]) < Limit + N
  BY DEF LimiterInv, Pending
<1> QED
  BY <1>N, <1>1, <1>2, <1>3

\* The limit is exceeded, but never by as much as the number of calls that can be
\* under way at once: the lockout of auth/service.py and the two limits of the
\* customer area count first and write afterwards.
THEOREM LimitsOvershoot ==
  ASSUME Limit \in Nat \ {0}, IsFiniteSet(Callers)
  PROVE  LimiterSpec => []Overshoot
BY LimiterInitInv, LimiterStep, LimiterBounds, PTL DEF LimiterSpec
=============================================================================
