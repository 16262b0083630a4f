-------------------------- MODULE RateLimiterProofs ---------------------------
(***************************************************************************)
(* Proofs about RateLimiter for any clients, rate, burst and sweep period: *)
(* its type invariant, the bound on admitted requests in any window, and   *)
(* that it implements TokenBucket.                                         *)
(***************************************************************************)
EXTENDS RateLimiter, TLAPS

\* A product of naturals is a natural.
LEMMA ProductNat == \A a, b \in Nat : a * b \in Nat
  OBVIOUS

\* One more unit of time earns Rate more.
LEMMA OneMore == \A d, r \in Nat : (d + 1) * r = d * r + r
  OBVIOUS

\* A stored bucket has earned a natural number of tokens.
LEMMA EarnedNat ==
  ASSUME TypeOK, NEW k \in Keys, buckets[k] # NoBucket
  PROVE  /\ buckets[k].tokens \in 0 .. Burst
         /\ buckets[k].last \in Nat
         /\ now - buckets[k].last \in Nat
         /\ Earned(buckets[k]) \in Nat
<1>1. buckets[k] \in [tokens : 0 .. Burst, last : Nat]
  BY DEF TypeOK
<1>2. now - buckets[k].last \in Nat
  BY <1>1 DEF TypeOK
<1>3. (now - buckets[k].last) * Rate \in Nat
  BY <1>2, ProductNat, LimiterAssumption
<1>4. QED
  BY <1>1, <1>2, <1>3, LimiterAssumption DEF Earned

\* What a client can spend is within the bucket.
LEMMA LevelRange ==
  ASSUME TypeOK, NEW k \in Keys
  PROVE  LevelOf(k) \in 0 .. Burst
<1>1. CASE buckets[k] = NoBucket
  BY <1>1, LimiterAssumption DEF LevelOf
<1>2. CASE buckets[k] # NoBucket
  BY <1>2, EarnedNat, LimiterAssumption DEF LevelOf, Tokens
<1>3. QED
  BY <1>1, <1>2

\* The sweep takes nothing from and gives nothing to any client.
LEMMA SweepInvisible ==
  ASSUME TypeOK, NEW k \in Keys
  PROVE  Available(k) = LevelOf(k)
<1>1. CASE Swept[k] = buckets[k]
  BY <1>1 DEF Available, LevelOf
<1>2. CASE Swept[k] # buckets[k]
  <2>1. Swept[k] = NoBucket /\ buckets[k] # NoBucket /\ Refilled(buckets[k])
    BY <1>2 DEF Swept
  <2>2. Earned(buckets[k]) >= Burst /\ Earned(buckets[k]) \in Nat
    BY <2>1, EarnedNat DEF Refilled
  <2>3. LevelOf(k) = Burst
    BY <2>1, <2>2, LimiterAssumption DEF LevelOf, Tokens
  <2>4. QED
    BY <2>1, <2>3 DEF Available
<1>3. QED
  BY <1>1, <1>2

\* A client is refused exactly when it cannot spend Cost.
LEMMA ExhaustedMeansEmpty ==
  ASSUME TypeOK, NEW k \in Keys
  PROVE  Exhausted(k) <=> LevelOf(k) < Cost
<1>1. CASE Swept[k] = NoBucket
  BY <1>1, SweepInvisible, LimiterAssumption DEF Exhausted, Available
<1>2. CASE Swept[k] # NoBucket
  BY <1>2, SweepInvisible DEF Exhausted, Available
<1>3. QED
  BY <1>1, <1>2

\* An answer stores a well-typed bucket, whose level is what was left.
LEMMA AnswerStores ==
  ASSUME TypeOK, NEW k \in Keys, NEW ok, NEW left \in 0 .. Burst, Answer(k, ok, left)
  PROVE  /\ buckets' \in [Keys -> [tokens : 0 .. Burst, last : Nat] \cup {NoBucket}]
         /\ \A j \in Keys : buckets'[j] # NoBucket => buckets'[j].last <= now
         /\ lastSweep' \in Nat /\ lastSweep' <= now
         /\ \A j \in Keys : LevelOf(j)' = IF j = k THEN left ELSE LevelOf(j)
<1>1. Swept \in [Keys -> [tokens : 0 .. Burst, last : Nat] \cup {NoBucket}]
  BY DEF TypeOK, Swept
<1>2. buckets'[k] = [tokens |-> left, last |-> now] /\ now \in Nat /\ now' = now
  BY <1>1 DEF Answer, TypeOK
<1>3. \A j \in Keys : j # k => buckets'[j] = Swept[j]
  BY <1>1 DEF Answer
<1>4. buckets' \in [Keys -> [tokens : 0 .. Burst, last : Nat] \cup {NoBucket}]
  BY <1>1, <1>2 DEF Answer
<1>5. \A j \in Keys : Swept[j] # NoBucket => Swept[j] = buckets[j]
  BY DEF Swept
<1>6. \A j \in Keys : buckets'[j] # NoBucket => buckets'[j].last <= now
  BY <1>2, <1>3, <1>5 DEF TypeOK
<1>7. lastSweep' \in Nat /\ lastSweep' <= now
  BY DEF Answer, TypeOK
<1>8. ASSUME NEW j \in Keys
      PROVE  LevelOf(j)' = IF j = k THEN left ELSE LevelOf(j)
  <2>1. CASE j = k
    <3>1. buckets'[k] # NoBucket
      BY <1>2, LimiterAssumption
    <3>2. (now - now) * Rate = 0
      BY <1>2, LimiterAssumption
    <3>3. Earned(buckets[k])' = left
      BY <1>2, <3>2, LimiterAssumption DEF Earned
    <3>4. QED
      BY <2>1, <3>1, <3>3, LimiterAssumption DEF LevelOf, Tokens
  <2>2. CASE j # k
    <3>1. buckets'[j] = Swept[j]
      BY <1>3, <2>2
    <3>2. LevelOf(j)' = Available(j)
      BY <3>1, <1>2 DEF LevelOf, Available, Tokens, Earned
    <3>3. QED
      BY <2>2, <3>2, SweepInvisible
  <2>3. QED
    BY <2>1, <2>2
<1>9. QED
  BY <1>4, <1>6, <1>7, <1>8

\* An admitted request takes Cost from its client and nothing from the others.
LEMMA AllowSpends ==
  ASSUME TypeOK, NEW j \in Keys, Allow(j)
  PROVE  /\ LevelOf(j) >= Cost
         /\ \A k \in Keys : LevelOf(k)' = IF k = j THEN LevelOf(j) - Cost ELSE LevelOf(k)
         /\ now' = now /\ since' = since /\ reply' = [key |-> j, ok |-> TRUE]
<1>1. Available(j) = LevelOf(j) /\ LevelOf(j) \in 0 .. Burst
  BY SweepInvisible, LevelRange
<1>2. LevelOf(j) >= Cost
  BY <1>1, ExhaustedMeansEmpty, LimiterAssumption DEF Allow
<1>3. Available(j) - Cost \in 0 .. Burst
  BY <1>1, <1>2, LimiterAssumption
<1>4. Answer(j, TRUE, Available(j) - Cost)
  BY DEF Allow
<1>5. \A k \in Keys : LevelOf(k)' = IF k = j THEN Available(j) - Cost ELSE LevelOf(k)
  BY <1>3, <1>4, AnswerStores
<1>6. QED
  BY <1>1, <1>2, <1>4, <1>5 DEF Answer

\* A refused request comes from an empty bucket and costs nobody anything.
LEMMA DenyKeeps ==
  ASSUME TypeOK, NEW j \in Keys, Deny(j)
  PROVE  /\ LevelOf(j) < Cost
         /\ \A k \in Keys : LevelOf(k)' = LevelOf(k)
         /\ now' = now /\ since' = since /\ reply' = [key |-> j, ok |-> FALSE]
<1>1. Available(j) = LevelOf(j) /\ LevelOf(j) \in 0 .. Burst
  BY SweepInvisible, LevelRange
<1>2. LevelOf(j) < Cost
  BY ExhaustedMeansEmpty DEF Deny
<1>3. Available(j) \in 0 .. Burst
  BY <1>1
<1>4. Answer(j, FALSE, Available(j))
  BY DEF Deny
<1>5. \A k \in Keys : LevelOf(k)' = IF k = j THEN Available(j) ELSE LevelOf(k)
  BY <1>3, <1>4, AnswerStores
<1>6. QED
  BY <1>1, <1>2, <1>4, <1>5 DEF Answer

\* The clock refills every client by Rate, up to the burst.
LEMMA TickRefills ==
  ASSUME TypeOK, Tick, NEW k \in Keys
  PROVE  LevelOf(k)' = Bucket!Least(Burst, LevelOf(k) + Rate)
<1>1. CASE buckets[k] = NoBucket
  BY <1>1, LimiterAssumption DEF Tick, LevelOf, Bucket!Least
<1>2. CASE buckets[k] # NoBucket
  <2>1. Earned(buckets[k])' = Earned(buckets[k]) + Rate
    <3>1. now' - buckets[k].last = (now - buckets[k].last) + 1 /\ buckets' = buckets
      BY <1>2, EarnedNat DEF Tick, TypeOK
    <3>2. ((now - buckets[k].last) + 1) * Rate = (now - buckets[k].last) * Rate + Rate
      BY <1>2, EarnedNat, OneMore, LimiterAssumption
    <3>3. (now - buckets[k].last) * Rate \in Nat
      BY <1>2, EarnedNat, ProductNat, LimiterAssumption
    <3>4. QED
      BY <1>2, <3>1, <3>2, <3>3, EarnedNat, LimiterAssumption DEF Earned
  <2>2. Earned(buckets[k]) \in Nat /\ buckets' = buckets
    BY <1>2, EarnedNat DEF Tick
  <2>3. QED
    BY <1>2, <2>1, <2>2, LimiterAssumption DEF LevelOf, Tokens, Bucket!Least
<1>3. QED
  BY <1>1, <1>2

-----------------------------------------------------------------------------
\* The initial state of the limiter is well typed.
LEMMA TypeInit == Init => TypeOK
  BY LimiterAssumption DEF Init, TypeOK

\* Every step of the limiter and of its observer keeps it well typed.
LEMMA TypeStep ==
  ASSUME TypeOK, [Next]_vars
  PROVE  TypeOK'
<1>1. CASE Tick
  BY <1>1 DEF Tick, TypeOK
<1>2. CASE Observe
  BY <1>2 DEF Observe, TypeOK
<1>3. ASSUME NEW k \in Keys, Allow(k) PROVE TypeOK'
  <2>1. Available(k) - Cost \in 0 .. Burst
    BY <1>3, SweepInvisible, LevelRange, ExhaustedMeansEmpty, LimiterAssumption DEF Allow
  <2>2. admitted' \in [Keys -> Nat]
    BY <1>3 DEF Allow, TypeOK
  <2>3. now' = now /\ since' = since
    BY <1>3 DEF Allow, Answer
  <2>4. Answer(k, TRUE, Available(k) - Cost)
    BY <1>3 DEF Allow
  <2>5. QED
    BY <2>1, <2>2, <2>3, <2>4, AnswerStores DEF TypeOK
<1>4. ASSUME NEW k \in Keys, Deny(k) PROVE TypeOK'
  <2>1. Available(k) \in 0 .. Burst
    BY SweepInvisible, LevelRange
  <2>2. now' = now /\ since' = since /\ admitted' = admitted
    BY <1>4 DEF Deny, Answer
  <2>3. Answer(k, FALSE, Available(k))
    BY <1>4 DEF Deny
  <2>4. QED
    BY <2>1, <2>2, <2>3, AnswerStores DEF TypeOK
<1>5. CASE UNCHANGED vars
  BY <1>5 DEF vars, TypeOK
<1>6. QED
  BY <1>1, <1>2, <1>3, <1>4, <1>5 DEF Next

\* The limiter is well typed in every behaviour: balances never leave 0 .. Burst
\* and no bucket is dated in the future (middleware.go's allow and sweep).
THEOREM LimiterTypeCorrect == Spec => []TypeOK
<1>1. QED
  BY TypeInit, TypeStep, PTL DEF Spec

\* The inductive strengthening of AdmittedBounded: what a client was admitted in
\* the window and what it could still spend are paid for together.
Budget == \A k \in Keys : admitted[k] * Cost + LevelOf(k) <= Burst + (now - since) * Rate

\* Every step keeps the budget.
LEMMA BudgetStep ==
  ASSUME TypeOK, Budget, [Next]_vars
  PROVE  Budget'
<1> SUFFICES ASSUME NEW k \in Keys
             PROVE  admitted'[k] * Cost + LevelOf(k)' <= Burst + (now' - since') * Rate
  BY DEF Budget
<1>0. /\ admitted[k] * Cost + LevelOf(k) <= Burst + (now - since) * Rate
      /\ LevelOf(k) \in 0 .. Burst /\ admitted[k] \in Nat /\ now - since \in Nat
      /\ admitted[k] * Cost \in Nat /\ (now - since) * Rate \in Nat
  <2>1. LevelOf(k) \in 0 .. Burst /\ admitted[k] \in Nat /\ now - since \in Nat
    BY LevelRange DEF TypeOK
  <2>2. admitted[k] * Cost \in Nat /\ (now - since) * Rate \in Nat
    BY <2>1, ProductNat, LimiterAssumption
  <2>3. QED
    BY <2>1, <2>2 DEF Budget
<1>1. CASE Tick
  <2>1. now' - since' = (now - since) + 1 /\ admitted' = admitted
    BY <1>1 DEF Tick, TypeOK
  <2>2. ((now - since) + 1) * Rate = (now - since) * Rate + Rate
    BY <1>0, OneMore, LimiterAssumption
  <2>3. LevelOf(k)' <= LevelOf(k) + Rate /\ LevelOf(k)' \in Int
    BY <1>0, <1>1, TickRefills, LimiterAssumption DEF Bucket!Least
  <2>4. QED
    BY <1>0, <2>1, <2>2, <2>3, LimiterAssumption
<1>2. CASE Observe
  <2>1. admitted'[k] = 0 /\ now' - since' = 0 /\ LevelOf(k)' = LevelOf(k)
    BY <1>2 DEF Observe, LevelOf, Tokens, Earned, TypeOK
  <2>2. 0 * Cost = 0 /\ 0 * Rate = 0
    BY LimiterAssumption
  <2>3. QED
    BY <1>0, <2>1, <2>2, LimiterAssumption
<1>3. ASSUME NEW j \in Keys, Allow(j)
      PROVE  admitted'[k] * Cost + LevelOf(k)' <= Burst + (now' - since') * Rate
  <2>2. LevelOf(k)' = (IF k = j THEN LevelOf(j) - Cost ELSE LevelOf(k))
        /\ now' = now /\ since' = since
    BY <1>3, AllowSpends
  <2>4. CASE k = j
    <3>1. admitted'[k] = admitted[k] + 1
      BY <1>3, <2>4 DEF Allow, TypeOK
    <3>2. (admitted[k] + 1) * Cost = admitted[k] * Cost + Cost
      BY <1>0, OneMore, LimiterAssumption
    <3>3. QED
      BY <1>0, <2>2, <2>4, <3>1, <3>2, LimiterAssumption
  <2>5. CASE k # j
    <3>1. admitted'[k] = admitted[k]
      BY <1>3, <2>5 DEF Allow, TypeOK
    <3>2. QED
      BY <1>0, <2>2, <2>5, <3>1
  <2>6. QED
    BY <2>4, <2>5
<1>4. ASSUME NEW j \in Keys, Deny(j)
      PROVE  admitted'[k] * Cost + LevelOf(k)' <= Burst + (now' - since') * Rate
  <2>1. LevelOf(k)' = LevelOf(k) /\ now' = now /\ since' = since
    BY <1>4, DenyKeeps
  <2>2. admitted' = admitted
    BY <1>4 DEF Deny
  <2>3. QED
    BY <1>0, <2>1, <2>2
<1>5. CASE UNCHANGED vars
  BY <1>0, <1>5 DEF vars, LevelOf, Tokens, Earned
<1>6. QED
  BY <1>1, <1>2, <1>3, <1>4, <1>5 DEF Next

\* In any window a client is admitted at most its burst plus what the window's
\* length earns (allow's refill, cap and sweep).
THEOREM WindowBound == Spec => []AdmittedBounded
<1>1. Init => Budget
  <2>1. SUFFICES ASSUME Init, NEW k \in Keys
                 PROVE  admitted[k] * Cost + LevelOf(k) <= Burst + (now - since) * Rate
    BY DEF Budget
  <2>2. admitted[k] = 0 /\ now - since = 0 /\ LevelOf(k) = Burst
    BY <2>1, LimiterAssumption DEF Init, LevelOf
  <2>3. 0 * Cost = 0 /\ 0 * Rate = 0
    BY LimiterAssumption
  <2>4. QED
    BY <2>2, <2>3, LimiterAssumption
<1>2. TypeOK /\ Budget => AdmittedBounded
  <2>1. SUFFICES ASSUME TypeOK, Budget, NEW k \in Keys
                 PROVE  admitted[k] * Cost <= Burst + (now - since) * Rate
    BY DEF AdmittedBounded
  <2>2. admitted[k] * Cost \in Nat /\ (now - since) * Rate \in Nat
    BY <2>1, ProductNat, LimiterAssumption DEF TypeOK
  <2>3. QED
    BY <2>1, <2>2, LevelRange, LimiterAssumption DEF Budget
<1>3. QED
  BY TypeInit, TypeStep, BudgetStep, <1>1, <1>2, PTL DEF Spec

\* The limiter answers as continuously refilled buckets do: refilling late and
\* sweeping refilled buckets away changes no answer (allow, sweep).
THEOREM LimiterImplementsBucket == Spec => BucketSpec
<1>1. Init => Bucket!Init
  BY DEF Init, Bucket!Init, LevelOf
<1>2. ASSUME TypeOK, [Next]_vars
      PROVE  [Bucket!Next]_<<[k \in Keys |-> LevelOf(k)], reply>>
  <2>1. CASE Tick
    <3>1. \A k \in Keys : LevelOf(k)' = Bucket!Least(Burst, LevelOf(k) + Rate)
      BY <1>2, <2>1, TickRefills
    <3>2. Bucket!Refill
      BY <2>1, <3>1 DEF Tick, Bucket!Refill
    <3>3. QED
      BY <3>2 DEF Bucket!Next
  <2>2. CASE Observe
    <3>1. \A k \in Keys : LevelOf(k)' = LevelOf(k)
      BY <2>2 DEF Observe, LevelOf, Tokens, Earned
    <3>2. QED
      BY <2>2, <3>1 DEF Observe
  <2>3. ASSUME NEW j \in Keys, Allow(j) PROVE Bucket!Admit(j)
    <3>1. /\ LevelOf(j) >= Cost
          /\ \A k \in Keys : LevelOf(k)' = IF k = j THEN LevelOf(j) - Cost ELSE LevelOf(k)
          /\ reply' = [key |-> j, ok |-> TRUE]
      BY <1>2, <2>3, AllowSpends
    <3>2. QED
      BY <3>1 DEF Bucket!Admit
  <2>4. ASSUME NEW j \in Keys, Deny(j) PROVE Bucket!Refuse(j)
    <3>1. /\ LevelOf(j) < Cost
          /\ \A k \in Keys : LevelOf(k)' = LevelOf(k)
          /\ reply' = [key |-> j, ok |-> FALSE]
      BY <1>2, <2>4, DenyKeeps
    <3>2. QED
      BY <3>1 DEF Bucket!Refuse
  <2>5. CASE UNCHANGED vars
    BY <2>5 DEF vars, LevelOf, Tokens, Earned
  <2>6. QED
    BY <1>2, <2>1, <2>2, <2>3, <2>4, <2>5 DEF Next, Bucket!Next
<1>3. QED
  BY TypeInit, TypeStep, <1>1, <1>2, PTL DEF Spec, BucketSpec, Bucket!Spec
=============================================================================
