----------------------- MODULE LimitMiddleware_proofs -----------------------
(***************************************************************************)
(* Proofs about the token bucket for every rate, capacity and clock        *)
(* resolution: typing, the bound on admitted requests, and the bound on    *)
(* what the truncation to whole milliseconds can cost.                     *)
(***************************************************************************)
EXTENDS LimitMiddleware, TLAPS

(* Products of naturals: what the non-linear steps below need.               *)
LEMMA DivBounds ==
    ASSUME NEW d \in Nat, NEW m \in Nat \ {0}
    PROVE  /\ d \div m \in Nat
           /\ (d \div m) * m <= d
           /\ d < (d \div m + 1) * m
OBVIOUS

LEMMA MulMono ==
    ASSUME NEW a \in Int, NEW b \in Int, NEW k \in Nat, a <= b
    PROVE  a * k \in Int /\ b * k \in Int /\ a * k <= b * k
OBVIOUS

(* Full, Token and Fine are naturals.                                        *)
LEMMA Units ==
    /\ rate_ \in Nat /\ capacity_ \in Nat /\ TicksPerMs \in Nat \ {0}
    /\ Token \in Nat \ {0} /\ Full \in Nat /\ Fine \in Nat
BY LimitAssumption DEF LimitAssumption, Token, Full, Fine

(* What refillTokens does to tokens_ and lastRefillTime_.                    *)
LEMMA RefillFacts ==
    ASSUME TypeOK
    PROVE  /\ Refilled \in 0..Full
           /\ RefillTime \in lastRefillTime_..now
           /\ now < RefillTime + TicksPerMs
           /\ Refilled * TicksPerMs
                  <= tokens_ * TicksPerMs + (RefillTime - lastRefillTime_) * rate_
           /\ \/ Refilled = Full
              \/ tokens_ * Fine + (RefillTime - lastRefillTime_) * rate_
                     <= Refilled * Fine
<1> DEFINE T == TicksPerMs
           d == now - lastRefillTime_
           ms == ElapsedMs
<1>1. /\ d \in Nat /\ T \in Nat \ {0} /\ rate_ \in Nat /\ Full \in Nat
      /\ now \in Nat /\ lastRefillTime_ \in Nat /\ tokens_ \in 0..Full
  BY Units DEF TypeOK
<1>2. ms \in Nat /\ ms * T <= d /\ d < (ms + 1) * T
  BY <1>1, DivBounds DEF ElapsedMs
<1>3. CASE ms = 0
  <2>1. Refilled = tokens_ /\ RefillTime = lastRefillTime_ /\ d < T
    BY <1>1, <1>2, <1>3 DEF Refilled, RefillTime
  <2>2. tokens_ * T \in Nat /\ tokens_ * Fine \in Nat /\ (RefillTime - lastRefillTime_) * rate_ = 0
    BY <2>1, <1>1, Units
  <2> QED BY <1>1, <2>1, <2>2
<1>4. CASE ms > 0
  <2> DEFINE earned == ms * rate_
  <2>1. Refilled = Lesser(Full, tokens_ + earned) /\ RefillTime = now
    BY <1>4 DEF Refilled, RefillTime
  <2>2. earned \in Nat
    BY <1>1, <1>2
  <2>3. earned * T <= d * rate_ /\ earned * T \in Nat /\ d * rate_ \in Nat
    <3>1. (ms * T) * rate_ <= d * rate_
      BY <1>1, <1>2, MulMono
    <3>2. earned * T = (ms * T) * rate_
      BY <1>1, <1>2
    <3> QED BY <3>1, <3>2, <2>2, <1>1
  <2>4. d * rate_ <= earned * Fine
    <3>1. (ms + 1) * T <= ms * Fine
      <4>1. (ms + 1) * T <= (2 * ms) * T
        BY <1>1, <1>2, <1>4, MulMono
      <4>2. (2 * ms) * T = ms * (2 * T)
        BY <1>1, <1>2
      <4> QED BY <4>1, <4>2 DEF Fine
    <3>2. d <= ms * Fine /\ ms * Fine \in Nat
      BY <3>1, <1>1, <1>2, Units
    <3>3. d * rate_ <= (ms * Fine) * rate_
      BY <3>2, <1>1, MulMono
    <3>4. (ms * Fine) * rate_ = earned * Fine
      BY <1>1, <1>2, Units
    <3> QED BY <3>3, <3>4
  <2> HIDE DEF earned
  <2>5. (tokens_ + earned) * T = tokens_ * T + earned * T
    BY <2>2, <1>1
  <2>6. (tokens_ + earned) * Fine = tokens_ * Fine + earned * Fine
    BY <2>2, <1>1, Units
  <2>7. Refilled \in 0..Full /\ Refilled <= tokens_ + earned
    BY <2>1, <2>2, <1>1 DEF Lesser
  <2>8. Refilled * T <= (tokens_ + earned) * T
    BY <2>7, <2>2, <1>1, MulMono
  <2>9. Refilled * T <= tokens_ * T + d * rate_
    BY <2>8, <2>5, <2>3, <2>7, <2>2, <1>1
  <2>10. Refilled = Full \/ tokens_ * Fine + d * rate_ <= Refilled * Fine
    <3>1. CASE Refilled = tokens_ + earned
      <4>1. tokens_ * Fine \in Nat /\ earned * Fine \in Nat
        BY <2>2, <1>1, Units
      <4> QED BY <3>1, <4>1, <2>3, <2>4, <2>6
    <3> QED BY <3>1, <2>1 DEF Lesser
  <2> QED BY <2>1, <2>7, <2>9, <2>10, <1>1
<1> QED BY <1>2, <1>3, <1>4

-----------------------------------------------------------------------------
THEOREM TypeInit == Init => TypeOK
<1> SUFFICES ASSUME Init PROVE TypeOK
  OBVIOUS
<1>1. admittedAt \in Seq(0..now)
  BY DEF Init
<1> QED BY <1>1, Units DEF Init, TypeOK

LEMMA SeqGrows ==
    ASSUME NEW m \in Nat, NEW n \in Nat, m <= n, NEW s \in Seq(0..m)
    PROVE  s \in Seq(0..n)
OBVIOUS

THEOREM TypeStep == TypeOK /\ [Next]_vars => TypeOK'
<1> SUFFICES ASSUME TypeOK, [Next]_vars PROVE TypeOK'
  OBVIOUS
<1>1. CASE Admit
  <2>1. Refilled \in 0..Full /\ RefillTime \in lastRefillTime_..now
    BY RefillFacts
  <2>2. slow' \in Int
    BY <1>1, Units DEF Admit, TypeOK
  <2> QED BY <1>1, <2>1, <2>2, Units DEF Admit, TypeOK
<1>2. CASE Refuse
  <2>1. Refilled \in 0..Full /\ RefillTime \in lastRefillTime_..now
    BY RefillFacts
  <2> QED BY <1>2, <2>1, Units DEF Refuse, TypeOK
<1>3. CASE Tick
  <2>1. admittedAt' \in Seq(0..now')
    BY <1>3, SeqGrows DEF Tick, TypeOK
  <2>2. slow' \in Int
    BY <1>3, Units DEF Tick, TypeOK, Lesser
  <2> QED BY <1>3, <2>1, <2>2, Units DEF Tick, TypeOK
<1>4. CASE UNCHANGED vars
  BY <1>4 DEF vars, TypeOK
<1> QED BY <1>1, <1>2, <1>3, <1>4 DEF Next

(* The bucket is never over full nor in debt.                                *)
THEOREM TypeCorrect == Spec => []TypeOK
BY TypeInit, TypeStep, PTL DEF Spec

-----------------------------------------------------------------------------
(* A run of requests admitted since i, with what is still in the bucket, is  *)
(* paid for by a full bucket and the refills since then; the latest refill   *)
(* came less than a millisecond before the latest admission.                 *)
Paid(i, tokens, last) ==
    ((Len(admittedAt) - i + 1) * Token + tokens) * TicksPerMs
        <= Full * TicksPerMs + (last - admittedAt[i] + TicksPerMs) * rate_

AdmissionInv ==
    /\ AdmissionBound
    /\ \A i \in DOMAIN admittedAt :
          /\ admittedAt[i] < lastRefillTime_ + TicksPerMs
          /\ Paid(i, tokens_, lastRefillTime_)

LEMMA LogType ==
    ASSUME TypeOK
    PROVE  /\ Len(admittedAt) \in Nat /\ DOMAIN admittedAt = 1..Len(admittedAt)
           /\ \A i \in DOMAIN admittedAt : admittedAt[i] \in Nat /\ admittedAt[i] <= now
BY DEF TypeOK

(* A refill does not disturb the invariant.                                  *)
LEMMA RefillPaid ==
    ASSUME TypeOK, AdmissionInv, NEW i \in DOMAIN admittedAt
    PROVE  /\ Paid(i, Refilled, RefillTime)
           /\ admittedAt[i] < RefillTime + TicksPerMs
<1> DEFINE n == (Len(admittedAt) - i + 1) * Token
           a == lastRefillTime_ - admittedAt[i] + TicksPerMs
           d == RefillTime - lastRefillTime_
           b == RefillTime - admittedAt[i] + TicksPerMs
<1>1. /\ Len(admittedAt) \in Nat /\ i \in 1..Len(admittedAt) /\ admittedAt[i] \in Nat
      /\ lastRefillTime_ \in Nat /\ RefillTime \in Nat /\ d \in Nat
      /\ Refilled \in Nat /\ tokens_ \in Nat
  <2>1. Len(admittedAt) \in Nat /\ i \in 1..Len(admittedAt) /\ admittedAt[i] \in Nat
    BY LogType
  <2>2. now \in Nat /\ tokens_ \in 0..Full /\ lastRefillTime_ \in 0..now /\ Full \in Nat
    BY Units DEF TypeOK
  <2>3. Refilled \in Nat /\ RefillTime \in Nat /\ RefillTime >= lastRefillTime_
    BY <2>2, RefillFacts
  <2> HIDE DEF n, a, b
  <2> QED BY <2>1, <2>2, <2>3
<1>2. n \in Nat /\ a \in Int /\ b \in Int
  <2>1. TicksPerMs \in Nat /\ Token \in Nat
    BY Units
  <2>2. Len(admittedAt) - i + 1 \in Nat
    BY <1>1
  <2>3. n \in Nat
    <3>1. \A x, y \in Nat : x * y \in Nat
      OBVIOUS
    <3> QED BY <2>1, <2>2, <3>1
  <2>4. a \in Int /\ b \in Int
    BY <1>1, <2>1
  <2> QED BY <2>3, <2>4
<1>3. (n + tokens_) * TicksPerMs <= Full * TicksPerMs + a * rate_
  BY DEF AdmissionInv, Paid
<1>4. Refilled * TicksPerMs <= tokens_ * TicksPerMs + d * rate_
  BY RefillFacts
<1>5. b * rate_ = a * rate_ + d * rate_
  <2>1. b = a + d
    BY <1>1, Units
  <2> QED BY <2>1, <1>1, <1>2, Units
<1> HIDE DEF n, a, b, d
<1>6. (n + Refilled) * TicksPerMs <= Full * TicksPerMs + b * rate_
  <2>1. /\ (n + tokens_) * TicksPerMs = n * TicksPerMs + tokens_ * TicksPerMs
        /\ (n + Refilled) * TicksPerMs = n * TicksPerMs + Refilled * TicksPerMs
    BY <1>1, <1>2, Units
  <2>2. /\ n * TicksPerMs \in Int /\ tokens_ * TicksPerMs \in Int
        /\ Refilled * TicksPerMs \in Int /\ Full * TicksPerMs \in Int
        /\ a * rate_ \in Int /\ d * rate_ \in Int
    BY <1>1, <1>2, Units
  <2> QED BY <2>1, <2>2, <1>3, <1>4, <1>5
<1>7. Paid(i, Refilled, RefillTime)
  BY <1>6 DEF Paid, n, b
<1>8. admittedAt[i] < RefillTime + TicksPerMs
  BY <1>1, Units DEF AdmissionInv, d
<1> QED BY <1>7, <1>8

(* The new request ends every run of admitted requests that began before it, *)
(* and begins one of its own.                                                *)
LEMMA AdmitKeeps == ASSUME TypeOK, AdmissionInv, Admit PROVE AdmissionInv'
<1> DEFINE k == Len(admittedAt)
<1>1. /\ k \in Nat /\ DOMAIN admittedAt = 1..k
      /\ \A i \in 1..k : admittedAt[i] \in Nat /\ admittedAt[i] <= now
  BY LogType
<1>2. /\ DOMAIN admittedAt' = 1..(k + 1) /\ Len(admittedAt') = k + 1
      /\ \A i \in 1..k : admittedAt'[i] = admittedAt[i]
      /\ admittedAt'[k + 1] = now
  BY <1>1 DEF Admit, TypeOK
<1>3. /\ now \in Nat /\ RefillTime \in Nat /\ RefillTime <= now
      /\ now < RefillTime + TicksPerMs
      /\ Refilled \in Nat /\ Token <= Refilled /\ Refilled <= Full
      /\ lastRefillTime_' = RefillTime /\ tokens_' = Refilled - Token
  BY RefillFacts, Units DEF Admit, TypeOK
<1> HIDE DEF k
<1>4. \A i \in 1..(k + 1) : i \in 1..k \/ i = k + 1
  BY <1>1
<1> DEFINE run(i) == (k + 1) - i + 1
           since(i) == RefillTime - admittedAt[i] + TicksPerMs
<1>5. ASSUME NEW i \in 1..k
      PROVE  (run(i) * Token + (Refilled - Token)) * TicksPerMs
                 <= Full * TicksPerMs + since(i) * rate_
  <2>1. Paid(i, Refilled, RefillTime)
    BY <1>1, RefillPaid
  <2>2. run(i) * Token + (Refilled - Token) = (k - i + 1) * Token + Refilled
    <3>1. run(i) = (k - i + 1) + 1
      BY <1>1
    <3>2. run(i) * Token = (k - i + 1) * Token + Token
      BY <3>1, <1>1, Units
    <3>3. (k - i + 1) * Token \in Int
      BY <1>1, Units
    <3> QED BY <3>2, <3>3, <1>3, Units
  <2> QED BY <2>1, <2>2 DEF Paid, k
<1>6. ASSUME NEW i \in 1..k
      PROVE  run(i) * Token * TicksPerMs
                 <= Full * TicksPerMs + rate_ * (now - admittedAt[i] + TicksPerMs)
  <2>1. run(i) * Token \in Int /\ since(i) \in Int
    BY <1>1, <1>3, Units
  <2>2. run(i) * Token * TicksPerMs <= (run(i) * Token + (Refilled - Token)) * TicksPerMs
    BY <2>1, <1>3, Units, MulMono
  <2>3. since(i) * rate_ <= (now - admittedAt[i] + TicksPerMs) * rate_
    <3>1. /\ since(i) <= now - admittedAt[i] + TicksPerMs
          /\ now - admittedAt[i] + TicksPerMs \in Int
      BY <1>1, <1>3, Units
    <3> HIDE DEF since
    <3> QED BY <2>1, <3>1, Units, MulMono
  <2>4. /\ run(i) * Token * TicksPerMs \in Int /\ Full * TicksPerMs \in Int
        /\ (run(i) * Token + (Refilled - Token)) * TicksPerMs \in Int
        /\ since(i) * rate_ \in Int
        /\ (now - admittedAt[i] + TicksPerMs) * rate_ \in Int
        /\ (now - admittedAt[i] + TicksPerMs) * rate_ = rate_ * (now - admittedAt[i] + TicksPerMs)
    <3>1. run(i) * Token + (Refilled - Token) \in Int /\ now - admittedAt[i] + TicksPerMs \in Int
      BY <2>1, <1>1, <1>3, Units
    <3>2. \A x, y \in Int : x * y \in Int /\ x * y = y * x
      OBVIOUS
    <3>3. TicksPerMs \in Int /\ Full \in Int /\ rate_ \in Int
      BY Units
    <3> HIDE DEF run, since
    <3> QED BY <2>1, <3>1, <3>2, <3>3
  <2> HIDE DEF run, since
  <2> QED BY <2>2, <2>3, <2>4, <1>5
<1>7. Token * TicksPerMs <= Full * TicksPerMs /\ Refilled * TicksPerMs <= Full * TicksPerMs
  BY <1>3, Units, MulMono
<1>8. (RefillTime - now + TicksPerMs) * rate_ \in Nat /\ rate_ * TicksPerMs \in Nat
  BY <1>3, Units
<1>9. AdmissionBound'
  <2> SUFFICES ASSUME NEW i \in 1..(k + 1), NEW j \in 1..(k + 1), i <= j
               PROVE  (j - i + 1) * Token * TicksPerMs
                        <= Full * TicksPerMs
                             + rate_ * (admittedAt'[j] - admittedAt'[i] + TicksPerMs)
    BY <1>2 DEF AdmissionBound
  <2>1. CASE j \in 1..k
    <3>1. i \in 1..k
      BY <2>1, <1>1
    <3> QED BY <2>1, <3>1, <1>1, <1>2 DEF AdmissionInv, AdmissionBound
  <2>2. CASE j = k + 1 /\ i \in 1..k
    BY <2>2, <1>2, <1>6
  <2>3. CASE j = k + 1 /\ i = k + 1
    <3>1. j - i + 1 = 1 /\ admittedAt'[j] - admittedAt'[i] + TicksPerMs = TicksPerMs
      BY <2>3, <1>1, <1>2, <1>3, Units
    <3>2. 1 * Token * TicksPerMs = Token * TicksPerMs /\ Full * TicksPerMs \in Nat
          /\ Token * TicksPerMs \in Nat
      BY Units
    <3> QED BY <3>1, <3>2, <1>7, <1>8
  <2> QED BY <2>1, <2>2, <2>3, <1>4
<1>10. ASSUME NEW i \in 1..(k + 1)
       PROVE  /\ admittedAt'[i] < lastRefillTime_' + TicksPerMs
              /\ Paid(i, tokens_, lastRefillTime_)'
  <2>1. CASE i \in 1..k
    <3>1. admittedAt[i] < RefillTime + TicksPerMs
      BY <2>1, <1>1, RefillPaid
    <3> QED BY <2>1, <3>1, <1>2, <1>3, <1>5 DEF Paid
  <2>2. CASE i = k + 1
    <3>1. ((k + 1) - i + 1) * Token + (Refilled - Token) = Refilled
      BY <2>2, <1>1, <1>3, Units
    <3>2. Full * TicksPerMs \in Nat /\ Refilled * TicksPerMs \in Nat
      BY <1>3, Units
    <3> QED BY <2>2, <3>1, <3>2, <1>2, <1>3, <1>7, <1>8 DEF Paid
  <2> QED BY <2>1, <2>2, <1>4
<1> QED BY <1>2, <1>9, <1>10 DEF AdmissionInv

LEMMA AdmissionStep == TypeOK /\ AdmissionInv /\ [Next]_vars => AdmissionInv'
<1> SUFFICES ASSUME TypeOK, AdmissionInv, [Next]_vars PROVE AdmissionInv'
  OBVIOUS
<1>1. CASE Refuse
  BY <1>1, RefillPaid DEF Refuse, AdmissionInv, AdmissionBound, Paid
<1>2. CASE Tick
  BY <1>2 DEF Tick, AdmissionInv, AdmissionBound, Paid
<1>3. CASE UNCHANGED vars
  BY <1>3 DEF vars, AdmissionInv, AdmissionBound, Paid
<1> QED BY <1>1, <1>2, <1>3, AdmitKeeps DEF Next

(* No arrival pattern gets more than a bucket, the rate and one millisecond. *)
THEOREM AdmissionsBounded == Spec => []AdmissionBound
<1>1. Init => AdmissionInv
  BY DEF Init, AdmissionInv, AdmissionBound
<1>2. AdmissionInv => AdmissionBound
  BY DEF AdmissionInv
<1> QED BY <1>1, <1>2, TypeInit, TypeStep, AdmissionStep, PTL DEF Spec

-----------------------------------------------------------------------------
HalfRateInv == AtLeastHalfTheRate /\ slow <= Fine * Full

LEMMA HalfRateStep == TypeOK /\ HalfRateInv /\ [Next]_vars => HalfRateInv'
<1> SUFFICES ASSUME TypeOK, HalfRateInv, [Next]_vars PROVE HalfRateInv'
  OBVIOUS
<1>1. /\ now \in Nat /\ lastRefillTime_ \in Nat /\ RefillTime \in Nat
      /\ lastRefillTime_ <= RefillTime /\ RefillTime <= now
      /\ tokens_ \in Nat /\ Refilled \in Nat /\ slow \in Int
      /\ Fine * Full \in Nat /\ Fine * Token \in Nat
  BY RefillFacts, Units DEF TypeOK
(* After a refill the bucket still holds what the slow one holds. *)
<1>2. slow <= Fine * Refilled + (now - RefillTime) * rate_
  <2>1. /\ (now - lastRefillTime_) * rate_
             = (RefillTime - lastRefillTime_) * rate_ + (now - RefillTime) * rate_
        /\ (RefillTime - lastRefillTime_) * rate_ \in Nat
        /\ (now - RefillTime) * rate_ \in Nat
        /\ Fine * tokens_ = tokens_ * Fine /\ Fine * Refilled = Refilled * Fine
        /\ Fine * tokens_ \in Nat /\ Fine * Refilled \in Nat
    BY <1>1, Units
  <2>2. CASE Refilled = Full
    BY <2>1, <2>2, <1>1 DEF HalfRateInv
  <2>3. CASE tokens_ * Fine + (RefillTime - lastRefillTime_) * rate_ <= Refilled * Fine
    BY <2>1, <2>3, <1>1 DEF HalfRateInv, AtLeastHalfTheRate
  <2> QED BY <2>2, <2>3, RefillFacts
<1>3. CASE Admit
  <2>1. Fine * (Refilled - Token) = Fine * Refilled - Fine * Token
    BY <1>1, Units
  <2>2. Fine * Refilled \in Nat /\ (now - RefillTime) * rate_ \in Nat
    BY <1>1, Units
  <2> QED BY <1>1, <1>2, <1>3, <2>1, <2>2 DEF Admit, HalfRateInv, AtLeastHalfTheRate
<1>4. CASE Refuse
  BY <1>2, <1>4 DEF Refuse, HalfRateInv, AtLeastHalfTheRate
<1>5. CASE Tick
  <2>1. (now + 1 - lastRefillTime_) * rate_ = (now - lastRefillTime_) * rate_ + rate_
    BY <1>1, Units
  <2>2. (now - lastRefillTime_) * rate_ \in Int /\ Fine * tokens_ \in Nat
    BY <1>1, Units
  <2> QED BY <1>1, <1>5, <2>1, <2>2, Units DEF Tick, HalfRateInv, AtLeastHalfTheRate, Lesser
<1>6. CASE UNCHANGED vars
  BY <1>6 DEF vars, HalfRateInv, AtLeastHalfTheRate
<1> QED BY <1>3, <1>4, <1>5, <1>6 DEF Next

(* The truncation to whole milliseconds costs at most half of the rate.      *)
THEOREM HalfRateGuaranteed == Spec => []AtLeastHalfTheRate
<1>1. Init => HalfRateInv
  <2> SUFFICES ASSUME Init PROVE HalfRateInv
    OBVIOUS
  <2>1. Fine * Full \in Nat /\ 0 * rate_ = 0
    BY Units
  <2> QED BY <2>1, Units DEF Init, HalfRateInv, AtLeastHalfTheRate
<1>2. HalfRateInv => AtLeastHalfTheRate
  BY DEF HalfRateInv
<1> QED BY <1>1, <1>2, TypeInit, TypeStep, HalfRateStep, PTL DEF Spec
=============================================================================
