--------------------------- MODULE LimitMiddleware ---------------------------
(***************************************************************************)
(* http::middleware::LimitMiddleware: one token bucket for all requests.   *)
(* before() runs under mutex_, so a call is one action.  Time is counted   *)
(* in ticks of the steady clock, tokens_ in fractions of a token: the      *)
(* tokens one millisecond is worth are rate_ of them, a whole token is     *)
(* MsPerSecond.  (The code keeps a double; the model is exact.)            *)
(***************************************************************************)
EXTENDS Integers, Sequences

CONSTANTS rate_,         \* tokens per second
          capacity_,     \* tokens the bucket can hold
          MsPerSecond,   \* 1000 in the code
          TicksPerMs,    \* clock ticks per millisecond
          Horizon        \* bound on the clock

ASSUME LimitAssumption ==
    /\ rate_ \in Nat /\ capacity_ \in Nat /\ Horizon \in Nat
    /\ MsPerSecond \in Nat \ {0} /\ TicksPerMs \in Nat \ {0}

VARIABLES
    now,               \* the steady clock
    tokens_,           \* what is in the bucket, in 1/MsPerSecond of a token
    lastRefillTime_,   \* when it was last refilled
    admittedAt,        \* history: when each admitted request was admitted
    slow               \* history: a bucket that serves the same requests and is
                       \* refilled at each tick, at half of rate_

vars == <<now, tokens_, lastRefillTime_, admittedAt, slow>>

Lesser(a, b) == IF a <= b THEN a ELSE b

Token == MsPerSecond                   \* a whole token, in units of tokens_
Full == capacity_ * Token
Fine == 2 * TicksPerMs                 \* slow counts in 1/Fine of it
Init ==
    /\ now = 0
    /\ tokens_ = Full
    /\ lastRefillTime_ = 0
    /\ admittedAt = <<>>
    /\ slow = Fine * Full

-----------------------------------------------------------------------------
(* refillTokens(): whole milliseconds only; the rest of a millisecond is     *)
(* dropped when lastRefillTime_ moves to now.                                *)
ElapsedMs == (now - lastRefillTime_) \div TicksPerMs

RefilledWithoutLimit ==
    IF ElapsedMs > 0 THEN tokens_ + ElapsedMs * rate_ ELSE tokens_
Refilled ==
    IF ElapsedMs > 0 THEN Lesser(Full, tokens_ + ElapsedMs * rate_) ELSE tokens_

RefillTimeUnmoved == lastRefillTime_
RefillTimeAlwaysMoved == now
RefillTime == IF ElapsedMs > 0 THEN now ELSE lastRefillTime_

(* before(): a whole token is left, the request goes on *)
Admit ==
    /\ Refilled >= Token
    /\ tokens_' = Refilled - Token
    /\ lastRefillTime_' = RefillTime
    /\ admittedAt' = Append(admittedAt, now)
    /\ slow' = slow - Fine * Token
    /\ UNCHANGED now

(* before(): 429 is thrown; the refill stays done *)
Refuse ==
    /\ Refilled < Token
    /\ tokens_' = Refilled
    /\ lastRefillTime_' = RefillTime
    /\ UNCHANGED <<now, admittedAt, slow>>

Tick ==
    /\ now < Horizon
    /\ now' = now + 1
    /\ slow' = Lesser(Fine * Full, slow + rate_)
    /\ UNCHANGED <<tokens_, lastRefillTime_, admittedAt>>

Next == Admit \/ Refuse \/ Tick

Spec == Init /\ [][Next]_vars

-----------------------------------------------------------------------------
(* The bucket is never over full nor in debt, and the clock never runs       *)
(* behind the time of a refill or of an admission.                           *)
TypeOK ==
    /\ now \in Nat
    /\ tokens_ \in 0..Full
    /\ lastRefillTime_ \in 0..now
    /\ admittedAt \in Seq(0..now)
    /\ slow \in Int

(* However requests arrive, any run of admitted requests is no longer than   *)
(* a full bucket plus what rate_ allows over its duration and one more       *)
(* millisecond (the refill that was due when the run began).                 *)
AdmissionBound ==
    \A i, j \in DOMAIN admittedAt : i <= j =>
        (j - i + 1) * Token * TicksPerMs
            <= Full * TicksPerMs + rate_ * (admittedAt[j] - admittedAt[i] + TicksPerMs)

(* Dropping the rest of a millisecond at each refill can cost tokens, but    *)
(* never more than half of them: with what half the rate has earned since    *)
(* the last refill, the bucket holds at least what the slow one holds.       *)
AtLeastHalfTheRate == slow <= Fine * tokens_ + (now - lastRefillTime_) * rate_
=============================================================================
