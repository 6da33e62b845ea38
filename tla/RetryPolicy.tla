----------------------------- MODULE RetryPolicy -----------------------------
(***************************************************************************)
(* How long the executor waits before it tries a node again                *)
(* (engine/executor/backoff.go): a base that doubles with every attempt    *)
(* under a cap, in integers that wrap, then shortened at random.  Time is  *)
(* counted in the default base, one second.                                *)
(***************************************************************************)
EXTENDS Integers

CONSTANTS
  Limit,     \* one more than the longest time.Duration
  Attempts   \* the attempts looked at

ASSUME LimitAssumption == Limit \in Nat /\ Limit >= 2 /\ Attempts \subseteq Nat \ {0}

Wrap(n) == ((n + Limit) % (2 * Limit)) - Limit

(* What retryPolicyFrom makes of a configured base and cap.                *)
Policy(base, cap) ==
  LET b == IF base = 0 THEN 1 ELSE base
  IN  [BaseDelay |-> b, MaxDelay |-> IF cap < b THEN b ELSE cap]

(* Mutant: the cap is looked at only after the doublings. *)
DoublingUnchecked(p, d) == Wrap(2 * d)

(* One turn of the loop; a delay that has reached the cap stays there.     *)
Doubling(p, d) == IF d >= p.MaxDelay THEN p.MaxDelay ELSE Wrap(2 * d)

(* The delay before an attempt: none before the first.                     *)
Delay(p, attempt) ==
  LET after[i \in 2..attempt] ==
        IF i = 2 THEN p.BaseDelay ELSE Doubling(p, after[i - 1])
  IN  IF attempt <= 1 THEN 0
      ELSE IF after[attempt] > p.MaxDelay THEN p.MaxDelay ELSE after[attempt]

(* Jitter takes up to half of it away.                                     *)
JitteredDelay(p, attempt) ==
  LET d == Delay(p, attempt) IN (d \div 2)..d

-----------------------------------------------------------------------------

(* What the comment of Delay says: BaseDelay * 2^(n-2), under the cap.     *)
Exponential(p, attempt) ==
  LET power[i \in 2..attempt] ==
        IF i = 2 THEN p.BaseDelay ELSE 2 * power[i - 1]
  IN  IF attempt = 1 THEN 0
      ELSE IF power[attempt] > p.MaxDelay THEN p.MaxDelay ELSE power[attempt]

(* With a cap of at most half the range the doubling never wraps.          *)
Capped ==
  \A base, cap \in 0..(Limit \div 2), attempt \in Attempts :
    LET p == Policy(base, cap)
    IN  /\ Delay(p, attempt) = Exponential(p, attempt)
        /\ JitteredDelay(p, attempt) \subseteq 0..p.MaxDelay

=============================================================================
