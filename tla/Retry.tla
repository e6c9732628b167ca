------------------------------- MODULE Retry -------------------------------
(***************************************************************************)
(* RetryState and the backoff policies (src/app/utility/RetryState.inl,     *)
(* src/app/utility/backoff), for every factor they are specialised for.     *)
(* The unsigned integers of a policy wrap around beyond MaxInt.              *)
(***************************************************************************)
EXTENDS Naturals

CONSTANTS
  MaxInt,       \* the largest value of the integer type of the delays, 2 ^ bits - 1
  MaxAttempts,  \* the attempts of the retry state
  MinDelay,     \* the delay of the program's own policies ...
  MaxDelay      \* ... and their limit

ASSUME RetryAssumption ==
  /\ MaxInt \in Nat /\ MaxAttempts \in Nat \ {0}
  /\ MinDelay \in Nat /\ MaxDelay \in Nat /\ MinDelay <= MaxDelay

Lesser(a, b) == IF a < b THEN a ELSE b

\* The factors with a specialisation of scale_and_clamp: num / 2 ^ shift.
Factors ==
  [num : {9, 11, 13, 15}, shift : {3}] \cup [num : {5, 7}, shift : {1, 2}]
    \cup [num : {3}, shift : {0, 1}] \cup [num : {2, 4}, shift : {0}]

\* The largest delay a factor is allowed with: its product must not overflow.
LargestMax_AnyInt(f) == MaxInt
LargestMax(f) == MaxInt \div f.num

Ratios == {0, 25, 50, 75, 100}  \* jitter in percent; 0 is no_jitter_generator

\* The policies the templates accept, with the program's delays and at the
\* largest delay of each factor.
Policies ==
  {p \in [factor : Factors, ratio : Ratios, min : {MinDelay, MaxDelay},
          max : {MaxDelay} \cup {LargestMax(f) : f \in Factors}] :
     /\ p.min <= p.max
     /\ p.max \in {MaxDelay, LargestMax(p.factor)}
     /\ p.max <= LargestMax(p.factor)}

NewRetry(p) == [policy |-> p, attempts |-> 0, current |-> p.min, delay |-> p.min]
NoRetry == NewRetry([factor |-> [num |-> 2, shift |-> 0], ratio |-> 0, min |-> 0, max |-> 0])

\* scale_and_clamp: the product wraps around like an unsigned integer.
ScaleAndClamp(p, value) ==
  Lesser(((value * p.factor.num) % (MaxInt + 1)) \div 2 ^ p.factor.shift, p.max)

\* jitter_generator::random(): the least and the greatest value it returns.
Jitter(p, max) ==
  LET base == CASE p.ratio = 25 -> max - (max \div 4)
                [] p.ratio = 50 -> max - (max \div 2)
                [] p.ratio = 75 -> max \div 4
                [] p.ratio = 100 -> 0
                [] OTHER -> max
  IN  {base, max}

\* nextDelay(): the states it may leave
NextDelay(r) ==
  LET next == ScaleAndClamp(r.policy, r.current)
  IN  {[r EXCEPT !.current = next, !.delay = Lesser(j, r.policy.max)] : j \in Jitter(r.policy, next)}

AdvanceAttempt(r) == [r EXCEPT !.attempts = @ + 1]
ForceExpire(r) == [r EXCEPT !.attempts = MaxAttempts]
Available(r) == r.attempts < MaxAttempts

=============================================================================
