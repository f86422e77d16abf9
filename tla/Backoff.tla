------------------------------ MODULE Backoff -------------------------------
(***************************************************************************)
(* The waits between the attempts of ExecuteWithRetry: calculateBackoff     *)
(* (internal/retry/retry.go) for the policies RetryPolicy.Validate lets     *)
(* through (internal/config/config.go), all attempts failing at once.       *)
(*                                                                          *)
(* A time.Duration is a signed integer of Width bits counting ticks.        *)
(* Rounding in float64 is left out, but not the conversion of a float64     *)
(* that no time.Duration can hold, whose result Go leaves to the platform:  *)
(* the smallest integer on amd64, the largest on arm64.                     *)
(***************************************************************************)
EXTENDS RetryPolicy

CONSTANTS
  Width,      \* bits of a time.Duration
  Policies,   \* retry policies considered
  Timeout     \* the timeout of the request, at most MaxTimeout

\* math.Pow, for the numbers it is called with here.
Power(m, k) ==
  LET power[n \in 0..k] == IF n = 0 THEN 1 ELSE m * power[n - 1] IN power[k]

MaxInt == Power(2, Width - 1) - 1
MinInt == -Power(2, Width - 1)

\* The interval times the power, before the conversion.
Product(p, attempt) ==
  (p.initialInterval * Power(p.multiplier[1], attempt)) \div Power(p.multiplier[2], attempt)

(***************************************************************************)
(* With intervals up to four fifths of MaxInt (233 years) the jitter cannot *)
(* overflow; requests time out (after five minutes) long before so much has *)
(* passed.                                                                  *)
(***************************************************************************)
ASSUME BackoffAssumption ==
  /\ Width \in Nat \ {0}
  /\ Timeout \in Nat /\ 20 * Timeout <= 3 * MaxInt
  /\ \A p \in Policies : p \in PolicySettings /\ 5 * p.maxInterval <= 4 * MaxInt

VARIABLES
  policy,    \* the policy, fixed
  attempt,   \* the attempt that has just failed
  phase,     \* "failed", "wait", "panic" in rand.Int63n, or "over"
  base,      \* the backoff before jitter
  wait,      \* what calculateBackoff returns
  elapsed    \* time spent waiting so far

vars == <<policy, attempt, phase, base, wait, elapsed>>

TypeOK ==
  /\ policy \in Policies
  /\ attempt \in Nat
  /\ phase \in {"failed", "wait", "panic", "over"}
  /\ base \in MinInt..MaxInt
  /\ wait \in 0..MaxInt
  /\ elapsed \in Nat

Init ==
  /\ policy \in {p \in Policies : Valid(p)}
  /\ attempt = 0
  /\ phase = "failed"
  /\ base = 0
  /\ wait = 0
  /\ elapsed = 0

\* time.Duration(x) for a float64 x: the conversion truncates.
Converted(x) == IF x <= MaxInt THEN {x} ELSE {MinInt, MaxInt}

\* Multiplication of Durations wraps around.
Wrapped(x) == ((x - MinInt) % Power(2, Width)) + MinInt

\* Mutant: the first wait is none.
LinearFromZero(p, k) == Wrapped(p.initialInterval * k)

Linear(p, k) == Wrapped(p.initialInterval * (k + 1))

\* The switch on policy.Backoff; its default is out of Validate's reach.
Uncapped(p, k) ==
  CASE p.backoff = "exponential" -> Converted(Product(p, k))
    [] p.backoff = "linear"      -> {Linear(p, k)}
    [] OTHER                     -> {p.initialInterval}

\* Mutant: past the cap, start again.
CappedRestarts(p, b) == IF b > p.maxInterval THEN p.initialInterval ELSE b

Capped(p, b) == IF b > p.maxInterval THEN p.maxInterval ELSE b

\* Mutant: a jitter as long as the backoff.
JitteredWide(b) == {b - b \div 4 + j : j \in 0..(b - 1)}

\* b - b/4 + rand.Int63n(b/2), for b/2 > 0.
Jittered(b) == {b - b \div 4 + j : j \in 0..(b \div 2 - 1)}

\* Int63n panics on an argument that is not positive, which is any b below 2.
calculateBackoff ==
  /\ phase = "failed"
  /\ attempt < policy.maxAttempts - 1
  /\ \E b \in Uncapped(policy, attempt) : base' = Capped(policy, b)
  /\ \/ base' < 2 /\ phase' = "panic" /\ wait' = 0
     \/ base' >= 2 /\ phase' = "wait" /\ wait' \in Jittered(base')
  /\ UNCHANGED <<policy, attempt, elapsed>>

\* time.After comes first ...
Retry ==
  /\ phase = "wait"
  /\ elapsed + wait <= Timeout
  /\ elapsed' = elapsed + wait
  /\ attempt' = attempt + 1
  /\ phase' = "failed"
  /\ UNCHANGED <<policy, base, wait>>

\* ... or the deadline does, or the attempts are used up.
Stop ==
  /\ \/ phase = "wait" /\ elapsed + wait >= Timeout
     \/ phase = "failed" /\ attempt >= policy.maxAttempts - 1
  /\ phase' = "over"
  /\ UNCHANGED <<policy, attempt, base, wait, elapsed>>

Done == phase \in {"panic", "over"} /\ UNCHANGED vars

Next == calculateBackoff \/ Retry \/ Stop \/ Done

Spec == Init /\ [][Next]_vars

-----------------------------------------------------------------------------

(***************************************************************************)
(* "Jitter is +-25% of the backoff duration" (calculateBackoff): in integer *)
(* arithmetic too, with the divisions that round down.  Being added after   *)
(* the "Cap at max interval", it may exceed max_interval by as much.        *)
(***************************************************************************)
JitterWithinQuarter == wait > 0 => 3 * base <= 4 * wait /\ 4 * wait <= 5 * base

(***************************************************************************)
(* The schedule before jitter never shrinks from one wait of a request to   *)
(* the next, whichever way it grows and once it has reached max_interval:   *)
(* an overflow ends in a panic or at the cap, never in a shorter wait.      *)
(***************************************************************************)
ScheduleNeverShrinks == [][phase' = "wait" => base' >= base]_vars

(***************************************************************************)
(* rand.Int63n is given an argument that is not positive only by an         *)
(* initial_interval of one tick, or by an exponential schedule that has     *)
(* outgrown time.Duration; the linear schedule cannot overflow, because the *)
(* request times out long before.                                           *)
(***************************************************************************)
PanicsOnlyTinyOrOutgrown ==
  phase = "panic" =>
    \/ policy.initialInterval = 1
    \/ policy.backoff = "exponential" /\ Product(policy, attempt) > MaxInt

=============================================================================
