----------------------------- MODULE RetryPolicy -----------------------------
(***************************************************************************)
(* config.RetryPolicy (internal/config/config.go).  A multiplier <<n, d>>   *)
(* stands for n/d; zero and "unset" are what YAML leaves in a field that    *)
(* the file does not give.                                                  *)
(***************************************************************************)
EXTENDS Integers

Growths == {"exponential", "linear", "constant"}

PolicySettings ==
  [maxAttempts: Int, backoff: Growths \cup {"other", "unset"},
   initialInterval: Int, maxInterval: Int, multiplier: Nat \X (Nat \ {0})]

\* RetryPolicy.Validate.
Valid(p) ==
  /\ p.maxAttempts >= 0
  /\ p.backoff \in Growths
  /\ p.initialInterval > 0
  /\ p.maxInterval > 0
  /\ p.maxInterval >= p.initialInterval
  /\ p.backoff = "exponential" => p.multiplier[1] > p.multiplier[2]

=============================================================================
