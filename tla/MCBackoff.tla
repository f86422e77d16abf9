----------------------------- MODULE MCBackoff ------------------------------
(* Constants for TLC: ten-bit durations, every growth, small intervals; and *)
(* linear schedules with attempts enough to overflow, if time allowed.      *)
EXTENDS Backoff

MCPolicies ==
  [maxAttempts: {0, 3, 12}, backoff: {"exponential", "linear", "constant", "other"},
   initialInterval: {0, 1, 2, 3, 7, 400}, maxInterval: {1, 2, 4, 9, 400},
   multiplier: {<<1, 1>>, <<3, 2>>, <<2, 1>>, <<3, 1>>}]
  \cup
  [maxAttempts: {80}, backoff: {"linear"}, initialInterval: {2, 7},
   maxInterval: {9}, multiplier: {<<1, 1>>}]

=============================================================================
