------------------------------ MODULE Exchange ------------------------------
(***************************************************************************)
(* What proxying one request promises, whatever the retry loop does: the    *)
(* backend is handed the request a bounded number of times and never after  *)
(* the matter is settled; the client gets one verdict, which never changes; *)
(* and a verdict attributed to the backend was preceded by a delivery.      *)
(***************************************************************************)
EXTENDS Naturals

VARIABLES
  budget,           \* how often the request may be handed to the backend, fixed
  handed,           \* times the backend was handed the request
  settled,          \* the client has its answer, or never will
  verdict           \* who the answer came from

exchangeVars == <<budget, handed, settled, verdict>>

ExchangeInit ==
  /\ budget \in Nat \ {0}
  /\ handed = 0
  /\ settled = FALSE
  /\ verdict = "none"

Hand ==
  /\ ~settled
  /\ handed < budget
  /\ handed' = handed + 1
  /\ UNCHANGED <<budget, settled, verdict>>

Settle ==
  /\ ~settled
  /\ settled' = TRUE
  /\ verdict' \in {"none", "gateway"} \cup (IF handed > 0 THEN {"backend"} ELSE {})
  /\ UNCHANGED <<budget, handed>>

ExchangeNext == Hand \/ Settle

ExchangeSpec == ExchangeInit /\ [][ExchangeNext]_exchangeVars

=============================================================================
