----------------------------- MODULE MCGateway ------------------------------
(* Constants for TLC: requests of every shape, or those that reach the logger. *)
EXTENDS Gateway

Plain == [id |-> NoId, sets |-> Unset, preflight |-> FALSE, upgrade |-> FALSE, target |-> "open"]

\* Every target; IDs of clients and of a route where they make a difference.
AllShapes ==
  {[Plain EXCEPT !.target = t] : t \in {"probe", "unrouted", "misconfigured"}}
  \cup {[Plain EXCEPT !.preflight = TRUE, !.target = "guarded"]}
  \cup {[Plain EXCEPT !.target = "guarded", !.upgrade = u] : u \in BOOLEAN}
  \cup {[Plain EXCEPT !.id = i, !.upgrade = u] : i \in ClientIds \cup {NoId}, u \in BOOLEAN}
  \cup {[Plain EXCEPT !.id = i, !.sets = s] :
          i \in ClientIds \cup {NoId}, s \in ConfiguredIds \cup {NoId}}

\* Requests that get as far as the logger.
LoggedShapes ==
  {[Plain EXCEPT !.id = i, !.upgrade = u] : i \in ClientIds \cup {NoId}, u \in BOOLEAN}

=============================================================================
