--------------------------- MODULE MCProxyHandler ---------------------------
(* Constants for TLC: every path of ServeHTTP with up to three attempts.   *)
EXTENDS ProxyHandler

Policy(n) == [max |-> n, jitterable |-> TRUE, urlParses |-> TRUE]

MCServices ==
  {Policy(n) : n \in 0..3}
    \cup {[Policy(1) EXCEPT !.urlParses = FALSE], [Policy(2) EXCEPT !.jitterable = FALSE]}

=============================================================================
