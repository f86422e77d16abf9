------------------------------ MODULE Registry ------------------------------
(***************************************************************************)
(* A registry of lazily built values shared by concurrent callers: one      *)
(* value is ever built for a key, and the key is bound to it, once and for  *)
(* good; a caller is handed the value bound to the key it asked for, and no *)
(* other.                                                                   *)
(***************************************************************************)
EXTENDS Naturals

CONSTANTS Callers, Keys, Values, None

VARIABLES
  asked,    \* the key each caller asks for, or last asked for
  builds,   \* how many values have been built for each key
  bound,    \* the value bound to each key
  held      \* the value each caller has been handed

registryVars == <<asked, builds, bound, held>>

RegistryInit ==
  /\ asked \in [Callers -> Keys]
  /\ builds = [k \in Keys |-> 0]
  /\ bound = [k \in Keys |-> None]
  /\ held = [c \in Callers |-> None]

Ask(c) ==
  /\ held[c] = None
  /\ \E k \in Keys : asked' = [asked EXCEPT ![c] = k]
  /\ UNCHANGED <<builds, bound, held>>

Build(k) ==
  /\ builds[k] = 0
  /\ builds' = [builds EXCEPT ![k] = 1]
  /\ UNCHANGED <<asked, bound, held>>

Bind(k) ==
  /\ builds[k] = 1
  /\ bound[k] = None
  /\ \E v \in Values : bound' = [bound EXCEPT ![k] = v]
  /\ UNCHANGED <<asked, builds, held>>

Obtain(c) ==
  /\ held[c] = None
  /\ bound[asked[c]] # None
  /\ held' = [held EXCEPT ![c] = bound[asked[c]]]
  /\ UNCHANGED <<asked, builds, bound>>

GiveBack(c) ==
  /\ held' = [held EXCEPT ![c] = None]
  /\ UNCHANGED <<asked, builds, bound>>

RegistryNext ==
  \/ \E c \in Callers : Ask(c) \/ Obtain(c) \/ GiveBack(c)
  \/ \E k \in Keys : Build(k) \/ Bind(k)

RegistrySpec == RegistryInit /\ [][RegistryNext]_registryVars

=============================================================================
