----------------------------- MODULE AuthCache ------------------------------
(***************************************************************************)
(* The cache of forward-auth middlewares: getOrCreateAuthMiddleware in      *)
(* internal/gateway/gateway.go, called by the goroutine of every request    *)
(* whose route wants authentication, under Go's sync.RWMutex.               *)
(*                                                                          *)
(* A key stands for the signature of the effective configuration; the       *)
(* global settings are fixed and per-route overrides not implemented, so    *)
(* the signature is determined by the auth URL (buildForwardAuthConfig,     *)
(* authConfigSignature).  A middleware instance is known by the caller      *)
(* whose call built it.                                                     *)
(***************************************************************************)
EXTENDS Naturals

CONSTANTS
  Callers,   \* request goroutines
  Keys,      \* signatures of forward-auth configurations
  Nobody     \* no caller, and no middleware

ASSUME CallersAssumption == Nobody \notin Callers

VARIABLES
  pc,        \* where each caller is
  key,       \* the cacheKey of each caller's call
  result,    \* mw: what the caller has found or built
  cache,     \* authMiddlewareCache
  built,     \* history: middlewares built per key
  readers,   \* callers holding the read lock
  writer     \* the caller holding, or draining readers for, the write lock

vars == <<pc, key, result, cache, built, readers, writer>>

TypeOK ==
  /\ pc \in [Callers -> {"idle", "rlock", "parked", "lookup", "runlock", "lock",
                         "drain", "recheck", "create", "store", "unlock", "use"}]
  /\ key \in [Callers -> Keys]
  /\ result \in [Callers -> Callers \cup {Nobody}]
  /\ cache \in [Keys -> Callers \cup {Nobody}]
  /\ built \in [Keys -> Nat]
  /\ readers \subseteq Callers
  /\ writer \in Callers \cup {Nobody}

Init ==
  /\ pc = [c \in Callers |-> "idle"]
  /\ key \in [Callers -> Keys]
  /\ result = [c \in Callers |-> Nobody]
  /\ cache = [k \in Keys |-> Nobody]
  /\ built = [k \in Keys |-> 0]
  /\ readers = {}
  /\ writer = Nobody

Goto(c, label) == pc' = [pc EXCEPT ![c] = label]

\* A request on a route with forward auth; the signature is computed locally.
Call(c) ==
  /\ pc[c] = "idle"
  /\ \E k \in Keys : key' = [key EXCEPT ![c] = k]
  /\ result' = [result EXCEPT ![c] = Nobody]
  /\ Goto(c, "rlock")
  /\ UNCHANGED <<cache, built, readers, writer>>

\* Mutant: the fast path reads the map without the lock.
RLockSkipped(c) ==
  /\ pc[c] = "rlock"
  /\ Goto(c, "lookup")
  /\ UNCHANGED <<key, result, cache, built, readers, writer>>

\* A writer, even one still waiting for readers to leave, keeps new readers out.
RLock(c) ==
  /\ pc[c] = "rlock"
  /\ \/ writer = Nobody /\ readers' = readers \cup {c} /\ Goto(c, "lookup")
     \/ writer # Nobody /\ UNCHANGED readers /\ Goto(c, "parked")
  /\ UNCHANGED <<key, result, cache, built, writer>>

Lookup(c) ==
  /\ pc[c] = "lookup"
  /\ result' = [result EXCEPT ![c] = cache[key[c]]]
  /\ Goto(c, "runlock")
  /\ UNCHANGED <<key, cache, built, readers, writer>>

\* Mutant: a miss tries the fast path again.
RUnlockRetry(c) ==
  /\ pc[c] = "runlock"
  /\ readers' = readers \ {c}
  /\ Goto(c, IF result[c] # Nobody THEN "use" ELSE "rlock")
  /\ UNCHANGED <<key, result, cache, built, writer>>

\* A hit returns, a miss goes on to the write lock.
RUnlock(c) ==
  /\ pc[c] = "runlock"
  /\ readers' = readers \ {c}
  /\ Goto(c, IF result[c] # Nobody THEN "use" ELSE "lock")
  /\ UNCHANGED <<key, result, cache, built, writer>>

\* One writer at a time; from here on new readers are parked.
Announce(c) ==
  /\ pc[c] = "lock"
  /\ writer = Nobody
  /\ writer' = c
  /\ Goto(c, "drain")
  /\ UNCHANGED <<key, result, cache, built, readers>>

Drained(c) ==
  /\ pc[c] = "drain"
  /\ readers = {}
  /\ Goto(c, "recheck")
  /\ UNCHANGED <<key, result, cache, built, readers, writer>>

\* Mutant: no second look at the map.
RecheckSkipped(c) ==
  /\ pc[c] = "recheck"
  /\ Goto(c, "create")
  /\ UNCHANGED <<key, result, cache, built, readers, writer>>

Recheck(c) ==
  /\ pc[c] = "recheck"
  /\ result' = [result EXCEPT ![c] = cache[key[c]]]
  /\ Goto(c, IF cache[key[c]] # Nobody THEN "unlock" ELSE "create")
  /\ UNCHANGED <<key, cache, built, readers, writer>>

\* middleware.ForwardAuth(authConfig)
Create(c) ==
  /\ pc[c] = "create"
  /\ result' = [result EXCEPT ![c] = c]
  /\ built' = [built EXCEPT ![key[c]] = @ + 1]
  /\ Goto(c, "store")
  /\ UNCHANGED <<key, cache, readers, writer>>

\* Mutant: the entry is the key, not the middleware.
StoreKey(c) ==
  /\ pc[c] = "store"
  /\ cache' = [cache EXCEPT ![key[c]] = key[c]]
  /\ Goto(c, "unlock")
  /\ UNCHANGED <<key, result, built, readers, writer>>

Store(c) ==
  /\ pc[c] = "store"
  /\ cache' = [cache EXCEPT ![key[c]] = result[c]]
  /\ Goto(c, "unlock")
  /\ UNCHANGED <<key, result, built, readers, writer>>

Parked == {c \in Callers : pc[c] = "parked"}

\* The deferred Unlock: every parked reader gets the lock before any writer.
Unlock(c) ==
  /\ pc[c] = "unlock"
  /\ writer' = Nobody
  /\ readers' = readers \cup Parked
  /\ pc' = [d \in Callers |-> IF d = c THEN "use"
                              ELSE IF d \in Parked THEN "lookup" ELSE pc[d]]
  /\ UNCHANGED <<key, result, cache, built>>

\* The middleware runs, and the goroutine may serve another request.
Finish(c) ==
  /\ pc[c] = "use"
  /\ Goto(c, "idle")
  /\ UNCHANGED <<key, result, cache, built, readers, writer>>

getOrCreateAuthMiddleware(c) ==
  \/ RLock(c) \/ Lookup(c) \/ RUnlock(c)
  \/ Announce(c) \/ Drained(c) \/ Recheck(c)
  \/ Create(c) \/ Store(c) \/ Unlock(c)

Next == \E c \in Callers : Call(c) \/ getOrCreateAuthMiddleware(c) \/ Finish(c)

Spec == Init /\ [][Next]_vars

(***************************************************************************)
(* Goroutines keep running.  Writers queue on a sync.Mutex, whose           *)
(* starvation mode hands it to the longest waiter: strong fairness.         *)
(***************************************************************************)
Fairness ==
  \A c \in Callers : WF_vars(getOrCreateAuthMiddleware(c)) /\ SF_vars(Announce(c))

FairSpec == Spec /\ Fairness

-----------------------------------------------------------------------------

(***************************************************************************)
(* The map is never read or written by one goroutine while another stores   *)
(* an entry (Go stops the whole process when that happens): the write lock  *)
(* excludes the lookups of the fast path and the other writers.             *)
(***************************************************************************)
MapExclusion ==
  \A c, d \in Callers :
    c # d /\ pc[c] = "store" => pc[d] \notin {"lookup", "recheck", "store"}

(***************************************************************************)
(* However many requests miss at the same time, one middleware, and so one  *)
(* http.Client, is built for a configuration: "to avoid creating new HTTP   *)
(* clients per request" (getOrCreateAuthMiddleware).                        *)
(***************************************************************************)
OneInstancePerKey == \A k \in Keys : built[k] <= 1

(***************************************************************************)
(* Every request on an authenticated route gets its middleware: no caller   *)
(* waits for ever, whatever the others do.                                  *)
(***************************************************************************)
EveryoneServed == \A c \in Callers : pc[c] = "rlock" ~> pc[c] = "use"

(***************************************************************************)
(* The cache is a Registry: however many requests miss at the same time,    *)
(* one middleware is built for a configuration, its entry never changes,    *)
(* and a request is given the entry of its own configuration.               *)
(***************************************************************************)
Reg == INSTANCE Registry WITH
  Values <- Callers,
  None   <- Nobody,
  asked  <- key,
  builds <- built,
  bound  <- cache,
  held   <- [c \in Callers |-> IF pc[c] = "use" THEN result[c] ELSE Nobody]

KeepsRegistry == Reg!RegistrySpec

=============================================================================
