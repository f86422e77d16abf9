-------------------------- MODULE AuthCacheProofs ---------------------------
(***************************************************************************)
(* Proofs about AuthCache, for any number of callers and keys: the write    *)
(* lock excludes every other access, one middleware is built per key, and   *)
(* the cache implements Registry.                                           *)
(***************************************************************************)
EXTENDS AuthCache, TLAPS

Reading == {"lookup", "runlock"}

Exclusive == {"recheck", "create", "store", "unlock"}

\* The lock's own state agrees with where its holders are.
LockInv ==
  /\ \A c \in Callers : c \in readers <=> pc[c] \in Reading
  /\ \A c \in Callers : pc[c] \in Exclusive \cup {"drain"} => writer = c
  /\ \A c \in Callers : pc[c] \in Exclusive => readers = {}
  /\ \A c \in Callers : pc[c] = "parked" => writer # Nobody
  /\ writer # Nobody => pc[writer] \in Exclusive \cup {"drain"}

\* An entry is missing exactly as long as nothing has been built for it, but
\* for the writer between building and storing it.
Building(k) == \E c \in Callers : pc[c] = "store" /\ key[c] = k

CacheInv ==
  /\ \A c \in Callers : pc[c] \in {"create", "store"} => cache[key[c]] = Nobody
  /\ \A c \in Callers : pc[c] = "store" => result[c] = c /\ built[key[c]] = 1
  /\ \A k \in Keys : cache[k] = Nobody /\ ~Building(k) => built[k] = 0
  /\ \A k \in Keys : built[k] <= 1

\* What a caller has in hand is the entry of its key, if it has anything.
ResultInv ==
  /\ \A c \in Callers :
       pc[c] \in {"runlock", "unlock", "use"} /\ result[c] # Nobody
         => result[c] = cache[key[c]]
  /\ \A c \in Callers : pc[c] \in {"unlock", "use"} => result[c] # Nobody

Inv == TypeOK /\ LockInv /\ CacheInv /\ ResultInv

-----------------------------------------------------------------------------

\* Every step keeps the types.
LEMMA TypeStep == TypeOK /\ [Next]_vars => TypeOK'
  <1> SUFFICES ASSUME TypeOK, [Next]_vars PROVE TypeOK'
    OBVIOUS
  <1> USE CallersAssumption DEF TypeOK
  <1>1. ASSUME NEW c \in Callers,
               Call(c) \/ getOrCreateAuthMiddleware(c) \/ Finish(c)
        PROVE  TypeOK'
    <2>1. CASE Call(c)
      BY <2>1 DEF Call, Goto
    <2>2. CASE RLock(c)
      BY <2>2 DEF RLock, Goto
    <2>3. CASE Lookup(c)
      BY <2>3 DEF Lookup, Goto
    <2>4. CASE RUnlock(c)
      BY <2>4 DEF RUnlock, Goto
    <2>5. CASE Announce(c)
      BY <2>5 DEF Announce, Goto
    <2>6. CASE Drained(c)
      BY <2>6 DEF Drained, Goto
    <2>7. CASE Recheck(c)
      BY <2>7 DEF Recheck, Goto
    <2>8. CASE Create(c)
      BY <2>8 DEF Create, Goto
    <2>9. CASE Store(c)
      BY <2>9 DEF Store, Goto
    <2>10. CASE Unlock(c)
      BY <2>10 DEF Unlock, Parked
    <2>11. CASE Finish(c)
      BY <2>11 DEF Finish, Goto
    <2> QED
      BY <1>1, <2>1, <2>2, <2>3, <2>4, <2>5, <2>6, <2>7,
         <2>8, <2>9, <2>10, <2>11 DEF getOrCreateAuthMiddleware
  <1>2. CASE UNCHANGED vars
    BY <1>2 DEF vars
  <1> QED
    BY <1>1, <1>2 DEF Next

\* Every step keeps the lock's state in agreement with its holders.
LEMMA LockStep == TypeOK /\ LockInv /\ [Next]_vars => LockInv'
  <1> SUFFICES ASSUME TypeOK, LockInv, [Next]_vars PROVE LockInv'
    OBVIOUS
  <1> USE CallersAssumption DEF TypeOK, LockInv, Reading, Exclusive
  <1>1. ASSUME NEW c \in Callers,
               Call(c) \/ getOrCreateAuthMiddleware(c) \/ Finish(c)
        PROVE  LockInv'
    <2>1. CASE Call(c)
      BY <2>1 DEF Call, Goto
    <2>2. CASE RLock(c)
      BY <2>2 DEF RLock, Goto
    <2>3. CASE Lookup(c)
      BY <2>3 DEF Lookup, Goto
    <2>4. CASE RUnlock(c)
      BY <2>4 DEF RUnlock, Goto
    <2>5. CASE Announce(c)
      BY <2>5 DEF Announce, Goto
    <2>6. CASE Drained(c)
      BY <2>6 DEF Drained, Goto
    <2>7. CASE Recheck(c)
      BY <2>7 DEF Recheck, Goto
    <2>8. CASE Create(c)
      BY <2>8 DEF Create, Goto
    <2>9. CASE Store(c)
      BY <2>9 DEF Store, Goto
    <2>10. CASE Unlock(c)
      BY <2>10 DEF Unlock, Parked
    <2>11. CASE Finish(c)
      BY <2>11 DEF Finish, Goto
    <2> QED
      BY <1>1, <2>1, <2>2, <2>3, <2>4, <2>5, <2>6, <2>7,
         <2>8, <2>9, <2>10, <2>11 DEF getOrCreateAuthMiddleware
  <1>2. CASE UNCHANGED vars
    BY <1>2 DEF vars
  <1> QED
    BY <1>1, <1>2 DEF Next

\* Every step builds a middleware only for a key that has none.
LEMMA CacheStep == TypeOK /\ LockInv /\ CacheInv /\ [Next]_vars => CacheInv'
  <1> SUFFICES ASSUME TypeOK, LockInv, CacheInv, [Next]_vars PROVE CacheInv'
    OBVIOUS
  <1> USE CallersAssumption DEF TypeOK, LockInv, CacheInv, Building, Exclusive
  <1>1. ASSUME NEW c \in Callers,
               Call(c) \/ getOrCreateAuthMiddleware(c) \/ Finish(c)
        PROVE  CacheInv'
    <2>1. CASE Call(c)
      BY <2>1 DEF Call, Goto
    <2>2. CASE RLock(c)
      BY <2>2 DEF RLock, Goto
    <2>3. CASE Lookup(c)
      BY <2>3 DEF Lookup, Goto
    <2>4. CASE RUnlock(c)
      BY <2>4 DEF RUnlock, Goto
    <2>5. CASE Announce(c)
      BY <2>5 DEF Announce, Goto
    <2>6. CASE Drained(c)
      BY <2>6 DEF Drained, Goto
    <2>7. CASE Recheck(c)
      BY <2>7 DEF Recheck, Goto
    <2>8. CASE Create(c)
      BY <2>8 DEF Create, Goto
    <2>9. CASE Store(c)
      <3>1. cache' = [cache EXCEPT ![key[c]] = result[c]] /\ UNCHANGED <<key, built>>
        BY <2>9 DEF Store
      <3>2. \A d \in Callers : pc[d] # "store" \/ d = c
        BY <2>9 DEF Store
      <3>3. pc' = [pc EXCEPT ![c] = "unlock"] /\ result[c] # Nobody
        BY <2>9 DEF Store, Goto
      <3>4. \A k \in Keys : k # key[c] => ~Building(k)
        BY <3>2
      <3>5. \A k \in Keys : cache'[k] = Nobody => k # key[c] /\ cache[k] = Nobody
        BY <3>1, <3>3
      <3>6. \A d \in Callers : pc'[d] \notin {"create", "store"}
        BY <2>9, <3>3 DEF Store
      <3> QED
        BY <3>1, <3>4, <3>5, <3>6
    <2>10. CASE Unlock(c)
      BY <2>10 DEF Unlock, Parked
    <2>11. CASE Finish(c)
      BY <2>11 DEF Finish, Goto
    <2> QED
      BY <1>1, <2>1, <2>2, <2>3, <2>4, <2>5, <2>6, <2>7,
         <2>8, <2>9, <2>10, <2>11 DEF getOrCreateAuthMiddleware
  <1>2. CASE UNCHANGED vars
    BY <1>2 DEF vars
  <1> QED
    BY <1>1, <1>2 DEF Next

\* Every step leaves callers with the entry of their key, which never changes.
LEMMA ResultStep == TypeOK /\ LockInv /\ CacheInv /\ ResultInv /\ [Next]_vars => ResultInv'
  <1> SUFFICES ASSUME TypeOK, LockInv, CacheInv, ResultInv, [Next]_vars PROVE ResultInv'
    OBVIOUS
  <1> USE CallersAssumption DEF TypeOK, LockInv, CacheInv, ResultInv, Exclusive
  <1>1. ASSUME NEW c \in Callers,
               Call(c) \/ getOrCreateAuthMiddleware(c) \/ Finish(c)
        PROVE  ResultInv'
    <2>1. CASE Call(c)
      BY <2>1 DEF Call, Goto
    <2>2. CASE RLock(c)
      BY <2>2 DEF RLock, Goto
    <2>3. CASE Lookup(c)
      BY <2>3 DEF Lookup, Goto
    <2>4. CASE RUnlock(c)
      BY <2>4 DEF RUnlock, Goto
    <2>5. CASE Announce(c)
      BY <2>5 DEF Announce, Goto
    <2>6. CASE Drained(c)
      BY <2>6 DEF Drained, Goto
    <2>7. CASE Recheck(c)
      BY <2>7 DEF Recheck, Goto
    <2>8. CASE Create(c)
      BY <2>8 DEF Create, Goto
    <2>9. CASE Store(c)
      BY <2>9 DEF Store, Goto
    <2>10. CASE Unlock(c)
      BY <2>10 DEF Unlock, Parked
    <2>11. CASE Finish(c)
      BY <2>11 DEF Finish, Goto
    <2> QED
      BY <1>1, <2>1, <2>2, <2>3, <2>4, <2>5, <2>6, <2>7,
         <2>8, <2>9, <2>10, <2>11 DEF getOrCreateAuthMiddleware
  <1>2. CASE UNCHANGED vars
    BY <1>2 DEF vars
  <1> QED
    BY <1>1, <1>2 DEF Next

\* All callers start idle, with an empty cache.
LEMMA InitInv == Init => Inv
  BY DEF Init, Inv, TypeOK, LockInv, Reading, Exclusive, CacheInv, ResultInv

(***************************************************************************)
(* Inv holds whatever the goroutines do; what follows is read off it.       *)
(***************************************************************************)
THEOREM Invariance == Spec => []Inv
  <1>1. Inv /\ [Next]_vars => Inv'
    BY TypeStep, LockStep, CacheStep, ResultStep DEF Inv
  <1> QED
    BY InitInv, <1>1, PTL DEF Spec

(***************************************************************************)
(* The types of the cache, the lock and the callers.                        *)
(***************************************************************************)
THEOREM TypeCorrect == Spec => []TypeOK
  <1>1. Inv => TypeOK
    BY DEF Inv
  <1> QED
    BY Invariance, <1>1, PTL

(***************************************************************************)
(* No goroutine touches the map while another stores an entry.              *)
(***************************************************************************)
THEOREM MapSafe == Spec => []MapExclusion
  <1>1. Inv => MapExclusion
    BY DEF Inv, LockInv, Reading, Exclusive, MapExclusion
  <1> QED
    BY Invariance, <1>1, PTL

(***************************************************************************)
(* One middleware per configuration, however many requests miss at once.    *)
(***************************************************************************)
THEOREM BuiltOnce == Spec => []OneInstancePerKey
  <1>1. Inv => OneInstancePerKey
    BY DEF Inv, CacheInv, OneInstancePerKey
  <1> QED
    BY Invariance, <1>1, PTL

\* Where a goroutine has no step of its own to take: parked by RLock, waiting for
\* the mutex of the writers, or for the readers to leave.
Blocked(c) ==
  \/ pc[c] = "parked"
  \/ pc[c] = "lock" /\ writer # Nobody
  \/ pc[c] = "drain" /\ readers # {}

WaitsForOneThatRuns ==
  \A c \in Callers : Blocked(c) => \E d \in Callers : ~Blocked(d)

(***************************************************************************)
(* However many goroutines there are, they never all wait for one another:  *)
(* behind every one that the RWMutex blocks is one that runs, the writer or *)
(* a reader that the writer found.                                          *)
(***************************************************************************)
THEOREM NoDeadlock == Spec => []WaitsForOneThatRuns
  <1>1. ASSUME Inv, NEW c \in Callers, Blocked(c)
        PROVE  \E d \in Callers : ~Blocked(d)
    <2>1. CASE readers # {}
      <3>1. PICK d \in readers : TRUE
        BY <2>1
      <3>2. d \in Callers /\ pc[d] \in Reading
        BY <1>1 DEF Inv, TypeOK, LockInv
      <3> QED
        BY <3>2 DEF Blocked, Reading
    <2>2. CASE readers = {}
      <3>1. writer # Nobody
        BY <1>1, <2>2 DEF Inv, LockInv, Blocked
      <3>2. writer \in Callers /\ pc[writer] \in Exclusive \cup {"drain"}
        BY <1>1, <3>1 DEF Inv, TypeOK, LockInv
      <3> QED
        BY <2>2, <3>2 DEF Blocked, Exclusive
    <2> QED
      BY <2>1, <2>2
  <1>2. Inv => WaitsForOneThatRuns
    BY <1>1 DEF WaitsForOneThatRuns
  <1> QED
    BY <1>2, Invariance, PTL

\* The steps between the call and the return that leave the cache alone.
Quiet(c) ==
  \/ RLock(c) \/ Lookup(c) \/ (RUnlock(c) /\ result[c] = Nobody)
  \/ Announce(c) \/ Drained(c) \/ Recheck(c)

\* What Registry calls held.
Held == [c \in Callers |-> IF pc[c] = "use" THEN result[c] ELSE Nobody]

(***************************************************************************)
(* Every step of the cache is a step of Registry: Call asks, Create builds, *)
(* Store binds, the step that returns obtains, Finish gives back; the       *)
(* others stutter.                                                          *)
(***************************************************************************)
LEMMA StepImplements == Inv /\ [Next]_vars => [Reg!RegistryNext]_(Reg!registryVars)
  <1> SUFFICES ASSUME Inv, [Next]_vars
               PROVE  Reg!RegistryNext \/ UNCHANGED Reg!registryVars
    OBVIOUS
  <1> USE CallersAssumption DEF Inv, TypeOK
  <1>1. ASSUME NEW c \in Callers, Call(c)
        PROVE  Reg!Ask(c)
    <2>1. Held[c] = Nobody /\ Held' = Held
      BY <1>1 DEF Call, Goto, Held
    <2> QED
      BY <1>1, <2>1 DEF Call, Held, Reg!Ask
  <1>2. ASSUME NEW c \in Callers, Store(c)
        PROVE  Reg!Bind(key[c])
    <2>1. Held' = Held /\ UNCHANGED key
      BY <1>2 DEF Store, Goto, Held
    <2>2. /\ cache[key[c]] = Nobody /\ cache' = [cache EXCEPT ![key[c]] = c]
          /\ built[key[c]] = 1 /\ UNCHANGED built
      BY <1>2 DEF Store, CacheInv
    <2> QED
      BY <2>1, <2>2 DEF Held, Reg!Bind
  <1>3. ASSUME NEW c \in Callers, (RUnlock(c) /\ result[c] # Nobody) \/ Unlock(c)
        PROVE  Reg!Obtain(c)
    <2>1. Held[c] = Nobody /\ result[c] = cache[key[c]] /\ result[c] # Nobody
      BY <1>3 DEF RUnlock, Unlock, Held, ResultInv
    <2>2. Held' = [Held EXCEPT ![c] = result[c]]
      BY <1>3 DEF RUnlock, Unlock, Parked, Goto, Held
    <2>3. UNCHANGED <<key, cache, built>>
      BY <1>3 DEF RUnlock, Unlock
    <2> QED
      BY <2>1, <2>2, <2>3 DEF Held, Reg!Obtain
  <1>4. ASSUME NEW c \in Callers, Finish(c)
        PROVE  Reg!GiveBack(c)
    <2>1. Held' = [Held EXCEPT ![c] = Nobody]
      BY <1>4 DEF Finish, Goto, Held
    <2> QED
      BY <1>4, <2>1 DEF Finish, Held, Reg!GiveBack
  <1>5. ASSUME NEW c \in Callers, Quiet(c)
        PROVE  UNCHANGED Reg!registryVars
    <2>1. UNCHANGED <<key, cache, built>>
      BY <1>5 DEF Quiet, RLock, Lookup, RUnlock, Announce, Drained, Recheck
    <2>2. \A d \in Callers :
            /\ pc'[d] = "use" <=> pc[d] = "use"
            /\ pc[d] = "use" => result'[d] = result[d]
      BY <1>5 DEF Quiet, RLock, Lookup, RUnlock, Announce, Drained, Recheck, Goto
    <2> QED
      BY <2>1, <2>2 DEF Reg!registryVars
  <1>6. ASSUME NEW c \in Callers, Create(c)
        PROVE  Reg!Build(key[c])
    <2>1. Held' = Held /\ UNCHANGED <<key, cache>>
      BY <1>6 DEF Create, Goto, Held
    <2>2. built[key[c]] = 0
      BY <1>6 DEF Create, LockInv, CacheInv, Building, Exclusive
    <2>3. built' = [built EXCEPT ![key[c]] = 1]
      BY <1>6, <2>2 DEF Create
    <2> QED
      BY <2>1, <2>2, <2>3 DEF Held, Reg!Build
  <1>7. CASE UNCHANGED vars
    BY <1>7 DEF vars, Reg!registryVars
  <1>8. ASSUME NEW c \in Callers,
               Call(c) \/ getOrCreateAuthMiddleware(c) \/ Finish(c)
        PROVE  Reg!RegistryNext \/ UNCHANGED Reg!registryVars
    <2>1. key[c] \in Keys
      OBVIOUS
    <2> HIDE DEF Inv, TypeOK
    <2>2. CASE Call(c)
      BY <1>1, <2>2 DEF Reg!RegistryNext
    <2>3. CASE Store(c)
      BY <1>2, <2>1, <2>3 DEF Reg!RegistryNext
    <2>4. CASE Create(c)
      BY <1>6, <2>1, <2>4 DEF Reg!RegistryNext
    <2>5. CASE RUnlock(c)
      <3>1. CASE result[c] # Nobody
        BY <1>3, <2>5, <3>1 DEF Reg!RegistryNext
      <3>2. CASE result[c] = Nobody
        BY <1>5, <2>5, <3>2 DEF Quiet
      <3> QED
        BY <3>1, <3>2
    <2>6. CASE Unlock(c)
      BY <1>3, <2>6 DEF Reg!RegistryNext
    <2>7. CASE Finish(c)
      BY <1>4, <2>7 DEF Reg!RegistryNext
    <2>8. CASE Quiet(c)
      BY <1>5, <2>8
    <2>9. \/ Call(c) \/ Create(c) \/ Store(c) \/ RUnlock(c) \/ Unlock(c) \/ Finish(c)
          \/ Quiet(c)
      BY <1>8 DEF getOrCreateAuthMiddleware, Quiet
    <2> QED
      BY <2>2, <2>3, <2>4, <2>5, <2>6, <2>7, <2>8, <2>9
  <1> QED
    BY <1>7, <1>8 DEF Next

(***************************************************************************)
(* For any number of callers and keys the cache is a Registry: one build    *)
(* per key, an entry that never changes, for callers that ask for that key. *)
(***************************************************************************)
THEOREM Implements == Spec => KeepsRegistry
  <1>1. ASSUME Init PROVE Reg!RegistryInit
    <2>1. \A c \in Callers : pc[c] # "use"
      BY <1>1 DEF Init
    <2>2. Held = [c \in Callers |-> Nobody]
      BY <2>1 DEF Held
    <2> QED
      BY <1>1, <2>2 DEF Init, Held, Reg!RegistryInit
  <1> QED
    BY Invariance, <1>1, StepImplements, PTL
    DEF Spec, KeepsRegistry, Reg!RegistrySpec

=============================================================================
