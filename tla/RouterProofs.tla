---------------------------- MODULE RouterProofs -----------------------------
(***************************************************************************)
(* The router for any configuration files and any requests: what a loaded   *)
(* configuration guarantees, which files are refused, that the tables       *)
(* answer every request with its best route, and that the rewritings of its *)
(* path agree.                                                              *)
(***************************************************************************)
EXTENDS Router, Induction

\* The routes the loops have been at.
Visited == {m \in Routes : After(next, m)}

Exactly(m) == RouteOf(m).matchType = "exact"

\* What was loaded is the file with its defaults, which were found valid.
LoadInv ==
  /\ file \in Files
  /\ config # Nil =>
       ValidConfig(MergeDefaults(file)) /\ config = Validated(MergeDefaults(file))
  /\ phase = "refused" => ~ValidConfig(MergeDefaults(file))

\* Nothing is filed before the configuration is there; then the loops go on
\* to their end, and only then are requests served.
LoopInv ==
  /\ config = Nil => next = <<1, 1>> /\ exact = <<>> /\ prefixes = <<>>
  /\ config # Nil => next \in Routes \/ next = <<Len(config.services) + 1, 1>>
  /\ phase = "serve" => next = <<Len(config.services) + 1, 1>>
  /\ lookup # Nil => phase = "serve"
  /\ lookup = Nil => found = Nil

\* The exact table has the last of the visited routes under each of its keys.
ExactInv ==
  /\ \A k \in DOMAIN exact :
       /\ exact[k] \in Visited /\ Exactly(exact[k]) /\ k \in Keys(exact[k])
       /\ \A m \in Visited : Exactly(m) /\ k \in Keys(m) => ~After(m, exact[k])
  /\ \A m \in Visited : Exactly(m) => Keys(m) \subseteq DOMAIN exact

\* The other table has the other visited routes, in order once it is in use.
PrefixInv ==
  /\ Range(prefixes) = {m \in Visited : ~Exactly(m)}
  /\ phase = "serve" => Sorted(prefixes)

Inv == TypeOK /\ LoadInv /\ LoopInv /\ ExactInv /\ PrefixInv /\ MatchIsBest

-----------------------------------------------------------------------------
(* The configuration.                                                       *)

LEMMA FilledType ==
  ASSUME NEW p \in PolicySettings
  PROVE  Filled(p) \in PolicySettings
PROOF
  BY DEF Filled, PolicySettings, Unset, DefaultRetry, Growths

LEMMA RouteFilledType ==
  ASSUME NEW r \in RouteSettings
  PROVE  RouteFilled(r) \in RouteSettings
PROOF
  <1>1. (IF r.matchType = "unset" THEN "prefix" ELSE r.matchType)
          \in {"prefix", "exact", "other", "unset"}
    BY DEF RouteSettings
  <1>2. (IF r.methods = {} THEN ValidMethods ELSE r.methods)
          \in SUBSET (ValidMethods \cup {"other"})
    BY DEF RouteSettings
  <1> QED
    BY <1>1, <1>2 DEF RouteFilled, RouteSettings

LEMMA ServiceFilledType ==
  ASSUME NEW s \in ServiceSettings
  PROVE  ServiceFilled(s) \in ServiceSettings
PROOF
  <1> DEFINE filled == [j \in DOMAIN s.routes |-> RouteFilled(s.routes[j])]
  <1>1. filled \in Seq(RouteSettings)
    <2>1. s.routes \in Seq(RouteSettings)
      BY DEF ServiceSettings
    <2>2. \A j \in DOMAIN s.routes : RouteFilled(s.routes[j]) \in RouteSettings
      BY <2>1, RouteFilledType
    <2> QED
      BY <2>1, <2>2
  <1>2. ServiceFilled(s) = [s EXCEPT !.routes = filled]
    BY DEF ServiceFilled
  <1> HIDE DEF filled
  <1> QED
    BY <1>1, <1>2 DEF ServiceSettings

LEMMA MergedType ==
  ASSUME NEW c \in FileSettings
  PROVE  MergeDefaults(c) \in FileSettings
PROOF
  <1> DEFINE filled == [i \in DOMAIN c.services |-> ServiceFilled(c.services[i])]
  <1>1. filled \in Seq(ServiceSettings)
    <2>1. c.services \in Seq(ServiceSettings)
      BY DEF FileSettings
    <2>2. \A i \in DOMAIN c.services : ServiceFilled(c.services[i]) \in ServiceSettings
      BY <2>1, ServiceFilledType
    <2> QED
      BY <2>1, <2>2
  <1>2. Filled(c.retry) \in PolicySettings
    BY FilledType DEF FileSettings
  <1>3. MergeDefaults(c) =
          [c EXCEPT !.timeout  = IF @ = 0 THEN DefaultTimeout ELSE @,
                    !.retry    = Filled(c.retry),
                    !.pool     = IF @ = 0 THEN DefaultPool ELSE @,
                    !.services = filled]
    BY DEF MergeDefaults
  <1>4. (IF c.timeout = 0 THEN DefaultTimeout ELSE c.timeout) \in Int
        /\ (IF c.pool = 0 THEN DefaultPool ELSE c.pool) \in Int
    BY DEF FileSettings, DefaultTimeout, DefaultPool
  <1> HIDE DEF filled
  <1> QED
    BY <1>1, <1>2, <1>3, <1>4 DEF FileSettings

LEMMA ValidatedType ==
  ASSUME NEW c \in FileSettings
  PROVE  Validated(c) \in FileSettings
PROOF
  BY DEF Validated, FileSettings, AuthSettings, DefaultAuthTimeout

\* What a loaded configuration is.
LEMMA Loaded ==
  ASSUME LoadInv, config # Nil
  PROVE  /\ file \in FileSettings
         /\ config \in FileSettings
         /\ ValidConfig(MergeDefaults(file))
         /\ config = Validated(MergeDefaults(file))
         /\ config.services = MergeDefaults(file).services
         /\ config.timeout = MergeDefaults(file).timeout
         /\ config.retry = MergeDefaults(file).retry
PROOF
  <1>1. file \in FileSettings
    BY FilesAssumption DEF LoadInv
  <1>2. MergeDefaults(file) \in FileSettings
    BY <1>1, MergedType
  <1>3. /\ ValidConfig(MergeDefaults(file))
        /\ config = Validated(MergeDefaults(file))
    BY DEF LoadInv
  <1>4. ASSUME NEW c \in FileSettings
        PROVE  /\ Validated(c).services = c.services
               /\ Validated(c).timeout = c.timeout
               /\ Validated(c).retry = c.retry
    BY <1>4 DEF Validated, FileSettings
  <1> QED
    BY <1>1, <1>2, <1>3, <1>4, ValidatedType

LEMMA RouteFilledMethods ==
  ASSUME NEW r \in RouteSettings
  PROVE  RouteFilled(r).methods # {}
PROOF
  BY DEF RouteFilled, RouteSettings, ValidMethods

\* What every route of it is.
LEMMA LoadedRoute ==
  ASSUME LoadInv, NEW m \in Routes
  PROVE  /\ config # Nil
         /\ m = <<m[1], m[2]>>
         /\ m[1] \in 1..Len(config.services)
         /\ m[2] \in 1..Len(ServiceOf(m).routes)
         /\ ServiceOf(m) \in ServiceSettings
         /\ ValidService(ServiceOf(m))
         /\ RouteOf(m) \in RouteSettings
         /\ ValidRoute(RouteOf(m))
         /\ RouteOf(m).methods # {}
PROOF
  <1>1. config # Nil
    BY DEF Routes
  <1>2. PICK i \in DOMAIN config.services :
          \E j \in DOMAIN config.services[i].routes : m = <<i, j>>
    BY DEF Routes
  <1> PICK j \in DOMAIN config.services[i].routes : m = <<i, j>>
    BY <1>2
  <1>3. /\ config \in FileSettings
        /\ file \in FileSettings
        /\ ValidConfig(MergeDefaults(file))
        /\ config.services = MergeDefaults(file).services
    BY <1>1, Loaded
  <1>4. m[1] = i /\ m[2] = j /\ m = <<m[1], m[2]>>
    OBVIOUS
  <1>5. config.services \in Seq(ServiceSettings)
    BY <1>3 DEF FileSettings
  <1>6. config.services[i] \in ServiceSettings /\ i \in 1..Len(config.services)
    BY <1>5
  <1>7. config.services[i].routes \in Seq(RouteSettings)
    BY <1>6 DEF ServiceSettings
  <1>8. /\ config.services[i].routes[j] \in RouteSettings
        /\ j \in 1..Len(config.services[i].routes)
    BY <1>7
  <1>9. ValidService(config.services[i])
    BY <1>3, <1>6 DEF ValidConfig
  <1>10. ValidRoute(config.services[i].routes[j])
    BY <1>9 DEF ValidService
  <1>11. config.services[i].routes[j].methods # {}
    <2> DEFINE given == file.services[i]
    <2>1. file.services \in Seq(ServiceSettings)
      BY <1>3 DEF FileSettings
    <2>2. config.services = [k \in DOMAIN file.services |-> ServiceFilled(file.services[k])]
      BY <1>3 DEF MergeDefaults, FileSettings
    <2>3. config.services[i] = ServiceFilled(given) /\ given \in ServiceSettings
      BY <2>1, <2>2
    <2>4. given.routes \in Seq(RouteSettings)
      BY <2>3 DEF ServiceSettings
    <2> HIDE DEF given
    <2>5. config.services[i].routes = [k \in DOMAIN given.routes |-> RouteFilled(given.routes[k])]
      BY <2>3 DEF ServiceFilled, ServiceSettings
    <2>6. /\ config.services[i].routes[j] = RouteFilled(given.routes[j])
          /\ given.routes[j] \in RouteSettings
      BY <2>4, <2>5
    <2> QED
      BY <2>6, RouteFilledMethods
  <1> QED
    BY <1>1, <1>4, <1>6, <1>8, <1>9, <1>10, <1>11 DEF ServiceOf, RouteOf

-----------------------------------------------------------------------------
(* What is in effect.                                                       *)

LEMMA Maximum ==
  /\ MaxTimeout \in Nat
  /\ DefaultTimeout \in 1..MaxTimeout
  /\ DefaultAuthTimeout \in 1..MaxTimeout
PROOF
  <1>1. MaxTimeout \in Nat /\ DefaultTimeout \in Nat /\ DefaultAuthTimeout \in Nat
    BY SMT DEF MaxTimeout, DefaultTimeout, DefaultAuthTimeout
  <1>2. /\ 1 <= DefaultTimeout /\ DefaultTimeout <= MaxTimeout
        /\ 1 <= DefaultAuthTimeout /\ DefaultAuthTimeout <= MaxTimeout
    BY SMT DEF MaxTimeout, DefaultTimeout, DefaultAuthTimeout
  <1> QED
    BY <1>1, <1>2

LEMMA UsableFromInv == LoadInv => LoadedIsUsable
PROOF
  <1> SUFFICES ASSUME LoadInv, NEW m \in Routes
               PROVE  /\ RouteOf(m).methods # {}
                      /\ GetTimeout(RouteOf(m), ServiceOf(m), config) \in 1..MaxTimeout
                      /\ Valid(GetRetryPolicy(ServiceOf(m), config))
    BY DEF LoadedIsUsable
  <1>1. /\ config # Nil
        /\ RouteOf(m) \in RouteSettings /\ ValidRoute(RouteOf(m)) /\ RouteOf(m).methods # {}
        /\ ServiceOf(m) \in ServiceSettings /\ ValidService(ServiceOf(m))
    BY LoadedRoute
  <1>2. config.timeout \in 1..MaxTimeout /\ Valid(config.retry)
    BY <1>1, Loaded DEF ValidConfig
  <1>3. /\ RouteOf(m).timeout \in Int /\ RouteOf(m).timeout <= MaxTimeout
        /\ ServiceOf(m).timeout \in Int /\ ServiceOf(m).timeout <= MaxTimeout
    BY <1>1 DEF RouteSettings, ServiceSettings, ValidRoute, ValidService
  <1>4. GetTimeout(RouteOf(m), ServiceOf(m), config) \in 1..MaxTimeout
    <2>1. CASE RouteOf(m).timeout > 0
      <3>1. GetTimeout(RouteOf(m), ServiceOf(m), config) = RouteOf(m).timeout
        BY <1>3, <2>1 DEF GetTimeout
      <3> QED
        BY <1>3, <2>1, <3>1
    <2>2. CASE RouteOf(m).timeout <= 0 /\ ServiceOf(m).timeout > 0
      <3>1. ~(RouteOf(m).timeout > 0)
        BY <1>3, <2>2
      <3> QED
        <4>1. GetTimeout(RouteOf(m), ServiceOf(m), config) = ServiceOf(m).timeout
          BY <2>2, <3>1 DEF GetTimeout
        <4> QED
          BY <1>3, <2>2, <4>1
    <2>3. CASE RouteOf(m).timeout <= 0 /\ ServiceOf(m).timeout <= 0
      <3>1. ~(RouteOf(m).timeout > 0) /\ ~(ServiceOf(m).timeout > 0)
        BY <1>3, <2>3
      <3>2. GetTimeout(RouteOf(m), ServiceOf(m), config) = config.timeout
        BY <3>1 DEF GetTimeout
      <3> QED
        BY <1>2, <3>2
    <2> QED
      BY <1>3, <2>1, <2>2, <2>3
  <1>5. Valid(GetRetryPolicy(ServiceOf(m), config))
    BY <1>1, <1>2 DEF GetRetryPolicy, ValidService
  <1> QED
    BY <1>1, <1>4, <1>5

LEMMA AuthFromInv == LoadInv => AuthConfigured
PROOF
  <1> SUFFICES ASSUME LoadInv, NEW m \in Routes, IsForwardAuthEnabled(RouteOf(m), config)
               PROVE  /\ GetAuthServiceURL(RouteOf(m), config) = Nil => RouteOf(m).auth = "on"
                      /\ AuthTimeout(config) > 0
                      /\ AuthTimeout(config) > MaxTimeout => ~config.auth.enabled
    BY DEF AuthConfigured
  <1> DEFINE merged == MergeDefaults(file)
  <1>1. /\ config # Nil
        /\ RouteOf(m) \in RouteSettings
    BY LoadedRoute
  <1>2. /\ merged \in FileSettings /\ ValidConfig(merged) /\ config = Validated(merged)
        /\ config \in FileSettings
    BY <1>1, Loaded, MergedType
  <1> HIDE DEF merged
  <1>3. merged.auth = Nil \/ merged.auth \in AuthSettings
    BY <1>2 DEF FileSettings
  <1>4. ValidAuth(merged.auth)
    BY <1>2 DEF ValidConfig
  <1>5. CASE merged.auth = Nil \/ ~merged.auth.enabled
    <2>1. config = merged
      BY <1>2, <1>5 DEF Validated
    <2>2. AuthTimeout(config) > 0
      BY <1>3, <2>1, Maximum DEF AuthTimeout, AuthSettings
    <2>3. RouteOf(m).auth = "on"
      BY <1>5, <2>1 DEF IsForwardAuthEnabled
    <2>4. AuthTimeout(config) > MaxTimeout => ~config.auth.enabled
      BY <1>5, <2>1, Maximum DEF AuthTimeout
    <2> QED
      BY <2>2, <2>3, <2>4
  <1>6. CASE merged.auth # Nil /\ merged.auth.enabled
    <2>1. merged.auth.url = "http" /\ merged.auth.timeout \in 0..MaxTimeout
      BY <1>4, <1>6 DEF ValidAuth
    <2>2. /\ config.auth = merged.auth \/ config.auth =
            [merged.auth EXCEPT !.timeout = DefaultAuthTimeout]
          /\ merged.auth.timeout = 0 => config.auth =
            [merged.auth EXCEPT !.timeout = DefaultAuthTimeout]
      BY <1>2, <1>3, <1>6 DEF Validated, FileSettings
    <2>3. /\ config.auth \in AuthSettings /\ config.auth.url = "http"
          /\ config.auth.timeout \in 1..MaxTimeout
      BY <1>3, <1>6, <2>1, <2>2, Maximum DEF AuthSettings
    <2>4. config.auth # Nil
      BY <2>3, NilAssumption
    <2>5. AuthTimeout(config) = config.auth.timeout
      BY <2>3, <2>4 DEF AuthTimeout
    <2>6. GetAuthServiceURL(RouteOf(m), config) # Nil
      BY <1>1, <2>3, <2>4, NilAssumption DEF GetAuthServiceURL, RouteSettings, URLs
    <2> QED
      BY <2>3, <2>5, <2>6, Maximum
  <1> QED
    BY <1>5, <1>6

-----------------------------------------------------------------------------
(* What is refused.                                                         *)

LEMMA FilledFields ==
  ASSUME NEW p \in PolicySettings
  PROVE  /\ Filled(p).maxAttempts = IF p.maxAttempts = 0 THEN 3 ELSE p.maxAttempts
         /\ Filled(p).backoff = IF p.backoff = "unset" THEN "exponential" ELSE p.backoff
         /\ Filled(p).initialInterval = IF p.initialInterval = 0 THEN 100 ELSE p.initialInterval
         /\ Filled(p).maxInterval = IF p.maxInterval = 0 THEN 2000 ELSE p.maxInterval
         /\ Filled(p).multiplier =
              IF p.multiplier = Unset.multiplier THEN <<2, 1>> ELSE p.multiplier
PROOF
  BY SMT DEF Filled, PolicySettings, Unset, DefaultRetry

\* Defaults make a valid policy of acceptable values that do not contradict them.
LEMMA FilledValid ==
  ASSUME NEW p \in PolicySettings, ReasonableRetry(p),
         ~(p.maxInterval = 0 /\ p.initialInterval > DefaultRetry.maxInterval),
         ~(p.initialInterval = 0 /\ p.maxInterval \in 1..(DefaultRetry.initialInterval - 1))
  PROVE  Valid(Filled(p))
PROOF
  <1>1. /\ p.maxAttempts \in Int /\ p.initialInterval \in Int /\ p.maxInterval \in Int
        /\ p.multiplier \in Nat \X (Nat \ {0})
    BY DEF PolicySettings
  <1>2. DefaultRetry.maxInterval = 2000 /\ DefaultRetry.initialInterval = 100
    BY SMT DEF DefaultRetry
  <1>3. Filled(p).maxAttempts >= 0
    BY SMT, <1>1, FilledFields DEF ReasonableRetry
  <1>4. Filled(p).backoff \in Growths
    BY FilledFields DEF ReasonableRetry, Growths
  <1>5. /\ Filled(p).initialInterval > 0
        /\ Filled(p).maxInterval > 0
        /\ Filled(p).maxInterval >= Filled(p).initialInterval
    BY SMT, <1>1, <1>2, FilledFields DEF ReasonableRetry
  <1>6. ASSUME Filled(p).backoff = "exponential"
        PROVE  Filled(p).multiplier[1] > Filled(p).multiplier[2]
    <2>1. p.backoff \in {"exponential", "unset"}
      BY <1>6, FilledFields
    <2>2. CASE p.multiplier = Unset.multiplier
      BY SMT, <2>2, FilledFields
    <2>3. CASE p.multiplier # Unset.multiplier
      BY <2>1, <2>3, FilledFields DEF ReasonableRetry
    <2> QED
      BY <2>2, <2>3
  <1> QED
    BY <1>3, <1>4, <1>5, <1>6 DEF Valid

\* A service's own policy is taken as it is.
LEMMA CompleteValid ==
  ASSUME NEW p \in PolicySettings, ReasonableRetry(p), ~Incomplete(p)
  PROVE  Valid(p)
PROOF
  <1>1. /\ p.maxAttempts \in Int /\ p.initialInterval \in Int /\ p.maxInterval \in Int
        /\ p.multiplier \in Nat \X (Nat \ {0})
    BY DEF PolicySettings
  <1>2. p.backoff = "exponential" => p.multiplier # Unset.multiplier
    BY SMT, <1>1 DEF Incomplete, Unset
  <1>3. p.backoff \in Growths
    BY DEF ReasonableRetry, Incomplete
  <1>4. p.backoff = "exponential" => p.multiplier[1] > p.multiplier[2]
    BY <1>2 DEF ReasonableRetry
  <1>5. p.initialInterval > 0 /\ p.maxInterval > 0 /\ p.maxInterval >= p.initialInterval
    BY SMT, <1>1 DEF ReasonableRetry, Incomplete
  <1> QED
    BY <1>3, <1>4, <1>5 DEF Valid, ReasonableRetry

LEMMA RouteFilledValid ==
  ASSUME NEW r \in RouteSettings,
         r.path # <<>>,
         r.matchType \in {"prefix", "exact", "unset"},
         r.methods \subseteq ValidMethods,
         r.timeout <= MaxTimeout
  PROVE  ValidRoute(RouteFilled(r))
PROOF
  BY DEF RouteFilled, RouteSettings, ValidRoute

LEMMA ServiceFilledValid ==
  ASSUME NEW s \in ServiceSettings, ReasonableService(s),
         s.retry # Nil => ~Incomplete(s.retry)
  PROVE  ValidService(ServiceFilled(s)) /\ ServiceFilled(s).name = s.name
PROOF
  <1> DEFINE filled == [j \in DOMAIN s.routes |-> RouteFilled(s.routes[j])]
  <1>1. s.routes \in Seq(RouteSettings)
    BY DEF ServiceSettings
  <1>2. ServiceFilled(s) = [s EXCEPT !.routes = filled]
    BY DEF ServiceFilled
  <1>3. \A j \in DOMAIN filled : ValidRoute(filled[j])
    <2> SUFFICES ASSUME NEW j \in DOMAIN s.routes
                 PROVE  ValidRoute(RouteFilled(s.routes[j]))
      OBVIOUS
    <2>1. s.routes[j] \in RouteSettings
      BY <1>1
    <2> QED
      BY <2>1, RouteFilledValid DEF ReasonableService
  <1>4. filled # <<>>
    <2>1. s.routes # <<>> /\ Len(s.routes) # 0
      BY <1>1 DEF ReasonableService
    <2>2. 1 \in DOMAIN filled
      BY <1>1, <2>1
    <2> HIDE DEF filled
    <2> QED
      BY <2>2
  <1> HIDE DEF filled
  <1>5. /\ ServiceFilled(s).name = s.name /\ ServiceFilled(s).url = s.url
        /\ ServiceFilled(s).timeout = s.timeout /\ ServiceFilled(s).retry = s.retry
        /\ ServiceFilled(s).routes = filled
    BY <1>2 DEF ServiceSettings
  <1>6. s.retry # Nil => Valid(s.retry)
    BY CompleteValid DEF ReasonableService, ServiceSettings
  <1> QED
    BY <1>3, <1>4, <1>5, <1>6 DEF ValidService, ReasonableService

LEMMA RefusalFromInv == LoadInv => RefusedForCause
PROOF
  <1> SUFFICES ASSUME LoadInv, phase = "refused",
                      ReasonableFile(file),
                      \A i \in DOMAIN file.services :
                        file.services[i].retry # Nil => ~Incomplete(file.services[i].retry),
                      ~(/\ file.retry.maxInterval = 0
                        /\ file.retry.initialInterval > DefaultRetry.maxInterval),
                      ~(/\ file.retry.initialInterval = 0
                        /\ file.retry.maxInterval \in 1..(DefaultRetry.initialInterval - 1))
               PROVE  ValidConfig(MergeDefaults(file))
    BY DEF RefusedForCause, LoadInv
  <1> DEFINE merged == MergeDefaults(file)
             filled == [i \in DOMAIN file.services |-> ServiceFilled(file.services[i])]
  <1>1. file \in FileSettings
    BY FilesAssumption DEF LoadInv
  <1>2. /\ merged.timeout = IF file.timeout = 0 THEN DefaultTimeout ELSE file.timeout
        /\ merged.retry = Filled(file.retry)
        /\ merged.pool = IF file.pool = 0 THEN DefaultPool ELSE file.pool
        /\ merged.auth = file.auth
        /\ merged.services = filled
    BY <1>1 DEF MergeDefaults, FileSettings
  <1>3. file.services \in Seq(ServiceSettings)
    BY <1>1 DEF FileSettings
  <1>4. merged.timeout \in 1..MaxTimeout
    BY <1>2, Maximum DEF ReasonableFile
  <1>5. Valid(merged.retry)
    BY <1>1, <1>2, FilledValid DEF ReasonableFile, FileSettings
  <1>6. merged.pool >= 0
    BY SMT, <1>2 DEF ReasonableFile, DefaultPool
  <1>7. ValidAuth(merged.auth)
    BY <1>2 DEF ValidAuth, ReasonableFile
  <1>8. \A i \in DOMAIN filled :
          ValidService(filled[i]) /\ filled[i].name = file.services[i].name
    <2> SUFFICES ASSUME NEW i \in DOMAIN file.services
                 PROVE  /\ ValidService(ServiceFilled(file.services[i]))
                        /\ ServiceFilled(file.services[i]).name = file.services[i].name
      OBVIOUS
    <2>1. file.services[i] \in ServiceSettings /\ ReasonableService(file.services[i])
      BY <1>3 DEF ReasonableFile
    <2> QED
      BY <2>1, ServiceFilledValid
  <1>9. \A i \in DOMAIN filled, k \in DOMAIN filled : filled[k].name = filled[i].name => k = i
    BY <1>8 DEF ReasonableFile
  <1>10. filled # <<>> /\ DOMAIN filled = 1..Len(file.services)
    <2>1. file.services # <<>> /\ Len(file.services) # 0
      BY <1>3 DEF ReasonableFile
    <2>2. 1 \in DOMAIN filled /\ DOMAIN filled = 1..Len(file.services)
      BY <1>3, <2>1
    <2> HIDE DEF filled
    <2> QED
      BY <2>2
  <1>11. \A i \in DOMAIN filled : \A k \in 1..(i - 1) : filled[k].name # filled[i].name
    <2> HIDE DEF filled
    <2> SUFFICES ASSUME NEW i \in DOMAIN filled, NEW k \in 1..(i - 1)
                 PROVE  filled[k].name # filled[i].name
      OBVIOUS
    <2>1. k \in DOMAIN filled /\ k # i
      BY <1>3, <1>10
    <2> QED
      BY <1>9, <2>1
  <1> HIDE DEF merged, filled
  <1>12. ValidConfig(merged)
    BY <1>2, <1>4, <1>5, <1>6, <1>7, <1>8, <1>10, <1>11 DEF ValidConfig
  <1> QED
    BY <1>12 DEF merged

-----------------------------------------------------------------------------
(* The loops and the lookup.                                                *)

\* The loops go through the routes in order, and through all of them.
Ordered ==
  /\ Routes \subseteq Nat \X Nat
  /\ <<1, 1>> \in Routes
  /\ \A m \in Routes : ~After(<<1, 1>>, m)
  /\ <<Len(config.services) + 1, 1>> \in (Nat \X Nat) \ Routes
  /\ \A m \in Routes : After(<<Len(config.services) + 1, 1>>, m)
  /\ \A m \in Routes :
       /\ Following(m) \in Routes \/ Following(m) = <<Len(config.services) + 1, 1>>
       /\ \A n \in Routes :
            /\ After(Following(m), n) <=> n = m \/ After(m, n)
            /\ After(m, n) => ~After(n, m)

LEMMA Loops == LoadInv /\ config # Nil => Ordered
PROOF
  <1> SUFFICES ASSUME LoadInv, config # Nil  PROVE  Ordered
    OBVIOUS
  <1>1. config.services \in Seq(ServiceSettings) /\ config.services # <<>>
    BY Loaded DEF FileSettings, ValidConfig
  <1>2. \A i \in 1..Len(config.services) :
          /\ config.services[i].routes \in Seq(RouteSettings)
          /\ config.services[i].routes # <<>>
    <2> SUFFICES ASSUME NEW i \in 1..Len(config.services)
                 PROVE  /\ config.services[i].routes \in Seq(RouteSettings)
                        /\ config.services[i].routes # <<>>
      OBVIOUS
    <2>1. config.services[i] \in ServiceSettings
      BY <1>1
    <2>2. ValidService(config.services[i])
      BY <1>1, Loaded DEF ValidConfig
    <2> QED
      BY <2>1, <2>2 DEF ServiceSettings, ValidService
  <1>3. Len(config.services) \in Nat \ {0}
    BY <1>1
  <1>4. \A i \in 1..Len(config.services) : Len(config.services[i].routes) \in Nat \ {0}
    BY <1>2
  <1>5. \A i, j : <<i, j>> \in Routes <=>
          /\ i \in 1..Len(config.services)
          /\ j \in 1..Len(config.services[i].routes)
    BY <1>1, <1>2 DEF Routes
  <1>6. \A m \in Routes :
          /\ m = <<m[1], m[2]>>
          /\ m[1] \in 1..Len(config.services)
          /\ m[2] \in 1..Len(config.services[m[1]].routes)
          /\ m[1] \in Nat /\ m[2] \in Nat
    BY <1>3, <1>4, LoadedRoute DEF ServiceOf
  <1>7. <<1, 1>> \in Routes
    BY <1>3, <1>4, <1>5
  <1>8. \A m \in Routes : ~After(<<1, 1>>, m)
    BY <1>3, <1>4, <1>6 DEF After
  <1>9. \A m \in Routes : After(<<Len(config.services) + 1, 1>>, m)
    BY <1>3, <1>6 DEF After
  <1>10. <<Len(config.services) + 1, 1>> \in (Nat \X Nat) \ Routes
    BY <1>3, <1>5
  <1>11. ASSUME NEW m \in Routes
         PROVE  Following(m) \in Routes \/ Following(m) = <<Len(config.services) + 1, 1>>
    <2>1. CASE m[2] < Len(config.services[m[1]].routes)
      <3>1. Following(m) = <<m[1], m[2] + 1>>
        BY <2>1 DEF Following, ServiceOf
      <3>2. m[2] + 1 \in 1..Len(config.services[m[1]].routes)
        BY <1>4, <1>6, <2>1
      <3> QED
        BY <1>5, <1>6, <3>1, <3>2
    <2>2. CASE ~(m[2] < Len(config.services[m[1]].routes))
      <3>1. Following(m) = <<m[1] + 1, 1>>
        BY <2>2 DEF Following, ServiceOf
      <3>2. CASE m[1] = Len(config.services)
        BY <3>1, <3>2
      <3>3. CASE m[1] # Len(config.services)
        <4>1. m[1] + 1 \in 1..Len(config.services)
          BY <1>3, <1>6, <3>3
        <4>2. 1 \in 1..Len(config.services[m[1] + 1].routes)
          BY <1>4, <4>1
        <4> QED
          BY <1>5, <3>1, <4>1, <4>2
      <3> QED
        BY <3>2, <3>3
    <2> QED
      BY <2>1, <2>2
  <1>12. ASSUME NEW m \in Routes, NEW n \in Routes
         PROVE  After(Following(m), n) <=> n = m \/ After(m, n)
    <2>1. n = m <=> n[1] = m[1] /\ n[2] = m[2]
      BY <1>6
    <2>2. CASE m[2] < Len(config.services[m[1]].routes)
      <3>1. Following(m) = <<m[1], m[2] + 1>>
        BY <2>2 DEF Following, ServiceOf
      <3>2. After(Following(m), n) <=> m[1] > n[1] \/ (m[1] = n[1] /\ m[2] + 1 > n[2])
        BY <3>1 DEF After
      <3> QED
        BY <1>6, <2>1, <3>2 DEF After
    <2>3. CASE ~(m[2] < Len(config.services[m[1]].routes))
      <3>1. Following(m) = <<m[1] + 1, 1>>
        BY <2>3 DEF Following, ServiceOf
      <3>2. After(Following(m), n) <=> m[1] + 1 > n[1] \/ (m[1] + 1 = n[1] /\ 1 > n[2])
        BY <3>1 DEF After
      <3>3. m[1] = n[1] => n[2] <= m[2]
        BY <1>4, <1>6, <2>3
      <3>4. n[1] \in Nat /\ n[2] \in Nat /\ n[2] >= 1 /\ m[1] \in Nat /\ m[2] \in Nat
        BY <1>4, <1>6
      <3> QED
        BY <2>1, <3>2, <3>3, <3>4 DEF After
    <2> QED
      BY <2>2, <2>3
  <1>13. ASSUME NEW m \in Routes, NEW n \in Routes, After(m, n)  PROVE  ~After(n, m)
    BY <1>6, <1>13 DEF After
  <1>14. Routes \subseteq Nat \X Nat
    BY <1>6
  <1> QED
    BY <1>7, <1>8, <1>9, <1>10, <1>11, <1>12, <1>13, <1>14 DEF Ordered

\* A route that fits a request is filed under its path and method.
LEMMA FitsExactly ==
  ASSUME NEW l, NEW m, Exactly(m)
  PROVE  Fits(m, l) <=> <<Requested(l), l.method>> \in Keys(m)
PROOF
  BY DEF Exactly, Fits, Keys

LEMMA FitsPrefix ==
  ASSUME NEW l, NEW m, ~Exactly(m)
  PROVE  Fits(m, l) <=> prefixMatches(m, Requested(l), l.method)
PROOF
  BY DEF Exactly, Fits, prefixMatches

Best(l, m) ==
  LET fitting == {n \in Routes : Fits(n, l)} IN
  IF fitting = {} THEN m = Nil
  ELSE m \in fitting /\ ~\E n \in fitting : Better(n, m)

LEMMA MatchBest ==
  ASSUME TypeOK, LoadInv, LoopInv, ExactInv, PrefixInv, phase = "serve", NEW l
  PROVE  /\ Best(l, Match(Requested(l), l.method))
         /\ Match(Requested(l), l.method) \in Routes \cup {Nil}
PROOF
  <1> DEFINE key == <<Requested(l), l.method>>
             hits == Hits(Requested(l), l.method)
             match == Match(Requested(l), l.method)
  <1>1. Visited = Routes
    <2>1. config # Nil /\ next = <<Len(config.services) + 1, 1>>
      BY DEF LoopInv, TypeOK
    <2> QED
      BY <2>1, Loops DEF Ordered, Visited
  <1>2. \A n \in Routes : Exactly(n) /\ Fits(n, l) => key \in DOMAIN exact
    BY <1>1, FitsExactly DEF ExactInv
  <1>3. CASE key \in DOMAIN exact
    <2>1. match = exact[key]
      BY <1>3 DEF Match
    <2>2. match \in Routes /\ Exactly(match) /\ key \in Keys(match)
      BY <1>1, <1>3, <2>1 DEF ExactInv
    <2>3. \A n \in Routes : Exactly(n) /\ Fits(n, l) => ~After(n, match)
      BY <1>1, <1>3, <2>1, FitsExactly DEF ExactInv
    <2> HIDE DEF key, match
    <2>4. Fits(match, l)
      BY <2>2, FitsExactly DEF key
    <2>5. \A n \in Routes : Fits(n, l) => ~Better(n, match)
      BY <2>2, <2>3 DEF Better, Exactly
    <2>6. Best(l, match)
      BY <2>2, <2>4, <2>5 DEF Best
    <2> QED
      BY <2>2, <2>6 DEF match
  <1>4. CASE key \notin DOMAIN exact /\ hits # {}
    <2>1. match = prefixes[Min(hits)]
      BY <1>4 DEF Match
    <2>2. hits \in SUBSET Nat /\ hits \subseteq DOMAIN prefixes
      BY DEF Hits, TypeOK
    <2>3. Min(hits) \in hits /\ \A n \in hits : Min(hits) <= n
      <3> HIDE DEF hits
      <3> QED
        BY <1>4, <2>2, Least DEF Min
    <2>4. match \in Range(prefixes)
      BY <2>1, <2>2, <2>3 DEF Range
    <2>5. match \in Routes /\ ~Exactly(match)
      BY <1>1, <2>4 DEF PrefixInv
    <2>6. prefixMatches(match, Requested(l), l.method)
      BY <2>1, <2>3 DEF Hits
    <2> HIDE DEF match
    <2>7. ASSUME NEW n \in Routes, Fits(n, l)  PROVE  ~Better(n, match)
      <3>1. ~Exactly(n)
        BY <1>2, <1>4, <2>7
      <3>2. PICK i \in DOMAIN prefixes : prefixes[i] = n
        BY <1>1, <3>1 DEF PrefixInv, Range
      <3>3. i \in hits
        BY <2>7, <3>1, <3>2, FitsPrefix DEF Hits
      <3>4. i = Min(hits) \/ Min(hits) < i
        BY <2>2, <2>3, <3>3
      <3>5. Len(RouteOf(match).path) >= Len(RouteOf(n).path)
        <4>1. /\ Len(RouteOf(match).path) \in Nat
              /\ Len(RouteOf(n).path) \in Nat
          BY <2>5, LoadedRoute DEF RouteSettings
        <4>2. CASE i = Min(hits)
          BY <2>1, <3>2, <4>1, <4>2
        <4>3. CASE Min(hits) < i
          <5> HIDE DEF hits
          <5> QED
            BY <2>1, <2>2, <2>3, <3>2, <4>3 DEF PrefixInv, Sorted
        <4> QED
          BY <3>4, <4>2, <4>3
      <3>6. /\ Len(RouteOf(match).path) \in Nat
            /\ Len(RouteOf(n).path) \in Nat
        BY <2>5, LoadedRoute DEF RouteSettings
      <3>7. ~(Len(RouteOf(n).path) > Len(RouteOf(match).path))
        BY <3>5, <3>6
      <3> QED
        BY <2>5, <3>1, <3>7 DEF Better, Exactly
    <2>8. Fits(match, l)
      BY <2>5, <2>6, FitsPrefix
    <2>9. Best(l, match)
      BY <2>5, <2>7, <2>8 DEF Best
    <2> QED
      BY <2>5, <2>9 DEF match
  <1>5. CASE key \notin DOMAIN exact /\ hits = {}
    <2>1. match = Nil
      BY <1>5 DEF Match
    <2>2. ASSUME NEW n \in Routes, Fits(n, l)  PROVE  FALSE
      <3>1. ~Exactly(n)
        BY <1>2, <1>5, <2>2
      <3>2. PICK i \in DOMAIN prefixes : prefixes[i] = n
        BY <1>1, <3>1 DEF PrefixInv, Range
      <3>3. i \in hits
        BY <2>2, <3>1, <3>2, FitsPrefix DEF Hits
      <3> QED
        BY <1>5, <3>3
    <2> HIDE DEF match
    <2>3. Best(l, match)
      BY <2>1, <2>2 DEF Best
    <2> QED
      BY <2>1, <2>3 DEF match
  <1> QED
    BY <1>3, <1>4, <1>5

-----------------------------------------------------------------------------
(* Rewriting.                                                               *)

Chars == STRING \cup {Slash}
Paths == Seq(Chars)
Tokens == [char: Chars, escaped: BOOLEAN]
Wires == Seq(Tokens)
URLRecords == [path: Paths, raw: Wires]

\* Decoding and both ways of encoding go through a path one by one.
LEMMA EncodedTypes ==
  /\ \A sent \in Wires : Decoded(sent) \in Paths /\ Len(Decoded(sent)) = Len(sent)
  /\ \A path \in Paths : Bare(path) \in Wires /\ Len(Bare(path)) = Len(path)
  /\ \A path \in Paths : escape(path) \in Wires /\ Len(escape(path)) = Len(path)
PROOF
  <1>1. \A S : \A s \in Seq(S) : Len(s) \in Nat /\ (\A i \in 1..Len(s) : s[i] \in S)
    OBVIOUS
  <1>2. ASSUME NEW S, NEW n \in Nat, NEW f \in [1..n -> S]  PROVE  f \in Seq(S) /\ Len(f) = n
    OBVIOUS
  <1>3. ASSUME NEW sent \in Wires
        PROVE  Decoded(sent) \in Paths /\ Len(Decoded(sent)) = Len(sent)
    <2>1. Len(sent) \in Nat /\ (\A i \in 1..Len(sent) : sent[i] \in Tokens)
      BY <1>1 DEF Wires
    <2>2. Decoded(sent) \in [1..Len(sent) -> Chars]
      BY <2>1 DEF Decoded, Tokens
    <2> QED
      BY <1>2, <2>1, <2>2 DEF Paths
  <1>4. ASSUME NEW path \in Paths
        PROVE  /\ Bare(path) \in Wires /\ Len(Bare(path)) = Len(path)
               /\ escape(path) \in Wires /\ Len(escape(path)) = Len(path)
    <2>1. Len(path) \in Nat /\ (\A i \in 1..Len(path) : path[i] \in Chars)
      BY <1>1 DEF Paths
    <2>2. Bare(path) \in [1..Len(path) -> Tokens]
      BY <2>1 DEF Bare, Tokens
    <2>3. escape(path) \in [1..Len(path) -> Tokens]
      BY <2>1 DEF escape, Tokens
    <2> QED
      BY <1>2, <2>1, <2>2, <2>3 DEF Wires
  <1> QED
    BY <1>3, <1>4

\* Only the empty path has no character.
LEMMA EmptyPaths ==
  /\ \A path \in Paths : path = <<>> <=> Len(path) = 0
  /\ \A sent \in Wires : sent = <<>> <=> Len(sent) = 0
BY DEF Paths, Wires

\* Two paths with the same characters are the same.
LEMMA SamePath ==
  ASSUME NEW p \in Paths, NEW q \in Paths, Len(p) = Len(q), \A i \in 1..Len(p) : p[i] = q[i]
  PROVE  p = q
BY DEF Paths

\* Decoding undoes both.
LEMMA DecodeEncoded ==
  ASSUME NEW path \in Paths
  PROVE  Decoded(Bare(path)) = path /\ Decoded(escape(path)) = path
PROOF
  <1>1. \A sent \in {Bare(path), escape(path)} :
          sent \in Wires /\ Len(sent) = Len(path) /\ Decoded(sent) \in Paths
                /\ Len(Decoded(sent)) = Len(path)
    BY EncodedTypes
  <1>2. \A i \in 1..Len(path) : Decoded(Bare(path))[i] = path[i]
    BY <1>1 DEF Decoded, Bare
  <1>3. \A i \in 1..Len(path) : Decoded(escape(path))[i] = path[i]
    BY <1>1 DEF Decoded, escape
  <1> QED
    BY <1>1, <1>2, <1>3, SamePath

\* A path as it is sent is taken apart into a URL.
LEMMA ParsedType ==
  ASSUME NEW sent \in Wires
  PROVE  Parsed(sent) \in URLRecords /\ Parsed(sent).path = Decoded(sent)
         /\ Parsed(sent).raw \in {<<>>, sent}
PROOF
  <1>1. <<>> \in Wires
    BY DEF Wires
  <1> QED
    BY <1>1, EncodedTypes DEF Parsed, URLRecords

\* EscapedPath has the characters of Path, whatever RawPath is.
LEMMA EscapedPathType ==
  ASSUME NEW url \in URLRecords
  PROVE  /\ EscapedPath(url) \in Wires
         /\ Decoded(EscapedPath(url)) = url.path
         /\ EscapedPath(url) \in {url.raw, Bare(url.path), escape(url.path)}
         /\ validEncoded(EscapedPath(url))
PROOF
  <1>1. url.path \in Paths /\ url.raw \in Wires
    BY DEF URLRecords
  <1>2. /\ Bare(url.path) \in Wires /\ Decoded(Bare(url.path)) = url.path
        /\ escape(url.path) \in Wires /\ Decoded(escape(url.path)) = url.path
    BY <1>1, EncodedTypes, DecodeEncoded
  <1>3. validEncoded(escape(url.path))
    BY <1>1, EncodedTypes, EscapedAssumption DEF validEncoded, escape
  <1>4. url.path = <<Star>> => validEncoded(Bare(url.path))
    BY EscapedAssumption DEF validEncoded, Bare
  <1> DEFINE stands == url.raw # <<>> /\ validEncoded(url.raw) /\ Decoded(url.raw) = url.path
  <1>5. CASE stands
    BY <1>1, <1>5 DEF EscapedPath
  <1>6. CASE ~stands /\ url.path = <<Star>>
    <2>1. EscapedPath(url) = Bare(url.path)
      BY <1>6 DEF EscapedPath
    <2> QED
      BY <1>2, <1>4, <1>6, <2>1
  <1>7. CASE ~stands /\ url.path # <<Star>>
    <2>1. EscapedPath(url) = escape(url.path)
      BY <1>7 DEF EscapedPath
    <2> QED
      BY <1>2, <1>3, <2>1
  <1> QED
    BY <1>5, <1>6, <1>7

\* RawPath counts only if it stands for Path.
LEMMA RawCounts ==
  ASSUME NEW path, NEW r, NEW s,
         r = <<>> \/ Decoded(r) # path, s = <<>> \/ Decoded(s) # path
  PROVE  EscapedPath([path |-> path, raw |-> r]) = EscapedPath([path |-> path, raw |-> s])
BY DEF EscapedPath

\* What EscapedPath has made of a URL stands for Path as RawPath does.
LEMMA EscapedTwice ==
  ASSUME NEW url \in URLRecords
  PROVE  EscapedPath([path |-> url.path, raw |-> EscapedPath(url)]) = EscapedPath(url)
PROOF
  <1> DEFINE sent == EscapedPath(url)
  <1>1. sent \in Wires /\ Decoded(sent) = url.path /\ validEncoded(sent)
    BY EscapedPathType
  <1>2. url.path \in Paths /\ Len(url.path) = Len(sent)
    <2> HIDE DEF sent
    <2> QED
      BY <1>1, EncodedTypes DEF URLRecords
  <1>3. CASE sent # <<>>
    <2> HIDE DEF sent
    <2> QED
      BY <1>1, <1>3 DEF EscapedPath
  <1>4. CASE sent = <<>>
    <2>1. url.path = <<>> /\ url.path # <<Star>>
      <3> HIDE DEF sent
      <3>1. Len(url.path) = 0 /\ Len(<<Star>>) = 1
        BY <1>2, <1>4
      <3> QED
        BY <1>2, <3>1, EmptyPaths
    <2>2. EscapedPath([path |-> url.path, raw |-> <<>>]) = escape(url.path)
      BY <2>1 DEF EscapedPath
    <2>3. escape(url.path) = <<>>
      BY <1>2, <2>1, EncodedTypes, EmptyPaths
    <2> QED
      BY <1>4, <2>2, <2>3
  <1> QED
    BY <1>3, <1>4

\* A path without the prefix starts where the prefix ends.
LEMMA StrippedStarts ==
  ASSUME NEW path \in Paths, NEW prefix \in Paths,
         path = <<>> \/ StartsWith(path, Slash), CutBetween(prefix, path), prefix # <<>>
  PROVE  StartsWith(Stripped(path, prefix), Slash)
PROOF
  <1>1. <<Slash>> # <<>> /\ <<Slash>>[1] = Slash
    OBVIOUS
  <1>2. CASE ~IsPrefix(prefix, path)
    <2>1. Trimmed(path, prefix) = path
      BY <1>2 DEF Trimmed
    <2> QED
      BY <1>1, <2>1 DEF Stripped, StartsWith
  <1>3. CASE IsPrefix(prefix, path)
    <2>1. Trimmed(path, prefix) = SubSeq(path, Len(prefix) + 1, Len(path))
      BY <1>3 DEF Trimmed
    <2>2. Len(prefix) <= Len(path)
      BY <1>3 DEF IsPrefix
    <2>3. CASE Len(prefix) = Len(path)
      <3>1. Trimmed(path, prefix) = <<>>
        BY <2>1, <2>3 DEF Paths, Chars
      <3> QED
        BY <1>1, <3>1 DEF Stripped, StartsWith
    <2>4. CASE Len(prefix) < Len(path)
      <3>1. path[Len(prefix) + 1] = Slash
        BY <1>3, <2>4 DEF CutBetween
      <3>2. Trimmed(path, prefix) # <<>> /\ Trimmed(path, prefix)[1] = Slash
        <4> DEFINE rest == SubSeq(path, Len(prefix) + 1, Len(path))
        <4>1. Len(prefix) \in Nat /\ Len(path) \in Nat
          BY DEF Paths, Chars
        <4>2. Len(rest) = Len(path) - Len(prefix) /\ rest \in Paths
          BY <2>4, <4>1 DEF Paths, Chars
        <4>3. rest[1] = path[Len(prefix) + 1]
          BY <2>4, <4>1 DEF Paths, Chars
        <4> HIDE DEF rest
        <4>4. rest # <<>>
          BY <2>4, <4>1, <4>2 DEF Paths, Chars
        <4> QED
          BY <2>1, <3>1, <4>3, <4>4 DEF rest
      <3> QED
        BY <3>2 DEF Stripped, StartsWith
    <2> QED
      BY <2>2, <2>3, <2>4 DEF Paths, Chars
  <1> QED
    BY <1>2, <1>3

\* And it is not empty.
LEMMA StrippedType ==
  ASSUME NEW path \in Paths, NEW prefix \in Paths
  PROVE  Stripped(path, prefix) \in Paths /\ Stripped(path, prefix) # <<>>
PROOF
  <1>1. <<Slash>> # <<>> /\ <<Slash>> \in Paths
    BY DEF Paths, Chars
  <1>2. Trimmed(path, prefix) \in Paths
    <2>1. Len(path) \in Nat /\ Len(prefix) \in Nat
      BY DEF Paths
    <2>2. SubSeq(path, Len(prefix) + 1, Len(path)) \in Paths
      BY <2>1 DEF Paths
    <2> QED
      BY <2>2 DEF Trimmed
  <1> QED
    BY <1>1, <1>2 DEF Stripped

\* The backend's path comes first, with one slash between the two.
LEMMA JoinedPaths ==
  ASSUME NEW base \in Wires, NEW path \in Wires
  PROVE  /\ Joined(base, path) \in Wires
         /\ base = <<>> /\ StartsWith(path, BareSlash) => Joined(base, path) = path
         /\ base = <<BareSlash>> /\ StartsWith(path, BareSlash) => Joined(base, path) = path
         /\ base = <<>> /\ path = <<>> => Joined(base, path) = <<BareSlash>>
         /\ base = <<BareSlash>> /\ path = <<>> => Joined(base, path) = <<BareSlash>>
         /\ Rooted(base) /\ Rooted(path) => StartsWith(Joined(base, path), BareSlash)
         /\ base # <<>> /\ base # <<BareSlash>> => Len(Joined(base, path)) # Len(path)
PROOF
  <1> DEFINE ends == base # <<>> /\ Last(base) = BareSlash
  <1>1. <<BareSlash>> \in Wires /\ Len(<<BareSlash>>) = 1 /\ <<BareSlash>>[1] = BareSlash /\ <<BareSlash>> # <<>>
    BY DEF Wires, Tokens, Chars, BareSlash
  <1>2. CASE ends /\ StartsWith(path, BareSlash)
    <2>1. Joined(base, path) = base \o Tail(path)
      BY <1>2 DEF Joined
    <2>2. path # <<>> /\ path[1] = BareSlash /\ Tail(path) \in Wires
      BY <1>2 DEF StartsWith, Wires
    <2>3. base \o Tail(path) \in Wires /\ base # <<>>
      BY <1>2, <2>2 DEF Wires
    <2>4. StartsWith(base, BareSlash) => StartsWith(base \o Tail(path), BareSlash)
      BY <2>2, <2>3 DEF StartsWith, Wires
    <2>5. ASSUME base = <<BareSlash>>  PROVE  base \o Tail(path) = path
      BY <1>1, <2>2, <2>5 DEF Wires
    <2>6. ASSUME Len(base \o Tail(path)) = Len(path)  PROVE  base = <<BareSlash>>
      <3>1. Len(base) = 1
        <4>1. Len(base \o Tail(path)) = Len(base) + Len(Tail(path))
          BY <2>2 DEF Wires
        <4>2. Len(Tail(path)) = Len(path) - 1 /\ Len(path) \in Nat /\ Len(base) \in Nat
          BY <2>2 DEF Wires
        <4>3. Len(base) + Len(Tail(path)) = Len(path)
          BY <2>6, <4>1
        <4>4. \A a \in Nat, b \in Nat : a + (b - 1) = b => a = 1
          OBVIOUS
        <4>5. Len(base) + (Len(path) - 1) = Len(path)
          BY <4>2, <4>3
        <4> QED
          BY <4>2, <4>4, <4>5
      <3>2. base[1] = BareSlash
        BY <1>2, <3>1 DEF Last
      <3> QED
        BY <3>1, <3>2, <1>1 DEF Wires
    <2>7. path # <<>> /\ base # <<>>
      BY <2>2, <2>3
    <2>8. Rooted(base) => StartsWith(base \o Tail(path), BareSlash)
      BY <2>4, <2>7 DEF Rooted
    <2> QED
      BY <2>1, <2>3, <2>5, <2>6, <2>7, <2>8
  <1>3. CASE ~ends /\ ~StartsWith(path, BareSlash)
    <2>1. Joined(base, path) = base \o <<BareSlash>> \o path
      BY <1>3 DEF Joined
    <2>2. base \o <<BareSlash>> \o path \in Wires
      BY <1>1 DEF Wires
    <2>3. Rooted(base) => StartsWith(base \o <<BareSlash>> \o path, BareSlash)
      BY <1>1, <2>2 DEF Rooted, StartsWith, Wires
    <2>4. base = <<>> /\ path = <<>> => base \o <<BareSlash>> \o path = <<BareSlash>>
      BY <1>1 DEF Wires
    <2>5. base # <<BareSlash>>
      BY <1>1, <1>3 DEF Last
    <2> QED
      BY <1>3, <2>1, <2>2, <2>3, <2>4, <2>5
  <1>4. CASE ~(ends /\ StartsWith(path, BareSlash)) /\ ~(~ends /\ ~StartsWith(path, BareSlash))
    <2>1. Joined(base, path) = base \o path
      BY <1>4 DEF Joined
    <2>2. base \o path \in Wires
      BY DEF Wires
    <2>3. base = <<>> => base \o path = path
      BY DEF Wires
    <2>4. path = <<>> => base \o path = base
      BY DEF Wires
    <2>5. ASSUME Rooted(base), Rooted(path)  PROVE  StartsWith(base \o path, BareSlash)
      <3>1. CASE base = <<>>
        BY <1>4, <2>3, <3>1
      <3>2. CASE base # <<>>
        BY <2>2, <2>5, <3>2 DEF Rooted, StartsWith, Wires
      <3> QED
        BY <3>1, <3>2
    <2>6. base = <<BareSlash>> => ends
      BY <1>1 DEF Last
    <2>7. ~StartsWith(<<>>, BareSlash)
      BY DEF StartsWith
    <2>8. base # <<>> => Len(base \o path) # Len(path)
      BY DEF Wires
    <2> QED
      BY <1>4, <2>1, <2>2, <2>3, <2>4, <2>5, <2>6, <2>7, <2>8
  <1> QED
    BY <1>2, <1>3, <1>4

\* What is known of a request that was matched.
LEMMA Matched ==
  ASSUME TypeOK, LoadInv, LoopInv, MatchIsBest, found # Nil
  PROVE  /\ lookup.path \in Wires
         /\ ServiceOf(found).url \in Wires
         /\ RouteOf(found).path \in Paths /\ RouteOf(found).path # <<>>
         /\ IsPrefix(RouteOf(found).path, Requested(lookup))
PROOF
  <1>1. lookup # Nil /\ lookup \in Lookups
    BY DEF LoopInv, TypeOK
  <1>2. found \in Routes /\ Fits(found, lookup)
    BY <1>1 DEF MatchIsBest
  <1>3. lookup.path \in Seq([char: STRING, escaped: BOOLEAN])
    BY <1>1, LookupsAssumption
  <1>4. /\ ServiceOf(found).url \in Seq([char: STRING, escaped: BOOLEAN])
        /\ RouteOf(found).path \in Seq(STRING)
        /\ RouteOf(found).path # <<>>
    BY <1>2, LoadedRoute DEF ServiceSettings, RouteSettings, ValidService, ValidRoute
  <1>5. Seq(STRING) \subseteq Paths /\ Seq([char: STRING, escaped: BOOLEAN]) \subseteq Wires
    <2>1. STRING \subseteq Chars /\ [char: STRING, escaped: BOOLEAN] \subseteq Tokens
      BY DEF Tokens, Chars
    <2>2. \A S, T : S \subseteq T => Seq(S) \subseteq Seq(T)
      OBVIOUS
    <2> QED
      BY <2>1, <2>2 DEF Paths, Wires
  <1>6. \A s \in Paths : IsPrefix(s, s)
    BY DEF IsPrefix, Paths
  <1>7. IsPrefix(RouteOf(found).path, Requested(lookup))
    BY <1>2, <1>4, <1>5, <1>6 DEF Fits
  <1> QED
    BY <1>3, <1>4, <1>5, <1>7

\* A path that starts with a slash is sent so, encoded or not.
LEMMA SentRooted ==
  ASSUME NEW url \in URLRecords,
         url.path = <<>> \/ StartsWith(url.path, Slash),
         url.raw = <<>> \/ StartsWith(url.raw, BareSlash)
  PROVE  /\ StartsWith(RequestURI(url), BareSlash)
         /\ Rooted(EscapedPath(url))
         /\ url.path = <<>> <=> EscapedPath(url) = <<>>
PROOF
  <1> DEFINE sent == EscapedPath(url)
  <1>1. sent \in Wires /\ Decoded(sent) = url.path /\ sent \in {url.raw, Bare(url.path), escape(url.path)}
    BY EscapedPathType
  <1>2. url.path \in Paths
    BY DEF URLRecords
  <1>3. Len(sent) = Len(url.path) /\ (sent = <<>> <=> url.path = <<>>)
    <2> HIDE DEF sent
    <2>1. Len(sent) = Len(url.path)
      BY <1>1, EncodedTypes
    <2> QED
      BY <1>1, <1>2, <2>1, EmptyPaths
  <1>4. ASSUME sent # <<>>  PROVE  sent[1] = BareSlash
    <2>1. url.path[1] = Slash /\ 1 \in 1..Len(url.path)
      <3>1. Len(url.path) \in Nat \ {0}
        BY <1>2, <1>3, <1>4, EmptyPaths DEF Paths
      <3> QED
        BY <1>3, <1>4, <3>1 DEF StartsWith
    <2>2. Bare(url.path)[1] = BareSlash /\ escape(url.path)[1] = BareSlash
      <3>1. /\ Bare(url.path)[1] = [char |-> url.path[1], escaped |-> FALSE]
            /\ escape(url.path)[1] = [char |-> url.path[1], escaped |-> url.path[1] \in Escaped]
        BY <2>1 DEF Bare, escape
      <3>2. (Slash \in Escaped) = FALSE
        BY EscapedAssumption
      <3> QED
        BY <2>1, <3>1, <3>2 DEF BareSlash
    <2>3. sent = url.raw => sent[1] = BareSlash
      BY <1>4 DEF StartsWith
    <2> HIDE DEF sent
    <2> QED
      BY <1>1, <2>2, <2>3
  <1>5. StartsWith(<<BareSlash>>, BareSlash)
    BY DEF StartsWith
  <1> HIDE DEF sent
  <1>6. StartsWith(RequestURI(url), BareSlash)
    BY <1>4, <1>5 DEF RequestURI, StartsWith, sent
  <1> QED
    BY <1>3, <1>4, <1>6 DEF Rooted, StartsWith, sent

\* So is the path of a URL that was sent with one.
LEMMA ParsedRooted ==
  ASSUME NEW sent \in Wires, Rooted(sent)
  PROVE  /\ Parsed(sent).path = <<>> \/ StartsWith(Parsed(sent).path, Slash)
         /\ Parsed(sent).raw = <<>> \/ StartsWith(Parsed(sent).raw, BareSlash)
         /\ sent = <<>> <=> Parsed(sent).path = <<>>
PROOF
  <1>1. /\ Parsed(sent).path = Decoded(sent) /\ Parsed(sent).raw \in {<<>>, sent}
        /\ Decoded(sent) \in Paths /\ Len(Decoded(sent)) = Len(sent)
    BY ParsedType, EncodedTypes
  <1>2. sent = <<>> <=> Decoded(sent) = <<>>
    BY <1>1, EmptyPaths
  <1>3. sent # <<>> => Decoded(sent)[1] = Slash
    <2>1. sent # <<>> => 1 \in 1..Len(sent)
      BY EmptyPaths DEF Wires
    <2> QED
      BY <2>1 DEF Rooted, StartsWith, Decoded, BareSlash
  <1> QED
    BY <1>1, <1>2, <1>3 DEF Rooted, StartsWith

\* The URL that is joined from two.
LEMMA JoinedType ==
  ASSUME NEW a \in URLRecords, NEW b \in URLRecords
  PROVE  /\ joinURLPath(a, b) \in URLRecords
         /\ joinURLPath(a, b).path = Decoded(Joined(EscapedPath(a), EscapedPath(b)))
         /\ joinURLPath(a, b).raw =
              IF a.raw = <<>> /\ b.raw = <<>> THEN <<>> ELSE Joined(EscapedPath(a), EscapedPath(b))
PROOF
  <1>1. Joined(EscapedPath(a), EscapedPath(b)) \in Wires
    BY EscapedPathType, JoinedPaths
  <1>2. <<>> \in Wires
    BY DEF Wires
  <1> QED
    BY <1>1, <1>2, EncodedTypes DEF joinURLPath, URLRecords

\* The Director sets Path.
LEMMA Directed ==
  ASSUME NEW route, NEW current \in URLRecords, NEW original \in URLRecords
  PROVE  applyDirector(route, current, original) =
           [path |-> IF route.strip THEN Stripped(current.path, route.path) ELSE original.path,
            raw  |-> current.raw]
BY DEF applyDirector, URLRecords

\* "" and "/" are as net/url would write them.
LEMMA RootParsed ==
  ASSUME NEW base \in {<<>>, <<BareSlash>>}
  PROVE  base \in Wires /\ Parsed(base).raw = <<>> /\ EscapedPath(Parsed(base)) = base
PROOF
  <1>1. base \in Wires /\ Rooted(base)
    <2>1. <<>> \in Wires /\ <<BareSlash>> \in Wires
      <3>1. BareSlash \in Tokens
        BY DEF Tokens, Chars, BareSlash
      <3> QED
        BY <3>1 DEF Wires
    <2>2. <<BareSlash>> # <<>> /\ <<BareSlash>>[1] = BareSlash
      OBVIOUS
    <2> QED
      BY <2>1, <2>2 DEF Rooted, StartsWith
  <1>2. escape(Decoded(base)) = base
    <2>1. CASE base = <<>>
      <3>1. Len(escape(Decoded(base))) = 0 /\ escape(Decoded(base)) \in Wires
        BY <1>1, <2>1, EncodedTypes
      <3> QED
        BY <2>1, <3>1, EmptyPaths
    <2>2. CASE base = <<BareSlash>>
      <3>1. Decoded(base) = <<Slash>>
        BY <2>2 DEF Decoded, BareSlash
      <3>2. escape(<<Slash>>) = <<BareSlash>>
        <4>1. (Slash \in Escaped) = FALSE
          BY EscapedAssumption
        <4>2. escape(<<Slash>>) = [i \in 1..1 |-> BareSlash]
          <5>1. Len(<<Slash>>) = 1 /\ <<Slash>>[1] = Slash /\ \A i \in 1..1 : i = 1
            OBVIOUS
          <5>2. \A i \in 1..1 : [char |-> <<Slash>>[i], escaped |-> <<Slash>>[i] \in Escaped]
                               = BareSlash
            BY <4>1, <5>1 DEF BareSlash
          <5> QED
            BY <5>1, <5>2 DEF escape
        <4>3. [i \in 1..1 |-> BareSlash] = <<BareSlash>>
          OBVIOUS
        <4> QED
          BY <4>2, <4>3
      <3> QED
        BY <2>2, <3>1, <3>2
    <2> QED
      BY <2>1, <2>2
  <1>3. Parsed(base).raw = <<>>
    BY <1>2 DEF Parsed, Usual
  <1>4. EscapedPath(Parsed(base)) = escape(Decoded(base))
    <2>1. Decoded(base) # <<Star>>
      <3>1. CASE base = <<>>
        <4>1. Len(Decoded(base)) = 0 /\ Len(<<Star>>) = 1
          BY <1>1, <3>1, EncodedTypes
        <4> QED
          BY <4>1
      <3>2. CASE base = <<BareSlash>>
        BY <3>2 DEF Decoded, BareSlash, Slash, Star
      <3> QED
        BY <3>1, <3>2
    <2> QED
      BY <1>1, <1>3, <2>1, ParsedType DEF EscapedPath
  <1> QED
    BY <1>1, <1>2, <1>3, <1>4

\* A backend without a path of its own leaves the client's URL.
LEMMA RootJoined ==
  ASSUME NEW base \in {<<>>, <<BareSlash>>}, NEW sent \in Wires, StartsWith(sent, BareSlash),
         NEW v, v = Parsed(sent), NEW j, j = joinURLPath(Parsed(base), v)
  PROVE  /\ j.path = v.path
         /\ j.raw = IF v.raw = <<>> THEN <<>> ELSE EscapedPath(v)
PROOF
  <1>1. base \in Wires /\ Parsed(base).raw = <<>> /\ EscapedPath(Parsed(base)) = base
    BY RootParsed
  <1>2. Rooted(sent) /\ sent # <<>>
    BY DEF Rooted, StartsWith
  <1>3. v \in URLRecords /\ Parsed(base) \in URLRecords
    BY <1>1, ParsedType
  <1>4. EscapedPath(v) \in Wires /\ Decoded(EscapedPath(v)) = v.path
    BY <1>3, EscapedPathType
  <1>5. StartsWith(EscapedPath(v), BareSlash)
    <2>1. v.path # <<>>
      BY <1>2, ParsedRooted
    <2>2. Rooted(EscapedPath(v)) /\ EscapedPath(v) # <<>>
      BY <1>2, <1>3, <2>1, ParsedRooted, SentRooted
    <2> QED
      BY <2>2 DEF Rooted
  <1>6. Joined(base, EscapedPath(v)) = EscapedPath(v)
    BY <1>1, <1>4, <1>5, JoinedPaths
  <1>7. /\ j.path = Decoded(Joined(EscapedPath(Parsed(base)), EscapedPath(v)))
        /\ j.raw = IF Parsed(base).raw = <<>> /\ v.raw = <<>>
                   THEN <<>> ELSE Joined(EscapedPath(Parsed(base)), EscapedPath(v))
    BY <1>3, JoinedType
  <1> QED
    BY <1>1, <1>4, <1>6, <1>7

\* And then whatever Path is set to is sent in the same way on both paths.
LEMMA RootSame ==
  ASSUME NEW base \in {<<>>, <<BareSlash>>}, NEW sent \in Wires, StartsWith(sent, BareSlash),
         NEW v, v = Parsed(sent), NEW j, j = joinURLPath(Parsed(base), v), NEW path
  PROVE  EscapedPath([path |-> path, raw |-> j.raw]) = EscapedPath([path |-> path, raw |-> v.raw])
PROOF
  <1>1. v \in URLRecords /\ v.path = Decoded(sent) /\ v.raw \in {<<>>, sent}
    BY ParsedType
  <1>2. j.raw = IF v.raw = <<>> THEN <<>> ELSE EscapedPath(v)
    BY RootJoined
  <1>3. v = [path |-> v.path, raw |-> v.raw]
    BY <1>1 DEF URLRecords
  <1>4. CASE v.raw = <<>>
    BY <1>2, <1>4
  <1>5. CASE v.raw # <<>> /\ path = v.path
    BY <1>1, <1>2, <1>3, <1>5, EscapedTwice
  <1>6. CASE v.raw # <<>> /\ path # v.path
    <2>1. Decoded(j.raw) # path /\ Decoded(v.raw) # path
      BY <1>1, <1>2, <1>6, EscapedPathType
    <2> QED
      BY <2>1, RawCounts
  <1> QED
    BY <1>4, <1>5, <1>6

\* A backend's path that net/url would write otherwise makes the path longer.
LEMMA OddJoined ==
  ASSUME NEW base \in Wires, Parsed(base).raw # <<>>, NEW v \in URLRecords
  PROVE  joinURLPath(Parsed(base), v).path # v.path
PROOF
  <1> DEFINE a == Parsed(base)
             first == EscapedPath(a)
             rest == EscapedPath(v)
  <1>1. a \in URLRecords /\ a.path = Decoded(base) /\ a.raw = base /\ base # <<>>
    BY ParsedType
  <1>2. /\ first \in Wires /\ Decoded(first) = Decoded(base)
        /\ rest \in Wires /\ Decoded(rest) = v.path
    <2> HIDE DEF a
    <2> QED
      BY <1>1, EscapedPathType
  <1>3. Len(first) = Len(base)
    <2> HIDE DEF first
    <2> QED
      BY <1>2, EncodedTypes
  <1>4. first # <<>>
    <2> HIDE DEF first
    <2> QED
      BY <1>1, <1>2, <1>3, EmptyPaths
  <1>5. first # <<BareSlash>>
    <2> SUFFICES ASSUME first = <<BareSlash>>  PROVE  FALSE
      OBVIOUS
    <2>1. Len(base) = 1 /\ base[1].char = Slash
      <3>1. Len(base) = 1
        BY <1>3
      <3>2. Decoded(base)[1] = Slash
        BY <1>2 DEF Decoded, BareSlash
      <3> QED
        BY <3>1, <3>2 DEF Decoded
    <2>2. validEncoded(base)
      BY <2>1, EscapedAssumption DEF validEncoded
    <2>3. first = base
      <3> HIDE DEF a
      <3> QED
        BY <1>1, <2>2 DEF EscapedPath
    <2> QED
      <3> HIDE DEF first
      <3>1. base \in {<<>>, <<BareSlash>>}
        BY <2>3
      <3> QED
        BY <3>1, RootParsed
  <1>6. Len(Joined(first, rest)) # Len(rest) /\ Joined(first, rest) \in Wires
    <2> HIDE DEF first, rest
    <2> QED
      BY <1>2, <1>4, <1>5, JoinedPaths
  <1>7. joinURLPath(a, v).path = Decoded(Joined(first, rest))
    <2> HIDE DEF a
    <2> QED
      BY <1>1, JoinedType
  <1> HIDE DEF a, first, rest
  <1> QED
    BY <1>2, <1>6, <1>7, EncodedTypes DEF a

LEMMA SameFromInv ==
  ASSUME TypeOK, LoadInv, LoopInv, MatchIsBest
  PROVE  SameRewriting
PROOF
  <1> DEFINE route == RouteOf(found)
             base == ServiceOf(found).url
             sent == lookup.path
             prefix == RouteOf(found).path
             direct == DirectPath(route, base, sent)
             retry == RetryPath(route, base, sent)
             ws == WebSocketPath(route, base, sent)
             v == Parsed(sent)
             j == joinURLPath(Parsed(base), v)
             stays == IF route.strip THEN Stripped(v.path, prefix) ELSE v.path
             goes == IF route.strip THEN Stripped(j.path, prefix) ELSE v.path
  <1> SUFFICES ASSUME found # Nil
               PROVE  /\ \/ direct = retry
                         \/ /\ base \notin {<<>>, <<BareSlash>>} \/ ~Rooted(sent)
                            /\ route.strip \/ ~Usual(sent)
                      /\ route.strip \/ Decoded(direct) = Decoded(retry)
                      /\ ws = Bare(Decoded(retry)) \/ sent = <<>>
    BY DEF SameRewriting, Rewritings
  <1>1. sent \in Wires /\ base \in Wires /\ prefix \in Paths /\ prefix # <<>>
    BY Matched
  <1>2. IsPrefix(prefix, Normalized(Decoded(sent)))
    BY Matched DEF Requested
  <1>3. prefix = route.path
    OBVIOUS
  <1> HIDE DEF sent, base, prefix, route
  <1>4. /\ v \in URLRecords /\ v.path = Decoded(sent) /\ v.raw \in {<<>>, sent}
        /\ Parsed(base) \in URLRecords
    BY <1>1, ParsedType
  <1>5. j \in URLRecords
    BY <1>4, JoinedType
  <1>6. /\ direct = RequestURI([path |-> goes, raw |-> j.raw])
        /\ retry = RequestURI([path |-> stays, raw |-> v.raw])
        /\ ws = Bare(stays)
    <2> HIDE DEF v, j
    <2>1. /\ direct = RequestURI(applyDirector(route, j, v))
          /\ retry = RequestURI(applyDirector(route, v, v))
      BY DEF DirectPath, RetryPath, v, j
    <2>2. ws = Bare(stays)
      BY <1>3 DEF WebSocketPath, v
    <2> QED
      BY <1>3, <1>4, <1>5, <2>1, <2>2, Directed
  <1>7. /\ stays \in Paths /\ goes \in Paths
        /\ [path |-> goes, raw |-> j.raw] \in URLRecords
        /\ [path |-> stays, raw |-> v.raw] \in URLRecords
    <2> HIDE DEF v, j
    <2> QED
      BY <1>1, <1>4, <1>5, StrippedType DEF URLRecords
  <1>8. /\ direct = IF EscapedPath([path |-> goes, raw |-> j.raw]) = <<>> THEN <<BareSlash>>
                    ELSE EscapedPath([path |-> goes, raw |-> j.raw])
        /\ retry = IF EscapedPath([path |-> stays, raw |-> v.raw]) = <<>> THEN <<BareSlash>>
                   ELSE EscapedPath([path |-> stays, raw |-> v.raw])
    BY <1>6 DEF RequestURI
  <1> HIDE DEF direct, retry, ws, v, j, stays, goes
  <1>9. ASSUME base \in {<<>>, <<BareSlash>>}, Rooted(sent), route.strip  PROVE  direct = retry
    <2>1. CASE StartsWith(sent, BareSlash)
      <3>1. j.path = v.path
        BY <1>1, <1>9, <2>1, RootJoined DEF v, j
      <3>2. goes = stays
        BY <3>1 DEF goes, stays
      <3>3. EscapedPath([path |-> goes, raw |-> j.raw]) = EscapedPath([path |-> goes, raw |-> v.raw])
        BY <1>1, <1>9, <2>1, RootSame DEF v, j
      <3> QED
        BY <1>6, <3>2, <3>3 DEF RequestURI
    <2>2. CASE sent = <<>>
      <3>1. v.raw = <<>> /\ v.path = <<>>
        BY <1>1, <1>4, <1>9, <2>2, ParsedRooted DEF v
      <3>2. /\ Parsed(base).raw = <<>> /\ EscapedPath(Parsed(base)) = base
            /\ EscapedPath(v) = <<>>
        BY <1>9, <2>2, RootParsed DEF v
      <3>3. j.raw = <<>> /\ j.path = <<Slash>>
        <4>1. Joined(base, <<>>) = <<BareSlash>>
          <5>1. <<>> \in Wires
            BY DEF Wires
          <5> QED
            BY <1>1, <1>9, <5>1, JoinedPaths
        <4>2. Decoded(<<BareSlash>>) = <<Slash>>
          BY DEF Decoded, BareSlash
        <4>3. /\ j.path = Decoded(Joined(EscapedPath(Parsed(base)), EscapedPath(v)))
              /\ j.raw = IF Parsed(base).raw = <<>> /\ v.raw = <<>>
                         THEN <<>> ELSE Joined(EscapedPath(Parsed(base)), EscapedPath(v))
          BY DEF j, joinURLPath
        <4> QED
          BY <3>1, <3>2, <4>1, <4>2, <4>3
      <3>4. Normalized(Decoded(sent)) = <<Slash>> \o <<>>
        BY <1>4, <3>1 DEF Normalized, StartsWith
      <3>5. <<Slash>> \o <<>> = <<Slash>> /\ Len(<<Slash>>) = 1 /\ <<Slash>> \in Paths
        BY DEF Paths, Chars
      <3>6. Len(prefix) = 1
        BY <1>1, <1>2, <3>4, <3>5 DEF IsPrefix, Paths
      <3>7. Trimmed(<<Slash>>, prefix) = <<>>
        <4>1. IsPrefix(prefix, <<Slash>>)
          BY ONLY <1>2, <3>4, <3>5, Zenon
        <4>2. Trimmed(<<Slash>>, prefix) = SubSeq(<<Slash>>, Len(prefix) + 1, Len(<<Slash>>))
          BY ONLY <4>1 DEF Trimmed
        <4>3. Trimmed(<<Slash>>, prefix) = SubSeq(<<Slash>>, 2, 1)
          BY <3>5, <3>6, <4>2
        <4> QED
          BY <3>5, <4>3 DEF Paths
      <3>8. Trimmed(<<>>, prefix) = <<>>
        BY <3>6 DEF Trimmed, IsPrefix
      <3>9. goes = stays
        BY <1>9, <3>1, <3>3, <3>7, <3>8 DEF goes, stays, Stripped
      <3> QED
        BY <1>6, <3>1, <3>3, <3>9
    <2> QED
      BY <1>9, <2>1, <2>2 DEF Rooted
  <1>10. ASSUME base \in {<<>>, <<BareSlash>>}, StartsWith(sent, BareSlash), ~route.strip
         PROVE  direct = retry
    <2>1. goes = stays
      BY <1>10 DEF goes, stays
    <2>2. EscapedPath([path |-> goes, raw |-> j.raw]) = EscapedPath([path |-> goes, raw |-> v.raw])
      BY <1>1, <1>10, RootSame DEF v, j
    <2> QED
      BY <1>6, <2>1, <2>2 DEF RequestURI
  <1>11. ASSUME Usual(sent), ~route.strip  PROVE  direct = retry
    <2>1. goes = v.path /\ stays = v.path
      BY <1>11 DEF goes, stays
    <2>2. v.raw = <<>>
      BY <1>11 DEF v, Parsed
    <2>3. j.raw = <<>> \/ Decoded(j.raw) # v.path
      <3>1. CASE Parsed(base).raw = <<>>
        BY <1>4, <2>2, <3>1, JoinedType DEF j
      <3>2. CASE Parsed(base).raw # <<>>
        <4>1. j.path # v.path
          BY <1>1, <1>4, <3>2, OddJoined DEF j
        <4>2. Decoded(j.raw) = j.path
          BY <1>4, <3>2, JoinedType DEF j
        <4> QED
          BY <4>1, <4>2
      <3> QED
        BY <3>1, <3>2
    <2>4. EscapedPath([path |-> v.path, raw |-> j.raw]) = EscapedPath([path |-> v.path, raw |-> v.raw])
      BY <2>2, <2>3, RawCounts
    <2> QED
      BY <1>6, <2>1, <2>4 DEF RequestURI
  <1>12. Usual(<<>>)
    <2>1. escape(Decoded(<<>>)) \in Wires /\ Len(escape(Decoded(<<>>))) = 0
      <3>1. <<>> \in Wires /\ Len(<<>>) = 0
        BY DEF Wires
      <3> QED
        BY <3>1, EncodedTypes
    <2> QED
      BY <2>1, EmptyPaths DEF Usual
  <1>13. ~route.strip => Decoded(direct) = Decoded(retry)
    <2> SUFFICES ASSUME ~route.strip  PROVE  Decoded(direct) = Decoded(retry)
      OBVIOUS
    <2>1. goes = v.path /\ stays = v.path
      BY DEF goes, stays
    <2>2. /\ Decoded(EscapedPath([path |-> goes, raw |-> j.raw])) = v.path
          /\ Decoded(EscapedPath([path |-> stays, raw |-> v.raw])) = v.path
          /\ EscapedPath([path |-> goes, raw |-> j.raw]) \in Wires
          /\ EscapedPath([path |-> stays, raw |-> v.raw]) \in Wires
      BY <1>7, <2>1, EscapedPathType
    <2>3. /\ EscapedPath([path |-> goes, raw |-> j.raw]) = <<>> <=> v.path = <<>>
          /\ EscapedPath([path |-> stays, raw |-> v.raw]) = <<>> <=> v.path = <<>>
      BY <1>7, <2>1, <2>2, EncodedTypes, EmptyPaths
    <2> QED
      BY <1>8, <2>2, <2>3
  <1>14. ws = Bare(Decoded(retry)) \/ sent = <<>>
    <2> SUFFICES ASSUME sent # <<>>  PROVE  Decoded(retry) = stays
      BY <1>6
    <2>1. stays # <<>>
      <3>1. v.path # <<>>
        BY <1>1, <1>4, EncodedTypes, EmptyPaths
      <3> QED
        BY <1>1, <1>4, <3>1, StrippedType DEF stays, URLRecords
    <2>2. /\ Decoded(EscapedPath([path |-> stays, raw |-> v.raw])) = stays
          /\ EscapedPath([path |-> stays, raw |-> v.raw]) \in Wires
      BY <1>7, EscapedPathType
    <2>3. EscapedPath([path |-> stays, raw |-> v.raw]) # <<>>
      BY <1>7, <2>1, <2>2, EncodedTypes, EmptyPaths
    <2> QED
      BY <1>8, <2>2, <2>3
  <1>15. \/ direct = retry
         \/ /\ base \notin {<<>>, <<BareSlash>>} \/ ~Rooted(sent)
            /\ route.strip \/ ~Usual(sent)
    BY <1>9, <1>10, <1>11, <1>12 DEF Rooted
  <1> QED
    BY <1>13, <1>14, <1>15

LEMMA SlashFromInv ==
  ASSUME TypeOK, LoadInv, LoopInv, MatchIsBest
  PROVE  StartsWithSlashMostly
PROOF
  <1> DEFINE route == RouteOf(found)
             base == ServiceOf(found).url
             sent == lookup.path
             prefix == RouteOf(found).path
             v == Parsed(sent)
             j == joinURLPath(Parsed(base), v)
             stays == IF route.strip THEN Stripped(v.path, prefix) ELSE v.path
             goes == IF route.strip THEN Stripped(j.path, prefix) ELSE v.path
  <1> SUFFICES ASSUME found # Nil, Rooted(sent), Rooted(base)
               PROVE  /\ ~route.strip \/ CutBetween(prefix, j.path)
                           => StartsWith(DirectPath(route, base, sent), BareSlash)
                      /\ ~route.strip \/ CutBetween(prefix, v.path)
                           => StartsWith(RetryPath(route, base, sent), BareSlash)
                      /\ route.strip /\ CutBetween(prefix, v.path)
                           => StartsWith(WebSocketPath(route, base, sent), BareSlash)
    BY DEF StartsWithSlashMostly, Rewritings
  <1>1. sent \in Wires /\ base \in Wires /\ prefix \in Paths /\ prefix # <<>>
    BY Matched
  <1>2. prefix = route.path
    OBVIOUS
  <1> HIDE DEF sent, base, prefix, route
  <1>3. /\ v \in URLRecords /\ Parsed(base) \in URLRecords
        /\ v.path = <<>> \/ StartsWith(v.path, Slash)
        /\ v.raw = <<>> \/ StartsWith(v.raw, BareSlash)
    BY <1>1, ParsedType, ParsedRooted
  <1>4. Rooted(EscapedPath(v)) /\ Rooted(EscapedPath(Parsed(base)))
    BY <1>1, <1>3, ParsedRooted, SentRooted
  <1>5. /\ j \in URLRecords /\ StartsWith(j.path, Slash)
        /\ j.raw = <<>> \/ StartsWith(j.raw, BareSlash)
    <2> DEFINE joined == Joined(EscapedPath(Parsed(base)), EscapedPath(v))
    <2> HIDE DEF v
    <2>1. joined \in Wires /\ StartsWith(joined, BareSlash)
      BY <1>3, <1>4, EscapedPathType, JoinedPaths
    <2>2. j \in URLRecords /\ j.path = Decoded(joined) /\ j.raw \in {<<>>, joined}
      BY <1>3, JoinedType
    <2>3. StartsWith(Decoded(joined), Slash)
      <3> HIDE DEF joined
      <3>1. Decoded(joined) \in Paths /\ Len(Decoded(joined)) = Len(joined)
        BY <2>1, EncodedTypes
      <3>2. Len(joined) \in Nat \ {0}
        BY <2>1, EmptyPaths DEF Wires, StartsWith
      <3>3. Decoded(joined)[1] = Slash
        BY <2>1, <3>2 DEF Decoded, StartsWith, BareSlash
      <3> QED
        BY <3>1, <3>2, <3>3, EmptyPaths DEF StartsWith
    <2> HIDE DEF joined, j
    <2> QED
      BY <2>1, <2>2, <2>3
  <1>6. /\ DirectPath(route, base, sent) = RequestURI([path |-> goes, raw |-> j.raw])
        /\ RetryPath(route, base, sent) = RequestURI([path |-> stays, raw |-> v.raw])
        /\ WebSocketPath(route, base, sent) = Bare(stays)
    <2> HIDE DEF v, j
    <2>1. /\ DirectPath(route, base, sent) = RequestURI(applyDirector(route, j, v))
          /\ RetryPath(route, base, sent) = RequestURI(applyDirector(route, v, v))
      BY DEF DirectPath, RetryPath, v, j
    <2>2. WebSocketPath(route, base, sent) = Bare(stays)
      BY <1>2 DEF WebSocketPath, v
    <2> QED
      BY <1>2, <1>3, <1>5, <2>1, <2>2, Directed
  <1> HIDE DEF v, j
  <1>7. /\ stays \in Paths /\ goes \in Paths
        /\ [path |-> goes, raw |-> j.raw] \in URLRecords
        /\ [path |-> stays, raw |-> v.raw] \in URLRecords
    BY <1>1, <1>3, <1>5, StrippedType DEF URLRecords
  <1>8. ~route.strip \/ CutBetween(prefix, j.path) => goes = <<>> \/ StartsWith(goes, Slash)
    BY <1>1, <1>3, <1>5, StrippedStarts DEF URLRecords
  <1>9. ~route.strip \/ CutBetween(prefix, v.path) => stays = <<>> \/ StartsWith(stays, Slash)
    BY <1>1, <1>3, StrippedStarts DEF URLRecords
  <1>10. ASSUME ~route.strip \/ CutBetween(prefix, j.path)
         PROVE  StartsWith(DirectPath(route, base, sent), BareSlash)
    <2> HIDE DEF goes
    <2> QED
      BY <1>5, <1>6, <1>7, <1>8, <1>10, SentRooted
  <1>11. ASSUME ~route.strip \/ CutBetween(prefix, v.path)
         PROVE  StartsWith(RetryPath(route, base, sent), BareSlash)
    <2> HIDE DEF stays
    <2> QED
      BY <1>3, <1>6, <1>7, <1>9, <1>11, SentRooted
  <1>12. ASSUME route.strip, CutBetween(prefix, v.path)
         PROVE  StartsWith(WebSocketPath(route, base, sent), BareSlash)
    <2>1. StartsWith(stays, Slash)
      BY <1>1, <1>3, <1>12, StrippedStarts DEF URLRecords
    <2> HIDE DEF stays
    <2>2. Len(stays) \in Nat \ {0} /\ Bare(stays) \in Wires /\ Len(Bare(stays)) = Len(stays)
      BY <1>7, <2>1, EmptyPaths, EncodedTypes DEF StartsWith, Paths
    <2>3. Bare(stays)[1] = BareSlash
      <3>1. 1 \in 1..Len(stays) /\ stays[1] = Slash
        BY <2>1, <2>2 DEF StartsWith
      <3> QED
        BY <3>1 DEF Bare, BareSlash
    <2> QED
      BY <1>6, <2>2, <2>3, EmptyPaths DEF StartsWith
  <1> QED
    BY <1>10, <1>11, <1>12

-----------------------------------------------------------------------------
(* The inductive invariant.                                                 *)

LEMMA InitInv == Init => Inv
PROOF
  <1> SUFFICES ASSUME Init  PROVE  Inv
    OBVIOUS
  <1>1. Routes = {} /\ Visited = {} /\ DOMAIN exact = {} /\ Range(prefixes) = {}
    BY DEF Init, Routes, Visited, Range
  <1>2. prefixes \in Seq(Routes)
    BY DEF Init
  <1>3. TypeOK
    BY <1>1, <1>2 DEF Init, TypeOK
  <1>4. LoadInv /\ LoopInv
    BY DEF Init, LoadInv, LoopInv
  <1>5. ExactInv /\ PrefixInv
    BY <1>1 DEF Init, ExactInv, PrefixInv
  <1> QED
    BY <1>3, <1>4, <1>5 DEF Inv, Init, MatchIsBest

LEMMA RefuseInv == Inv /\ Refuse => Inv'
PROOF
  <1> SUFFICES ASSUME Inv, Refuse  PROVE  Inv'
    OBVIOUS
  <1>1. Routes' = Routes /\ Visited' = Visited
    BY DEF Refuse, Routes, Visited, After
  <1>2. TypeOK' /\ LoadInv' /\ LoopInv'
    BY <1>1 DEF Inv, Refuse, TypeOK, LoadInv, LoopInv
  <1>3. ExactInv'
    BY <1>1 DEF Inv, Refuse, ExactInv, Exactly, RouteOf, Keys, After
  <1>4. PrefixInv'
    BY <1>1 DEF Inv, Refuse, PrefixInv, Exactly, RouteOf, Range
  <1>5. lookup' = Nil
    BY DEF Inv, Refuse, LoopInv
  <1> QED
    BY <1>2, <1>3, <1>4, <1>5 DEF Inv, MatchIsBest

LEMMA LoadConfigInv == Inv /\ LoadConfig => Inv'
PROOF
  <1> SUFFICES ASSUME Inv, LoadConfig  PROVE  Inv'
    OBVIOUS
  <1>1. config' = Validated(MergeDefaults(file)) /\ config' # Nil
    <2>1. file \in FileSettings
      BY FilesAssumption DEF Inv, LoadInv
    <2> QED
      BY <2>1, MergedType, ValidatedType, NilAssumption DEF LoadConfig
  <1>2. LoadInv'
    BY <1>1 DEF Inv, LoadConfig, LoadInv
  <1>3. Ordered'
    <2>1. (LoadInv /\ config # Nil)'
      BY <1>1, <1>2
    <2> QED
      BY <2>1, Loops, PTL
  <1>4. config = Nil /\ lookup = Nil /\ found = Nil
    BY DEF Inv, LoadConfig, TypeOK, LoopInv
  <1>5. next' = <<1, 1>> /\ exact' = <<>> /\ prefixes' = <<>>
    BY <1>4 DEF Inv, LoadConfig, LoopInv
  <1>6. Visited' = {}
    BY <1>3, <1>5 DEF Visited, Ordered
  <1>7. DOMAIN exact' = {} /\ Range(prefixes)' = {}
    BY <1>5 DEF Range
  <1>8. TypeOK'
    BY <1>1, <1>4, <1>5, <1>7 DEF Inv, LoadConfig, TypeOK
  <1>9. LoopInv'
    BY <1>1, <1>3, <1>4, <1>5 DEF LoadConfig, LoopInv, Ordered
  <1>10. ExactInv' /\ PrefixInv'
    BY <1>6, <1>7 DEF LoadConfig, ExactInv, PrefixInv
  <1> QED
    BY <1>2, <1>4, <1>8, <1>9, <1>10 DEF Inv, LoadConfig, MatchIsBest

LEMMA AddRouteInv == Inv /\ AddRoute => Inv'
PROOF
  <1> SUFFICES ASSUME Inv, AddRoute  PROVE  Inv'
    OBVIOUS
  <1>1. config # Nil /\ config' = config /\ phase' = phase /\ lookup = Nil /\ lookup' = Nil
    BY DEF Inv, AddRoute, TypeOK, LoopInv
  <1>2. Ordered
    BY <1>1, Loops DEF Inv
  <1>3. /\ Routes' = Routes
        /\ \A m : RouteOf(m)' = RouteOf(m) /\ Exactly(m)' = Exactly(m) /\ Keys(m)' = Keys(m)
    BY <1>1 DEF Routes, RouteOf, Exactly, Keys
  <1>4. next \in Routes /\ next' = Following(next)
    BY DEF AddRoute
  <1>5. Visited' = Visited \cup {next}
    BY <1>2, <1>3, <1>4 DEF Visited, Ordered, After
  <1>6. next' \in Routes \/ next' = <<Len(config.services) + 1, 1>>
    BY <1>2, <1>4 DEF Ordered
  <1>7. LoadInv' /\ LoopInv'
    BY <1>1, <1>3, <1>6 DEF Inv, AddRoute, LoadInv, LoopInv
  <1>8. CASE Exactly(next)
    <2>1. prefixes' = prefixes /\ exact' = addExactRoute(exact, next)
      BY <1>8 DEF AddRoute, Exactly
    <2>2. /\ DOMAIN exact' = DOMAIN exact \cup Keys(next)
          /\ \A k \in Keys(next) : exact'[k] = next
          /\ \A k \in DOMAIN exact' \ Keys(next) : exact'[k] = exact[k]
      BY <2>1 DEF addExactRoute
    <2>3. \A k \in Keys(next) : k[2] \in ValidMethods
      BY <1>4, LoadedRoute DEF Inv, Keys, ValidRoute
    <2>4. TypeOK'
      BY <1>1, <1>2, <1>3, <1>4, <1>6, <2>1, <2>2, <2>3
      DEF Inv, AddRoute, TypeOK, Ordered
    <2>5. ASSUME NEW k \in DOMAIN exact'
          PROVE  /\ exact'[k] \in Visited' /\ Exactly(exact'[k]) /\ k \in Keys(exact'[k])
                 /\ \A m \in Visited' : Exactly(m) /\ k \in Keys(m) => ~After(m, exact'[k])
      <3>1. CASE k \in Keys(next)
        <4>1. \A m \in Visited' : ~After(m, next)
          BY <1>2, <1>4, <1>5 DEF Visited, Ordered
        <4> QED
          BY <1>5, <1>8, <2>2, <3>1, <4>1
      <3>2. CASE k \notin Keys(next)
        <4>1. k \in DOMAIN exact /\ exact'[k] = exact[k]
          BY <2>2, <3>2
        <4> QED
          BY <1>5, <3>2, <4>1 DEF Inv, ExactInv
      <3> QED
        BY <3>1, <3>2
    <2>6. \A m \in Visited' : Exactly(m) => Keys(m) \subseteq DOMAIN exact'
      BY <1>5, <2>2 DEF Inv, ExactInv
    <2>7. ExactInv'
      BY <1>3, <2>5, <2>6 DEF ExactInv, After
    <2>8. PrefixInv'
      BY <1>1, <1>3, <1>5, <1>8, <2>1 DEF Inv, AddRoute, PrefixInv, Range
    <2> QED
      BY <1>1, <1>7, <2>4, <2>7, <2>8 DEF Inv, MatchIsBest
  <1>9. CASE ~Exactly(next)
    <2>1. exact' = exact /\ prefixes' = Append(prefixes, next)
      BY <1>9 DEF AddRoute, Exactly
    <2>2. prefixes \in Seq(Routes)
      BY DEF Inv, TypeOK
    <2>3. prefixes' \in Seq(Routes)
      BY <1>4, <2>1, <2>2
    <2>4. TypeOK'
      BY <1>1, <1>2, <1>3, <1>6, <2>1, <2>3 DEF Inv, AddRoute, TypeOK, Ordered
    <2>5. ExactInv'
      BY <1>3, <1>5, <1>9, <2>1 DEF Inv, ExactInv, After
    <2>6. Range(Append(prefixes, next)) = Range(prefixes) \cup {next}
      BY <1>4, <2>2 DEF Range
    <2>7. Range(prefixes)' = Range(prefixes) \cup {next}
      BY <2>1, <2>6 DEF Range
    <2>8. PrefixInv'
      BY <1>1, <1>3, <1>5, <1>9, <2>7 DEF Inv, AddRoute, PrefixInv
    <2> QED
      BY <1>1, <1>7, <2>4, <2>5, <2>8 DEF Inv, MatchIsBest
  <1> QED
    BY <1>8, <1>9

LEMMA SortPrefixesInv == Inv /\ SortPrefixes => Inv'
PROOF
  <1> SUFFICES ASSUME Inv, SortPrefixes  PROVE  Inv'
    OBVIOUS
  <1>1. /\ config # Nil /\ config' = config /\ next' = next /\ exact' = exact
        /\ lookup = Nil /\ lookup' = Nil
    BY DEF Inv, SortPrefixes, TypeOK, LoopInv
  <1>2. /\ Routes' = Routes /\ Visited' = Visited
        /\ \A m : RouteOf(m)' = RouteOf(m) /\ Exactly(m)' = Exactly(m) /\ Keys(m)' = Keys(m)
    BY <1>1 DEF Routes, Visited, After, RouteOf, Exactly, Keys
  <1>3. /\ prefixes' \in [DOMAIN prefixes -> Range(prefixes)]
        /\ Range(prefixes)' = Range(prefixes)
        /\ Sorted(prefixes)'
    BY <1>1 DEF SortPrefixes, Range, Sorted, RouteOf
  <1>4. prefixes' \in Seq(Routes)
    <2>1. Range(prefixes) \subseteq Routes /\ DOMAIN prefixes = 1..Len(prefixes)
          /\ Len(prefixes) \in Nat
      BY DEF Inv, TypeOK, Range
    <2>2. prefixes' \in [1..Len(prefixes) -> Routes]
      BY <1>3, <2>1
    <2> QED
      BY <2>1, <2>2
  <1>5. TypeOK'
    BY <1>1, <1>2, <1>4 DEF Inv, SortPrefixes, TypeOK
  <1>6. LoadInv' /\ LoopInv'
    BY <1>1, <1>2 DEF Inv, SortPrefixes, LoadInv, LoopInv
  <1>7. ExactInv'
    BY <1>1, <1>2 DEF Inv, ExactInv, After
  <1>8. PrefixInv'
    BY <1>2, <1>3 DEF Inv, PrefixInv
  <1> QED
    BY <1>1, <1>5, <1>6, <1>7, <1>8 DEF Inv, MatchIsBest

LEMMA ServeInv == Inv /\ Serve => Inv'
PROOF
  <1> SUFFICES ASSUME Inv, Serve  PROVE  Inv'
    OBVIOUS
  <1>1. /\ file' = file /\ config' = config /\ phase' = phase /\ phase = "serve"
        /\ next' = next /\ exact' = exact /\ prefixes' = prefixes
    BY DEF Serve
  <1>2. /\ Routes' = Routes /\ Visited' = Visited
        /\ \A m : RouteOf(m)' = RouteOf(m) /\ Exactly(m)' = Exactly(m) /\ Keys(m)' = Keys(m)
    BY <1>1 DEF Routes, Visited, After, RouteOf, Exactly, Keys
  <1>3. Best(lookup', found') /\ found' \in Routes \cup {Nil}
    BY <1>1, MatchBest DEF Inv, Serve
  <1>4. lookup' \in Lookups /\ lookup' # Nil
    BY NilAssumption DEF Serve
  <1>5. TypeOK'
    BY <1>1, <1>2, <1>3, <1>4 DEF Inv, TypeOK
  <1>6. LoadInv' /\ LoopInv'
    BY <1>1, <1>2, <1>4 DEF Inv, LoadInv, LoopInv
  <1>7. ExactInv'
    BY <1>1, <1>2 DEF Inv, ExactInv, After
  <1>8. PrefixInv'
    BY <1>1, <1>2 DEF Inv, PrefixInv, Range, Sorted
  <1>9. MatchIsBest'
    BY <1>1, <1>2, <1>3 DEF MatchIsBest, Best, Fits, Better, After
  <1> QED
    BY <1>5, <1>6, <1>7, <1>8, <1>9 DEF Inv

LEMMA StutterInv == Inv /\ UNCHANGED vars => Inv'
PROOF
  <1> SUFFICES ASSUME Inv, UNCHANGED vars  PROVE  Inv'
    OBVIOUS
  <1>1. /\ file' = file /\ config' = config /\ phase' = phase /\ next' = next
        /\ exact' = exact /\ prefixes' = prefixes /\ lookup' = lookup /\ found' = found
    BY DEF vars
  <1>2. /\ Routes' = Routes /\ Visited' = Visited
        /\ \A m : RouteOf(m)' = RouteOf(m) /\ Exactly(m)' = Exactly(m) /\ Keys(m)' = Keys(m)
    BY <1>1 DEF Routes, Visited, After, RouteOf, Exactly, Keys
  <1>3. TypeOK' /\ LoadInv' /\ LoopInv'
    BY <1>1, <1>2 DEF Inv, TypeOK, LoadInv, LoopInv
  <1>4. ExactInv'
    BY <1>1, <1>2 DEF Inv, ExactInv, After
  <1>5. PrefixInv'
    BY <1>1, <1>2 DEF Inv, PrefixInv, Range, Sorted
  <1>6. MatchIsBest'
    BY <1>1, <1>2 DEF Inv, MatchIsBest, Fits, Better, After
  <1> QED
    BY <1>3, <1>4, <1>5, <1>6 DEF Inv

-----------------------------------------------------------------------------

\* The invariant: what was loaded is valid, the tables hold what the loops
\* have visited, and every answer is the best.
THEOREM Invariance == Spec => []Inv
PROOF
  <1>1. Inv /\ [Next]_vars => Inv'
    BY RefuseInv, LoadConfigInv, AddRouteInv, SortPrefixesInv, ServeInv, StutterInv
    DEF Next, Exited
  <1> QED
    BY InitInv, <1>1, PTL DEF Spec

\* Every variable keeps its type: the tables hold routes of the configuration
\* under methods it may name (NewRouter, Match).
THEOREM TypeCorrect == Spec => []TypeOK
PROOF
  BY Invariance, PTL DEF Inv

\* For any configuration, any order the sort leaves and any request, Match
\* returns a route that fits and that no other route fits better, and gives
\* up only if no route fits.
THEOREM BestMatch == Spec => []MatchIsBest
PROOF
  BY Invariance, PTL DEF Inv

\* Every route of a configuration that was loaded has methods, a timeout
\* within bounds and a valid retry policy (Validate after MergeDefaults).
THEOREM Usable == Spec => []LoadedIsUsable
PROOF
  BY Invariance, UsableFromInv, PTL DEF Inv

\* A route that wants forward auth has a URL to ask and a timeout, but for the
\* two ways out the property names (ForwardAuth.Validate, buildForwardAuthConfig).
THEOREM AuthIsConfigured == Spec => []AuthConfigured
PROOF
  BY Invariance, AuthFromInv, PTL DEF Inv

\* Whatever the file, LoadConfig refuses none of which every given value is
\* acceptable, but for incomplete policies of services and contradicted defaults.
THEOREM Refusals == Spec => []RefusedForCause
PROOF
  BY Invariance, RefusalFromInv, PTL DEF Inv

\* For any URL, prefix and path, the three rewritings agree but where the
\* property says (applyDirector, ServeWebSocket).
THEOREM RewritingsAgree == Spec => []SameRewriting
PROOF
  <1>1. Inv => SameRewriting
    BY SameFromInv DEF Inv
  <1> QED
    BY <1>1, Invariance, PTL

\* For any URL, prefix and path, the rewritten path starts with a slash but
\* where the property says (TrimPrefix).
THEOREM SlashKept == Spec => []StartsWithSlashMostly
PROOF
  <1>1. Inv => StartsWithSlashMostly
    BY SlashFromInv DEF Inv
  <1> QED
    BY <1>1, Invariance, PTL

=============================================================================
