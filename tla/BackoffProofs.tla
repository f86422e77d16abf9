--------------------------- MODULE BackoffProofs ----------------------------
(***************************************************************************)
(* Proofs about Backoff, for every width, timeout and set of policies: the  *)
(* jitter stays within a quarter of the backoff, the schedule never         *)
(* shrinks, and rand.Int63n panics in two cases only.                       *)
(***************************************************************************)
EXTENDS Backoff, Induction

-----------------------------------------------------------------------------
(* Powers.                                                                  *)

IsPower(f, m, k) == f = [n \in 0..k |-> IF n = 0 THEN 1 ELSE m * f[n - 1]]

\* The recursive function Power is defined by exists, and has its values in Nat.
LEMMA PowerFunction ==
  ASSUME NEW m \in Nat, NEW k \in Nat
  PROVE  \E f \in [0..k -> Nat] : IsPower(f, m, k) /\ Power(m, k) = f[k]
PROOF
  <1> DEFINE step == [c \in (1..k) \X Nat |-> m * c[2]]
             power == CHOOSE f : IsPower(f, m, k)
  <1>1. \E f : IsPower(f, m, k)
    <2>1. step \in Steps(k, Nat)
      BY DEF Steps
    <2>2. PICK f \in [0..k -> Nat] : FollowsSteps(f, 1, step, k)
      <3> HIDE DEF step
      <3> QED
        BY <2>1, Recursion
    <2>3. ASSUME NEW n \in 1..k  PROVE  f[n] = m * f[n - 1]
      <3>1. n - 1 \in 0..k /\ f[n - 1] \in Nat /\ <<n, f[n - 1]>> \in (1..k) \X Nat
        OBVIOUS
      <3>2. step[<<n, f[n - 1]>>] = m * f[n - 1]
        BY <3>1
      <3> QED
        BY <2>2, <3>2 DEF FollowsSteps
    <2>4. IsPower(f, m, k)
      BY <2>2, <2>3 DEF IsPower, FollowsSteps
    <2> QED
      BY <2>4
  <1>2. IsPower(power, m, k)
    BY <1>1
  <1>3. Power(m, k) = power[k]
    BY DEF Power, IsPower
  <1> HIDE DEF power
  <1>4. \A n \in 0..k : power[n] \in Nat
    <2> DEFINE T == {n \in 0..k : power[n] \in Nat}
    <2>1. 0 \in T
      BY <1>2 DEF IsPower
    <2>2. ASSUME NEW n \in 1..k, n - 1 \in T  PROVE  n \in T
      BY <1>2, <2>2 DEF IsPower
    <2>3. 0..k \subseteq T
      <3> HIDE DEF T
      <3> QED
        BY <2>1, <2>2, BoundedInduction
    <2> QED
      BY <2>3
  <1>5. power = [n \in 0..k |-> power[n]]
    BY <1>2 DEF IsPower
  <1>6. power \in [0..k -> Nat]
    BY <1>4, <1>5
  <1> QED
    BY <1>2, <1>3, <1>6

\* What math.Pow gives for the next attempt.
LEMMA Powers ==
  ASSUME NEW m \in Nat, NEW k \in Nat
  PROVE  /\ Power(m, 0) = 1
         /\ Power(m, k) \in Nat
         /\ Power(m, k + 1) = m * Power(m, k)
PROOF
  <1>1. PICK f \in [0..k -> Nat] : IsPower(f, m, k) /\ Power(m, k) = f[k]
    BY PowerFunction
  <1>2. PICK g \in [0..(k + 1) -> Nat] :
          IsPower(g, m, k + 1) /\ Power(m, k + 1) = g[k + 1]
    <2>1. k + 1 \in Nat
      OBVIOUS
    <2> QED
      BY <2>1, PowerFunction, Zenon
  <1>3. PICK h \in [0..0 -> Nat] : IsPower(h, m, 0) /\ Power(m, 0) = h[0]
    BY PowerFunction
  <1>4. Power(m, 0) = 1
    BY <1>3 DEF IsPower
  <1>5. 0..k \subseteq {n \in 0..k : f[n] = g[n]}
    <2> DEFINE T == {n \in 0..k : f[n] = g[n]}
    <2>1. 0 \in T
      BY <1>1, <1>2 DEF IsPower
    <2>2. ASSUME NEW n \in 1..k, n - 1 \in T  PROVE  n \in T
      BY <1>1, <1>2, <2>2 DEF IsPower
    <2> HIDE DEF T
    <2>3. 0..k \subseteq T
      BY <2>1, <2>2, BoundedInduction
    <2> QED
      BY <2>3 DEF T
  <1>6. f[k] = g[k]
    BY <1>5
  <1>7. g[k + 1] = m * g[k]
    BY <1>2 DEF IsPower
  <1> QED
    BY <1>1, <1>2, <1>4, <1>6, <1>7

LEMMA PowersPositive ==
  ASSUME NEW m \in Nat \ {0}
  PROVE  \A k \in Nat : Power(m, k) \in Nat \ {0}
PROOF
  <1> DEFINE T == {k \in Nat : Power(m, k) \in Nat \ {0}}
  <1>1. 0 \in T
    BY Powers
  <1>2. ASSUME NEW k \in Nat, k \in T  PROVE  k + 1 \in T
    <2> DEFINE power == Power(m, k)
    <2>1. power \in Nat \ {0} /\ Power(m, k + 1) = m * power
      BY <1>2, Powers
    <2> HIDE DEF power
    <2>2. m * power \in Nat \ {0}
      BY <2>1
    <2> QED
      BY <2>1, <2>2
  <1> HIDE DEF T
  <1>3. Nat \subseteq T
    BY <1>1, <1>2, SetInduction
  <1> QED
    BY <1>3 DEF T

\* The range of a Duration.
LEMMA Durations ==
  /\ MaxInt \in Nat
  /\ MinInt = -(MaxInt + 1)
  /\ Power(2, Width) = 2 * (MaxInt + 1)
PROOF
  <1>1. Width - 1 \in Nat /\ 2 \in Nat \ {0} /\ (Width - 1) + 1 = Width
    BY BackoffAssumption
  <1>2. Power(2, Width - 1) \in Nat \ {0}
    BY <1>1, PowersPositive
  <1>3. Power(2, (Width - 1) + 1) = 2 * Power(2, Width - 1)
    BY <1>1, Powers
  <1> QED
    BY <1>1, <1>2, <1>3 DEF MaxInt, MinInt

-----------------------------------------------------------------------------
(* The schedules.                                                           *)

\* What Validate and the assumption say of a policy.
LEMMA PolicyFacts ==
  ASSUME NEW p \in Policies, Valid(p)
  PROVE  /\ p.maxAttempts \in Int
         /\ p.initialInterval \in Nat \ {0} /\ p.maxInterval \in Nat \ {0}
         /\ p.initialInterval <= p.maxInterval
         /\ p.maxInterval <= MaxInt /\ 5 * p.maxInterval <= 4 * MaxInt
         /\ p.multiplier[1] \in Nat /\ p.multiplier[2] \in Nat \ {0}
         /\ p.backoff = "exponential" => p.multiplier[1] > p.multiplier[2]
PROOF
  BY BackoffAssumption, Durations DEF PolicySettings, Valid

LEMMA QuotientAtLeast ==
  ASSUME NEW n \in Nat, NEW d \in Nat \ {0}, NEW q \in Nat, n >= q * d
  PROVE  n \div d >= q
PROOF
  <1>1. PICK r \in Nat : r = n \div d
    OBVIOUS
  <1>2. n < (r + 1) * d
    BY <1>1
  <1>3. ASSUME r < q  PROVE  FALSE
    <2>1. r + 1 <= q
      BY <1>3
    <2>2. (r + 1) * d <= q * d
      BY <2>1
    <2> QED
      BY <1>2, <2>2
  <1> QED
    BY <1>1, <1>3

\* A quotient does not shrink if its terms are multiplied by a fraction above one.
LEMMA QuotientGrows ==
  ASSUME NEW n \in Nat, NEW d \in Nat \ {0}, NEW a \in Nat, NEW b \in Nat \ {0}, a > b
  PROVE  (n * a) \div (d * b) >= n \div d
PROOF
  <1> DEFINE q == n \div d
  <1>1. q \in Nat /\ n >= q * d
    OBVIOUS
  <1> HIDE DEF q
  <1>2. n * a >= (q * d) * a
    BY <1>1
  <1>3. (q * d) * a >= (q * d) * b
    BY <1>1
  <1>4. (q * d) * b = q * (d * b)
    BY <1>1
  <1>5. d * b \in Nat \ {0} /\ n * a \in Nat
    OBVIOUS
  <1>6. n * a >= q * (d * b)
    BY <1>1, <1>2, <1>3, <1>4, <1>5
  <1>7. (n * a) \div (d * b) >= q
    BY <1>1, <1>5, <1>6, QuotientAtLeast
  <1> QED
    BY <1>7 DEF q

\* The exponential schedule before the conversion.
LEMMA Products ==
  ASSUME NEW p \in Policies, Valid(p)
  PROVE  /\ Product(p, 0) = p.initialInterval
         /\ \A k \in Nat : Product(p, k) \in Nat
         /\ p.backoff = "exponential" =>
              \A k \in Nat : /\ Product(p, k + 1) >= Product(p, k)
                             /\ Product(p, k) >= p.initialInterval
PROOF
  <1> DEFINE init == p.initialInterval
             up == p.multiplier[1]
             down == p.multiplier[2]
  <1>1. init \in Nat \ {0} /\ up \in Nat /\ down \in Nat \ {0}
    BY PolicyFacts
  <1>2. \A k \in Nat : Product(p, k) = (init * Power(up, k)) \div Power(down, k)
    BY DEF Product
  <1>3. p.backoff = "exponential" => up > down
    BY PolicyFacts
  <1>4. Product(p, 0) = (init * Power(up, 0)) \div Power(down, 0)
    BY <1>2
  <1> HIDE DEF init, up, down
  <1>5. Product(p, 0) = init
    BY <1>1, <1>4, Powers
  <1>6. ASSUME NEW k \in Nat
        PROVE  /\ init * Power(up, k) \in Nat /\ Power(up, k) \in Nat
               /\ Power(down, k) \in Nat \ {0}
    <2>1. Power(up, k) \in Nat /\ Power(down, k) \in Nat \ {0}
      BY <1>1, Powers, PowersPositive
    <2> QED
      BY <1>1, <2>1
  <1>7. ASSUME NEW k \in Nat  PROVE  Product(p, k) \in Nat
    <2>1. Product(p, k) = (init * Power(up, k)) \div Power(down, k)
      BY <1>2
    <2>2. \A n \in Nat, d \in Nat \ {0} : n \div d \in Nat
      OBVIOUS
    <2> QED
      BY <1>6, <2>1, <2>2
  <1>8. ASSUME up > down, NEW k \in Nat  PROVE  Product(p, k + 1) >= Product(p, k)
    <2> DEFINE n == init * Power(up, k)
               d == Power(down, k)
    <2>1. n \in Nat /\ d \in Nat \ {0}
      BY <1>6
    <2>2. Power(up, k + 1) = up * Power(up, k) /\ Power(down, k + 1) = down * d
      BY <1>1, Powers
    <2>3. init * Power(up, k + 1) = n * up /\ Power(down, k + 1) = d * down
      BY <1>1, <1>6, <2>2
    <2>4. Product(p, k + 1) = (n * up) \div (d * down) /\ Product(p, k) = n \div d
      BY <1>2, <2>3
    <2> HIDE DEF n, d
    <2> QED
      BY <1>1, <1>8, <2>1, <2>4, QuotientGrows
  <1>9. ASSUME up > down  PROVE  \A k \in Nat : Product(p, k) >= init
    <2> DEFINE T == {k \in Nat : Product(p, k) >= init}
    <2>1. 0 \in T
      BY <1>1, <1>5
    <2>2. ASSUME NEW k \in Nat, k \in T  PROVE  k + 1 \in T
      BY <1>1, <1>7, <1>8, <1>9, <2>2
    <2> HIDE DEF T
    <2>3. Nat \subseteq T
      BY <2>1, <2>2, SetInduction
    <2> QED
      BY <2>3 DEF T
  <1>10. init = p.initialInterval
    BY DEF init
  <1> QED
    BY <1>3, <1>5, <1>7, <1>8, <1>9, <1>10

\* The conversion keeps what a Duration can hold, and multiplication too.
LEMMA Conversions ==
  ASSUME NEW x \in Nat, x <= MaxInt
  PROVE  Converted(x) = {x} /\ Wrapped(x) = x
PROOF
  <1>1. /\ x - MinInt \in Nat /\ x - MinInt < 2 * (MaxInt + 1)
        /\ 2 * (MaxInt + 1) \in Nat \ {0}
    BY Durations
  <1>2. \A y \in Nat, n \in Nat \ {0} : y < n => y % n = y
    OBVIOUS
  <1>3. (x - MinInt) % Power(2, Width) = x - MinInt
    BY <1>1, <1>2, Durations
  <1> QED
    BY <1>3, Durations DEF Converted, Wrapped

(***************************************************************************)
(* calculateBackoff's last two lines, for every backoff that does not make  *)
(* rand.Int63n panic.                                                       *)
(***************************************************************************)
LEMMA JitterBounds ==
  ASSUME NEW b \in Nat, b >= 2, NEW w \in Jittered(b)
  PROVE  w \in Nat /\ w > 0 /\ 3 * b <= 4 * w /\ 4 * w <= 5 * b
  <1>1. PICK q \in Nat, r \in 0..3 : b = 4 * q + r /\ b \div 4 = q
    <2>1. b \div 4 \in Nat /\ b % 4 \in 0..3 /\ b = 4 * (b \div 4) + (b % 4)
      OBVIOUS
    <2> QED
      BY <2>1
  <1>2. b \div 2 = 2 * q + (IF r >= 2 THEN 1 ELSE 0)
    BY <1>1
  <1>3. PICK j \in 0..(b \div 2 - 1) : w = b - q + j
    BY <1>1 DEF Jittered
  <1>4. j \in Nat /\ j <= 2 * q + (IF r >= 2 THEN 1 ELSE 0) - 1
    BY <1>2, <1>3
  <1> QED
    BY <1>1, <1>3, <1>4

\* A quarter more than an interval of the policy is still a Duration.
LEMMA QuarterFits ==
  ASSUME NEW w \in Int, NEW b \in Int, NEW m \in Int,
         4 * w <= 5 * b, b <= m, 5 * m <= 4 * MaxInt
  PROVE  w <= MaxInt
  BY Durations

(***************************************************************************)
(* The backoff before jitter is a Duration no longer than max_interval,     *)
(* whatever the schedule and even if it overflowed.                         *)
(***************************************************************************)
LEMMA CappedBounds ==
  ASSUME NEW p \in Policies, Valid(p), NEW k \in Nat, NEW b \in Uncapped(p, k)
  PROVE  b \in Int /\ Capped(p, b) \in MinInt..MaxInt /\ Capped(p, b) <= p.maxInterval
PROOF
  <1>1. /\ p.initialInterval \in Nat /\ p.maxInterval \in Nat
        /\ p.initialInterval <= p.maxInterval /\ p.maxInterval <= MaxInt
    BY PolicyFacts
  <1>2. b \in Int /\ MinInt <= b
    <2>1. CASE p.backoff = "exponential"
      <3>1. Product(p, k) \in Nat /\ b \in Converted(Product(p, k))
        BY <2>1, Products DEF Uncapped
      <3> QED
        BY <3>1, Durations DEF Converted
    <2>2. CASE p.backoff = "linear"
      <3>1. b = Wrapped(p.initialInterval * (k + 1))
        BY <2>2 DEF Uncapped, Linear
      <3>2. p.initialInterval * (k + 1) - MinInt \in Int /\ Power(2, Width) \in Nat \ {0}
        BY <1>1, Durations
      <3>3. (p.initialInterval * (k + 1) - MinInt) % Power(2, Width) \in Nat
        BY <3>2
      <3> QED
        BY <3>1, <3>3, Durations DEF Wrapped
    <2>3. CASE p.backoff \notin {"exponential", "linear"}
      BY <1>1, <2>3, Durations DEF Uncapped
    <2> QED
      BY <2>1, <2>2, <2>3
  <1> QED
    BY <1>1, <1>2, Durations DEF Capped

\* No schedule has overflowed in the attempt k.
InRange(p, k) ==
  /\ p.backoff = "exponential" => Product(p, k) <= MaxInt
  /\ p.backoff = "linear" => p.initialInterval * (k + 1) <= MaxInt

\* What the schedule says then.
Scheduled(p, k) ==
  CASE p.backoff = "exponential" -> Product(p, k)
    [] p.backoff = "linear"      -> p.initialInterval * (k + 1)
    [] OTHER                     -> p.initialInterval

\* It says no less than the initial interval, and more from attempt to attempt.
LEMMA Schedules ==
  ASSUME NEW p \in Policies, Valid(p), NEW k \in Nat
  PROVE  /\ Scheduled(p, k) \in Nat
         /\ Scheduled(p, k) >= p.initialInterval
         /\ Scheduled(p, k + 1) \in Nat
         /\ Scheduled(p, k + 1) >= Scheduled(p, k)
         /\ InRange(p, k + 1) => InRange(p, k)
         /\ InRange(p, k) => Uncapped(p, k) = {Scheduled(p, k)}
PROOF
  <1>1. p.initialInterval \in Nat /\ p.initialInterval <= MaxInt /\ MaxInt \in Nat
    BY PolicyFacts, Durations
  <1>2. CASE p.backoff = "exponential"
    <2>1. /\ \A j \in Nat : Scheduled(p, j) = Product(p, j)
          /\ \A j \in Nat : InRange(p, j) <=> Product(p, j) <= MaxInt
          /\ \A j \in Nat : Uncapped(p, j) = Converted(Product(p, j))
      BY <1>2 DEF Scheduled, InRange, Uncapped
    <2>2. /\ k + 1 \in Nat /\ Product(p, k) \in Nat /\ Product(p, k + 1) \in Nat
          /\ Product(p, k) >= p.initialInterval /\ Product(p, k + 1) >= Product(p, k)
      BY <1>2, Products
    <2>3. Product(p, k) <= MaxInt => Converted(Product(p, k)) = {Product(p, k)}
      BY <2>2, Conversions
    <2> QED
      BY <1>1, <2>1, <2>2, <2>3
  <1>3. CASE p.backoff = "linear"
    <2>1. /\ \A j \in Nat : Scheduled(p, j) = p.initialInterval * (j + 1)
          /\ \A j \in Nat : InRange(p, j) <=> p.initialInterval * (j + 1) <= MaxInt
          /\ \A j \in Nat : Uncapped(p, j) = {Wrapped(p.initialInterval * (j + 1))}
      BY <1>3 DEF Scheduled, InRange, Uncapped, Linear
    <2> DEFINE now == p.initialInterval * (k + 1)
               then == p.initialInterval * ((k + 1) + 1)
    <2>2. /\ k + 1 \in Nat /\ now \in Nat /\ then \in Nat
          /\ now >= p.initialInterval /\ then >= now
      BY <1>1
    <2>3. now <= MaxInt => Wrapped(now) = now
      BY <2>2, Conversions
    <2>4. /\ Scheduled(p, k) = now /\ Scheduled(p, k + 1) = then
          /\ InRange(p, k) <=> now <= MaxInt
          /\ InRange(p, k + 1) <=> then <= MaxInt
          /\ Uncapped(p, k) = {Wrapped(now)}
      BY <2>1, <2>2
    <2> HIDE DEF now, then
    <2> QED
      BY <1>1, <2>2, <2>3, <2>4
  <1>4. CASE p.backoff \notin {"exponential", "linear"}
    BY <1>1, <1>4 DEF Scheduled, InRange, Uncapped
  <1> QED
    BY <1>2, <1>3, <1>4

-----------------------------------------------------------------------------
(* The inductive invariant.                                                 *)

\* z is a backoff before jitter that calculateBackoff computes after attempt k.
Computed(p, k, z) == \E b \in Uncapped(p, k) : z = Capped(p, b)

BaseInv ==
  /\ base <= policy.maxInterval
  /\ phase = "failed" /\ attempt = 0 => base = 0
  /\ phase = "failed" /\ attempt > 0 => Computed(policy, attempt - 1, base) /\ base >= 2
  /\ phase = "wait" => Computed(policy, attempt, base) /\ base >= 2 /\ wait > 0
  /\ phase = "panic" => Computed(policy, attempt, base) /\ base < 2

\* So much has passed that a linear schedule cannot have come to an overflow.
TimeInv ==
  /\ elapsed <= Timeout
  /\ policy.backoff = "linear" /\ phase # "over"
       => 4 * elapsed >= 3 * (policy.initialInterval * attempt)

Inv == TypeOK /\ Valid(policy) /\ JitterWithinQuarter /\ BaseInv /\ TimeInv

\* No linear schedule overflows, nor an exponential one that has not outgrown
\* a Duration.
LEMMA StaysInRange ==
  ASSUME Inv, phase # "over",
         policy.backoff = "exponential" => Product(policy, attempt) <= MaxInt
  PROVE  InRange(policy, attempt)
PROOF
  <1> DEFINE init == policy.initialInterval
             grown == policy.initialInterval * attempt
  <1>1. /\ policy \in Policies /\ Valid(policy)
        /\ attempt \in Nat /\ elapsed \in Nat /\ elapsed <= Timeout
    BY DEF Inv, TypeOK, TimeInv
  <1>2. init \in Nat /\ 5 * init <= 4 * MaxInt /\ MaxInt \in Nat
    BY <1>1, PolicyFacts, Durations
  <1>3. grown \in Nat /\ init * (attempt + 1) = grown + init
    BY <1>1, <1>2
  <1>4. policy.backoff = "linear" => 4 * elapsed >= 3 * grown
    BY DEF Inv, TimeInv
  <1>5. Timeout \in Nat /\ 20 * Timeout <= 3 * MaxInt
    BY BackoffAssumption
  <1> HIDE DEF grown, init
  <1>6. policy.backoff = "linear" => init * (attempt + 1) <= MaxInt
    BY <1>1, <1>2, <1>3, <1>4, <1>5
  <1> QED
    BY <1>6 DEF InRange, init

\* A wait is then at least the initial interval long, but for the jitter.
LEMMA AtLeastInitial ==
  ASSUME NEW p \in Policies, Valid(p), NEW k \in Nat, InRange(p, k),
         NEW b \in Uncapped(p, k)
  PROVE  b = Scheduled(p, k) /\ Capped(p, b) >= p.initialInterval
PROOF
  <1>1. b = Scheduled(p, k)
    BY Schedules
  <1> QED
    BY <1>1, Schedules, PolicyFacts DEF Capped

LEMMA InitInv == Init => Inv
PROOF
  <1> SUFFICES ASSUME Init  PROVE  Inv
    OBVIOUS
  <1>1. policy \in Policies /\ Valid(policy)
    BY DEF Init
  <1>2. /\ MaxInt \in Nat /\ MinInt \in Int /\ MinInt <= 0
        /\ policy.maxInterval \in Nat /\ policy.initialInterval \in Nat /\ Timeout \in Nat
    BY <1>1, Durations, PolicyFacts, BackoffAssumption
  <1> QED
    BY <1>1, <1>2 DEF Init, Inv, TypeOK, JitterWithinQuarter, BaseInv, TimeInv

LEMMA CalculateInv == Inv /\ calculateBackoff => Inv'
PROOF
  <1> SUFFICES ASSUME Inv, calculateBackoff  PROVE  Inv'
    OBVIOUS
  <1>1. /\ policy' = policy /\ attempt' = attempt /\ elapsed' = elapsed
        /\ phase = "failed" /\ phase' \in {"panic", "wait"}
    BY DEF calculateBackoff
  <1>2. policy \in Policies /\ Valid(policy) /\ attempt \in Nat
    BY DEF Inv, TypeOK
  <1>3. PICK b \in Uncapped(policy, attempt) : base' = Capped(policy, b)
    BY DEF calculateBackoff
  <1>4. base' \in MinInt..MaxInt /\ base' <= policy.maxInterval
    BY <1>2, <1>3, CappedBounds
  <1>5. Computed(policy', attempt', base')
    BY <1>1, <1>3 DEF Computed
  <1>6. policy.maxInterval \in Nat /\ 5 * policy.maxInterval <= 4 * MaxInt
    BY <1>2, PolicyFacts
  <1>7. MaxInt \in Nat /\ MinInt \in Int
    BY Durations
  <1>8. CASE base' < 2 /\ phase' = "panic" /\ wait' = 0
    <2>1. TypeOK'
      BY <1>1, <1>4, <1>7, <1>8 DEF Inv, TypeOK
    <2>2. JitterWithinQuarter' /\ BaseInv' /\ TimeInv'
      BY <1>1, <1>4, <1>5, <1>8 DEF Inv, JitterWithinQuarter, BaseInv, TimeInv
    <2> QED
      BY <1>1, <1>2, <2>1, <2>2 DEF Inv
  <1>9. CASE base' >= 2 /\ phase' = "wait" /\ wait' \in Jittered(base')
    <2> DEFINE w == wait'
               z == base'
               longest == policy.maxInterval
    <2>1. z \in Nat /\ z >= 2 /\ z <= longest /\ longest \in Int
      BY <1>4, <1>6, <1>7, <1>9
    <2>2. w \in Nat /\ w > 0 /\ 3 * z <= 4 * w /\ 4 * w <= 5 * z
      BY <1>9, <2>1, JitterBounds
    <2> HIDE DEF w, z, longest
    <2>3. w <= MaxInt
      BY <1>6, <2>1, <2>2, QuarterFits DEF longest
    <2> USE DEF w, z, longest
    <2>4. TypeOK'
      BY <1>1, <1>4, <1>7, <1>9, <2>2, <2>3 DEF Inv, TypeOK
    <2>5. JitterWithinQuarter' /\ BaseInv' /\ TimeInv'
      BY <1>1, <1>4, <1>5, <1>9, <2>2 DEF Inv, JitterWithinQuarter, BaseInv, TimeInv
    <2> QED
      BY <1>1, <1>2, <2>4, <2>5 DEF Inv
  <1> QED
    BY <1>8, <1>9 DEF calculateBackoff

LEMMA RetryInv == Inv /\ Retry => Inv'
PROOF
  <1> SUFFICES ASSUME Inv, Retry  PROVE  Inv'
    OBVIOUS
  <1>1. /\ policy' = policy /\ base' = base /\ wait' = wait
        /\ phase = "wait" /\ phase' = "failed"
        /\ elapsed' = elapsed + wait /\ elapsed' <= Timeout /\ attempt' = attempt + 1
    BY DEF Retry
  <1>2. /\ policy \in Policies /\ Valid(policy)
        /\ attempt \in Nat /\ elapsed \in Nat /\ wait \in Nat /\ base \in Int
    BY Durations DEF Inv, TypeOK
  <1>3. Computed(policy, attempt, base) /\ base >= 2 /\ wait > 0 /\ 3 * base <= 4 * wait
    BY <1>1 DEF Inv, BaseInv, JitterWithinQuarter
  <1>4. attempt' - 1 = attempt /\ Computed(policy', attempt' - 1, base')
    <2>1. attempt' - 1 = attempt
      BY <1>1, <1>2
    <2> QED
      BY <1>1, <1>3, <2>1
  <1>5. TypeOK'
    BY <1>1, <1>2 DEF Inv, TypeOK
  <1>6. BaseInv' /\ JitterWithinQuarter'
    BY <1>1, <1>2, <1>3, <1>4 DEF Inv, BaseInv, JitterWithinQuarter
  <1>7. ASSUME policy.backoff = "linear"
        PROVE  4 * (elapsed + wait) >= 3 * (policy.initialInterval * (attempt + 1))
    <2> DEFINE init == policy.initialInterval
               grown == policy.initialInterval * attempt
    <2>1. init \in Nat
      BY <1>2, PolicyFacts
    <2>2. InRange(policy, attempt)
      BY <1>1, <1>7, StaysInRange
    <2>3. base >= init
      BY <1>2, <1>3, <2>2, AtLeastInitial DEF Computed
    <2>4. 4 * elapsed >= 3 * grown
      BY <1>1, <1>7 DEF Inv, TimeInv
    <2>5. grown \in Nat /\ init * (attempt + 1) = grown + init
      BY <1>2, <2>1
    <2> HIDE DEF init, grown
    <2>6. 4 * (elapsed + wait) >= 3 * (init * (attempt + 1))
      BY <1>2, <1>3, <2>1, <2>3, <2>4, <2>5
    <2> QED
      BY <2>6 DEF init
  <1>8. TimeInv'
    BY <1>1, <1>7 DEF TimeInv
  <1> QED
    BY <1>1, <1>2, <1>5, <1>6, <1>8 DEF Inv

LEMMA StopInv == Inv /\ Stop => Inv'
PROOF
  BY DEF Inv, Stop, TypeOK, JitterWithinQuarter, BaseInv, TimeInv

LEMMA StutterInv == Inv /\ UNCHANGED vars => Inv'
PROOF
  <1> SUFFICES ASSUME Inv, UNCHANGED vars  PROVE  Inv'
    OBVIOUS
  <1>1. /\ policy' = policy /\ attempt' = attempt /\ phase' = phase
        /\ base' = base /\ wait' = wait /\ elapsed' = elapsed
    BY DEF vars
  <1> QED
    BY <1>1 DEF Inv, TypeOK, JitterWithinQuarter, BaseInv, TimeInv

\* The invariant: where the backoff before jitter comes from, and how much
\* time has passed.
THEOREM Invariance == Spec => []Inv
PROOF
  <1>1. Inv /\ [Next]_vars => Inv'
    BY CalculateInv, RetryInv, StopInv, StutterInv DEF Next, Done
  <1> QED
    BY InitInv, <1>1, PTL DEF Spec

(***************************************************************************)
(* Every quantity stays a time.Duration.                                    *)
(***************************************************************************)
THEOREM TypeCorrect == Spec => []TypeOK
PROOF
  BY Invariance, PTL DEF Inv

(***************************************************************************)
(* Every wait is within a quarter of its backoff, for every valid policy    *)
(* (calculateBackoff).                                                      *)
(***************************************************************************)
THEOREM JitterCorrect == Spec => []JitterWithinQuarter
PROOF
  BY Invariance, PTL DEF Inv

(***************************************************************************)
(* rand.Int63n panics for an initial_interval of one tick, or when an       *)
(* exponential schedule has outgrown a Duration, and never else: time runs  *)
(* out before a linear one can (calculateBackoff).                          *)
(***************************************************************************)
THEOREM PanicsKnown == Spec => []PanicsOnlyTinyOrOutgrown
PROOF
  <1>1. Inv => PanicsOnlyTinyOrOutgrown
    <2> SUFFICES ASSUME Inv, phase = "panic",
                        ~(policy.backoff = "exponential" /\ Product(policy, attempt) > MaxInt)
                 PROVE  policy.initialInterval = 1
      BY DEF PanicsOnlyTinyOrOutgrown
    <2>1. policy \in Policies /\ Valid(policy) /\ attempt \in Nat /\ base \in Int
      BY Durations DEF Inv, TypeOK
    <2>2. policy.backoff = "exponential" => Product(policy, attempt) <= MaxInt
      BY <2>1, Products, Durations
    <2>3. InRange(policy, attempt)
      BY <2>2, StaysInRange
    <2>4. Computed(policy, attempt, base) /\ base < 2
      BY DEF Inv, BaseInv
    <2>5. base >= policy.initialInterval
      BY <2>1, <2>3, <2>4, AtLeastInitial DEF Computed
    <2> QED
      BY <2>1, <2>4, <2>5, PolicyFacts
  <1> QED
    BY <1>1, Invariance, PTL

(***************************************************************************)
(* No wait of a request is shorter, before jitter, than the one before it:  *)
(* an overflow ends in a panic or at the cap (calculateBackoff).            *)
(***************************************************************************)
THEOREM NeverShrinks == Spec => ScheduleNeverShrinks
PROOF
  <1>1. Inv /\ [Next]_vars => [phase' = "wait" => base' >= base]_vars
    <2> SUFFICES ASSUME Inv, Next, phase' = "wait"  PROVE  base' >= base
      OBVIOUS
    <2>1. /\ policy \in Policies /\ Valid(policy) /\ attempt \in Nat /\ base \in Int
          /\ base <= policy.maxInterval
      BY Durations DEF Inv, TypeOK, BaseInv
    <2>2. CASE calculateBackoff
      <3>1. phase = "failed" /\ base' >= 2
        BY <2>2 DEF calculateBackoff
      <3>2. PICK next \in Uncapped(policy, attempt) : base' = Capped(policy, next)
        BY <2>2 DEF calculateBackoff
      <3>3. CASE attempt = 0
        BY <2>1, <3>1, <3>2, <3>3, CappedBounds, Durations DEF Inv, BaseInv
      <3>4. CASE attempt > 0
        <4> DEFINE before == attempt - 1
        <4>1. before \in Nat /\ before + 1 = attempt
          BY <2>1, <3>4
        <4>2. PICK last \in Uncapped(policy, before) : base = Capped(policy, last)
          BY <3>1, <3>4 DEF Inv, BaseInv, Computed
        <4> HIDE DEF before
        <4>3. next \in Int /\ last \in Int /\ policy.maxInterval \in Nat
          BY <2>1, <3>2, <4>1, <4>2, CappedBounds, PolicyFacts
        <4>4. CASE InRange(policy, attempt)
          <5>1. InRange(policy, before)
            BY <2>1, <4>1, <4>4, Schedules
          <5>2. next = Scheduled(policy, before + 1) /\ last = Scheduled(policy, before)
            BY <2>1, <4>1, <4>4, <5>1, AtLeastInitial
          <5>3. next >= last
            BY <2>1, <4>1, <5>2, Schedules
          <5> QED
            BY <3>2, <4>2, <4>3, <5>3 DEF Capped
        <4>5. CASE ~InRange(policy, attempt)
          <5>1. policy.backoff = "exponential" /\ ~(Product(policy, attempt) <= MaxInt)
            BY <3>1, <4>5, StaysInRange
          <5>2. next \in {MinInt, MaxInt}
            BY <5>1 DEF Uncapped, Converted
          <5>3. next # MinInt
            <6>1. MinInt < 0 /\ MinInt \in Int
              BY Durations
            <6> QED
              BY <3>1, <3>2, <4>3, <6>1 DEF Capped
          <5>4. next = MaxInt /\ policy.maxInterval <= MaxInt
            BY <2>1, <5>2, <5>3, PolicyFacts
          <5>5. base' = policy.maxInterval
            BY <3>2, <4>3, <5>4 DEF Capped
          <5> QED
            BY <2>1, <5>5
        <4> QED
          BY <4>4, <4>5
      <3> QED
        BY <2>1, <3>3, <3>4
    <2>3. CASE ~calculateBackoff
      BY <2>1, <2>3 DEF Next, Retry, Stop, Done, vars
    <2> QED
      BY <2>2, <2>3
  <1> QED
    BY <1>1, Invariance, PTL DEF Spec, ScheduleNeverShrinks

=============================================================================
