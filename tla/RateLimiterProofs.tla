------------------------- MODULE RateLimiterProofs -------------------------
(***************************************************************************)
(* The two bounds of the rate limiter, for every limit and every period.   *)
(***************************************************************************)
EXTENDS RateLimiter, TLAPS

(* Capacity is a natural number, and at least one request.                 *)
LEMMA CapacityType == Capacity \in Nat /\ Period <= Capacity
  BY RateAssumption DEF Capacity

(* The products that count units are natural numbers, and grow by one      *)
(* refill with each tick.                                                  *)
LEMMA Refill ==
    ASSUME NEW n \in Nat
    PROVE  /\ n * Limit \in Nat
           /\ (n + 1) * Limit = n * Limit + Limit
           /\ n * Period \in Nat
           /\ (n + 1) * Period = n * Period + Period
  BY RateAssumption

(* The types, over unbounded clocks.                                       *)
RateTypeInv ==
    /\ tokens \in Nat /\ tokens <= Capacity
    /\ idle \in Nat
    /\ since \in Nat
    /\ passed \in Nat
    /\ waited \in Nat

(* WindowBound counts what has passed, this also what could pass now; and  *)
(* the bucket holds what has come in since a request last passed.          *)
SpendInv ==
    /\ passed * Period + Worth <= Capacity + since * Limit
    /\ Smaller(Capacity, waited * Limit) <= tokens + idle * Limit

RateInv == RateTypeInv /\ SpendInv

(* A new bucket is full and nothing has passed.                            *)
LEMMA RateInvInit == RateInit => RateInv
  <1> SUFFICES ASSUME RateInit PROVE RateInv
    OBVIOUS
  <1>1. 0 * Limit = 0 /\ 0 * Period = 0
    BY RateAssumption
  <1> QED
    BY <1>1, CapacityType
    DEF RateInit, RateInv, RateTypeInv, SpendInv, Worth, Smaller

(* Whatever the bucket held, what it is worth lies within its capacity.    *)
LEMMA WorthType == RateTypeInv => Worth \in Nat /\ Worth <= Capacity
  BY CapacityType, Refill DEF RateTypeInv, Worth, Smaller

(* A tick brings at most one refill, an observer starts from a bucket that *)
(* is at most full, and a request that passes pays for itself.             *)
LEMMA RateInvStep == RateInv /\ [Next]_rateVars => RateInv'
  <1> SUFFICES ASSUME RateInv, [Next]_rateVars PROVE RateInv'
    OBVIOUS
  <1> USE CapacityType, WorthType, RateAssumption DEF RateInv
  <1>1. CASE Tick
    <2>1. RateTypeInv'
      BY <1>1 DEF Tick, RateTypeInv
    <2>2. /\ (idle + 1) * Limit = idle * Limit + Limit
          /\ (since + 1) * Limit = since * Limit + Limit
          /\ (waited + 1) * Limit = waited * Limit + Limit
          /\ idle * Limit \in Nat /\ since * Limit \in Nat
          /\ waited * Limit \in Nat /\ passed * Period \in Nat
      BY Refill DEF RateTypeInv
    <2>3. Worth' <= Worth + Limit
      BY <1>1, <2>2 DEF Tick, Worth, Smaller, RateTypeInv, Capacity
    <2>4. Worth' \in Nat
      BY <2>1, WorthType, <1>1, <2>2
      DEF Tick, Worth, Smaller, RateTypeInv, Capacity
    <2>5. passed' * Period + Worth' <= Capacity' + since' * Limit
      BY <1>1, <2>2, <2>3, <2>4 DEF Tick, SpendInv
    <2>6. Smaller(Capacity', waited' * Limit) <= tokens' + idle' * Limit
      BY <1>1, <2>2 DEF Tick, SpendInv, Smaller, RateTypeInv
    <2> QED  BY <2>1, <2>5, <2>6 DEF SpendInv
  <1>2. CASE Observe
    <2>1. RateTypeInv' /\ Worth' = Worth
      BY <1>2 DEF Observe, RateTypeInv, Worth
    <2>2. 0 * Period = 0 /\ 0 * Limit = 0
      OBVIOUS
    <2> QED  BY <1>2, <2>1, <2>2 DEF Observe, SpendInv
  <1>3. CASE Allow
    <2>1. RateTypeInv'
      BY <1>3 DEF Allow, RateTypeInv
    <2>2. 0 * Limit = 0 /\ (passed + 1) * Period = passed * Period + Period
          /\ passed * Period \in Nat /\ since * Limit \in Nat
      BY Refill DEF RateTypeInv
    <2>3. Worth' = Worth - Period
      BY <1>3, <2>2 DEF Allow, Worth, Smaller, RateTypeInv, Capacity
    <2>4. passed' * Period + Worth' <= Capacity' + since' * Limit
      BY <1>3, <2>2, <2>3 DEF Allow, SpendInv
    <2>5. Smaller(Capacity', waited' * Limit) <= tokens' + idle' * Limit
      BY <1>3, <2>1, <2>2 DEF Allow, Smaller, RateTypeInv
    <2> QED  BY <2>1, <2>4, <2>5 DEF SpendInv
  <1>4. CASE Refuse
    <2>1. RateTypeInv'
      BY <1>4 DEF Refuse, RateTypeInv
    <2>2. 0 * Limit = 0 /\ idle * Limit \in Nat /\ waited * Limit \in Nat
      BY Refill DEF RateTypeInv
    <2>3. Worth' = Worth
      BY <1>4, <2>2 DEF Refuse, Worth, Smaller, RateTypeInv
    <2>4. Smaller(Capacity', waited' * Limit) <= tokens' + idle' * Limit
      BY <1>4, <2>2 DEF Refuse, SpendInv, Smaller, Worth, RateTypeInv
    <2> QED  BY <1>4, <2>1, <2>3, <2>4 DEF Refuse, SpendInv
  <1>5. CASE UNCHANGED rateVars
    BY <1>5 DEF rateVars, RateTypeInv, SpendInv, Worth
  <1> QED  BY <1>1, <1>2, <1>3, <1>4, <1>5 DEF Next

(* Over any stretch of time a client gets at most a full bucket and what   *)
(* it refills through.                                                     *)
THEOREM RateBounded == Spec => []WindowBound
  <1>1. RateInv => WindowBound
    <2> SUFFICES ASSUME RateInv PROVE WindowBound
      OBVIOUS
    <2>1. passed * Period \in Nat /\ since * Limit \in Nat /\ Worth \in Nat
      BY Refill, WorthType DEF RateInv, RateTypeInv
    <2> QED  BY <2>1, CapacityType DEF RateInv, SpendInv, WindowBound
  <1> QED  BY <1>1, RateInvInit, RateInvStep, PTL DEF Spec

(* A client that keeps trying is not refused for longer than the bucket    *)
(* takes to refill for one request.                                        *)
THEOREM WaitBounded == Spec => []WaitIsShort
  <1>1. RateInv => WaitIsShort
    <2> SUFFICES ASSUME RateInv, Worth < Period PROVE waited * Limit < Period
      BY DEF WaitIsShort
    <2>1. waited * Limit \in Nat /\ idle * Limit \in Nat
      BY Refill DEF RateInv, RateTypeInv
    <2> QED
      BY <2>1, CapacityType, RateAssumption
      DEF RateInv, RateTypeInv, SpendInv, Smaller, Worth
  <1> QED  BY <1>1, RateInvInit, RateInvStep, PTL DEF Spec

(* The bucket was last written when a request passed, or later.            *)
Clocks ==
    /\ waited \in 0 .. MaxTime /\ since \in 0 .. MaxTime
    /\ idle \in Nat /\ idle <= waited

(* The bucket never holds more than its capacity, nor less than nothing    *)
(* (AUTH 96-106).                                                          *)
THEOREM RateTypeCorrect == Spec => []TypeOK
  <1>1. RateInit => Clocks
    BY RateAssumption DEF RateInit, Clocks
  <1>2. Clocks /\ [Next]_rateVars => Clocks'
    BY RateAssumption DEF Next, Tick, Observe, Allow, Refuse, rateVars, Clocks
  <1>3. RateInv /\ Clocks => TypeOK
    BY CapacityType, RateAssumption DEF RateInv, RateTypeInv, TypeOK, Clocks
  <1> QED
    BY <1>1, <1>2, <1>3, RateInvInit, RateInvStep, PTL DEF Spec
=============================================================================
