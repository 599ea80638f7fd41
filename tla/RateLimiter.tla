---------------------------- MODULE RateLimiter ----------------------------
(***************************************************************************)
(* TokenBucketRateLimiter.is_allowed, asked by check_rate_limit before     *)
(* every request.  The dependency is a coroutine without an await, so its  *)
(* calls do not interleave, and clients have a bucket each: one client     *)
(* stands for all.                                                         *)
(*                                                                         *)
(* A bucket holds at most Limit tokens and refills at Limit / Period per   *)
(* tick; a request costs one.  Tokens are counted in units of 1 / Period,  *)
(* so that the arithmetic is exact: a request costs Period units, a tick   *)
(* brings Limit units.  The rounding of the floats is left out.            *)
(***************************************************************************)
EXTENDS Integers

CONSTANTS
    Limit,      \* RATE_LIMIT_CALLS
    Period,     \* RATE_LIMIT_PERIOD, in ticks
    MaxTime     \* bound on the clocks below

VARIABLES
    tokens,     \* tokens when the bucket was last written
    idle,       \* ticks since then (now - last_update)
    since,      \* ticks since an observer began to count
    passed,     \* requests let through since then
    waited      \* ticks since a request was last let through

rateVars == <<tokens, idle, since, passed, waited>>

ASSUME RateAssumption ==
    /\ Limit \in Nat \ {0}
    /\ Period \in Nat \ {0}
    /\ MaxTime \in Nat

Capacity == Limit * Period
Smaller(a, b) == IF a < b THEN a ELSE b

(* Mutant: the bucket overflows. *)
WorthUncapped == tokens + idle * Limit

(* new_tokens *)
Worth == Smaller(Capacity, tokens + idle * Limit)

RateInit ==
    /\ tokens = Capacity
    /\ idle = 0
    /\ since = 0
    /\ passed = 0
    /\ waited = 0

Tick ==
    /\ since < MaxTime /\ waited < MaxTime
    /\ idle' = idle + 1
    /\ since' = since + 1
    /\ waited' = waited + 1
    /\ UNCHANGED <<tokens, passed>>

(* An observer begins to count: any moment may start the window.           *)
Observe ==
    /\ since' = 0
    /\ passed' = 0
    /\ UNCHANGED <<tokens, idle, waited>>

Allow ==
    /\ Worth >= Period
    /\ tokens' = Worth - Period
    /\ idle' = 0
    /\ passed' = passed + 1
    /\ waited' = 0
    /\ UNCHANGED since

(* Mutant: a refused request costs what was refilled. *)
RefuseDrain ==
    /\ Worth < Period
    /\ tokens' = 0
    /\ idle' = 0
    /\ UNCHANGED <<since, passed, waited>>

Refuse ==
    /\ Worth < Period
    /\ tokens' = Worth
    /\ idle' = 0
    /\ UNCHANGED <<since, passed, waited>>

Next == Tick \/ Observe \/ Allow \/ Refuse
Spec == RateInit /\ [][Next]_rateVars

-----------------------------------------------------------------------------
TypeOK ==
    /\ tokens \in 0 .. Capacity
    /\ idle \in 0 .. MaxTime
    /\ since \in 0 .. MaxTime
    /\ passed \in Nat
    /\ waited \in 0 .. MaxTime /\ idle <= waited

(* However the requests are spread, any stretch of time lets at most a     *)
(* full bucket and what it refills pass (l. 96-106).                       *)
WindowBound == passed * Period <= Capacity + since * Limit

(* A refused request costs nothing: however often a client tries again, it *)
(* is not refused any more once its bucket had the time to refill for one  *)
(* request (l. 99-106).                                                    *)
WaitIsShort == Worth < Period => waited * Limit < Period
=============================================================================
