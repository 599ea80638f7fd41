---------------------------- MODULE TeleopProofs ----------------------------
(***************************************************************************)
(* Theorems about teleoperation through the gateway, for every number of   *)
(* threads and robots, every limit and every period.                       *)
(***************************************************************************)
EXTENDS Teleop, FiniteSetTheorems, TLAPS

(* The handlers leave the rate limiter alone but for its own steps.        *)
LEMMA LimitedStep == [TeleopNext]_<<rateVars, teleopVars>> => [Next]_rateVars
  <1> SUFFICES ASSUME [TeleopNext]_<<rateVars, teleopVars>> PROVE [Next]_rateVars
    OBVIOUS
  <1>1. CASE \E t \in Thread, r \in Asked : Command(t, r)
    BY <1>1 DEF Command, Admitted, Next
  <1>2. CASE \E t \in Thread : \/ Check(t) \/ Look(t) \/ Start(t) \/ Engage(t)
                               \/ Mark(t) \/ Decide(t)
    BY <1>2 DEF Check, Look, Start, Engage, Mark, Decide
  <1>3. CASE EStop \/ ClearEStop \/ Elsewhere
    BY <1>3 DEF EStop, ClearEStop, Elsewhere, Admitted, Next
  <1>4. CASE UNCHANGED <<rateVars, teleopVars>>
    BY <1>4
  <1> QED  BY <1>1, <1>2, <1>3, <1>4 DEF TeleopNext

(* The gateway's requests obey the limiter: what RateLimiterProofs shows   *)
(* of the bucket holds with the threads behind it (AUTH 92-106, GW 373-397). *)
THEOREM TeleopIsLimited == TeleopSpec => Spec
  BY LimitedStep, PTL DEF TeleopSpec, TeleopInit, Spec

(* The types; and who is past the start of a session asked for a robot     *)
(* that is registered.                                                     *)
TeleopTypeInv ==
    /\ TeleopTypeOK
    /\ \A t \in Thread : pc[t] \in {"engage", "mark"} => wants[t] \in Known

(* Initially.                                                              *)
LEMMA TeleopTypeInit == TeleopInit => TeleopTypeInv
  <1> SUFFICES ASSUME TeleopInit PROVE TeleopTypeInv
    OBVIOUS
  <1>1. Stranger \in Asked
    BY DEF Asked
  <1>2. pc = [t \in Thread |-> "idle"] /\ wants = [t \in Thread |-> Stranger]
    BY DEF TeleopInit
  <1>3. \A t \in Thread : pc[t] = "idle"
    BY <1>2
  <1> QED
    BY <1>1, <1>2, <1>3 DEF TeleopInit, TeleopTypeInv, TeleopTypeOK

(* Every step of a handler keeps the types.                                *)
LEMMA TeleopTypeStep ==
    TeleopTypeInv /\ [TeleopNext]_<<rateVars, teleopVars>> => TeleopTypeInv'
  <1> SUFFICES ASSUME TeleopTypeInv, [TeleopNext]_<<rateVars, teleopVars>>
               PROVE  TeleopTypeInv'
    OBVIOUS
  <1> USE TeleopAssumption DEF TeleopTypeInv, TeleopTypeOK, Goes
  <1>1. ASSUME NEW t \in Thread, NEW r \in Asked, Command(t, r)
        PROVE  TeleopTypeInv'
    BY <1>1 DEF Command
  <1>2. ASSUME NEW t \in Thread, Check(t) \/ Look(t) \/ Start(t)
        PROVE  TeleopTypeInv'
    <2>1. UNCHANGED <<wants, active, busy, stopped, late>>
      BY <1>2 DEF Check, Look, Start
    <2>2. PICK to \in {"idle", "look", "start", "decide", "engage"} :
             pc' = [pc EXCEPT ![t] = to] /\ (to = "engage" => wants[t] \in Known)
      BY <1>2 DEF Check, Look, Start
    <2> QED  BY <2>1, <2>2
  <1>3. ASSUME NEW t \in Thread, Engage(t) \/ Mark(t) \/ Decide(t)
        PROVE  TeleopTypeInv'
    BY <1>3 DEF Engage, Mark, Decide
  <1>4. CASE EStop \/ ClearEStop \/ Elsewhere \/ UNCHANGED <<rateVars, teleopVars>>
    <2>1. UNCHANGED <<pc, wants, active, busy>> /\ late' \in Nat
      BY <1>4 DEF EStop, ClearEStop, Elsewhere, teleopVars
    <2>2. stopped' \in BOOLEAN
      BY <1>4 DEF EStop, ClearEStop, Elsewhere, teleopVars
    <2> QED  BY <2>1, <2>2
  <1> HIDE DEF TeleopTypeInv, TeleopTypeOK, Goes
  <1> QED  BY <1>1, <1>2, <1>3, <1>4 DEF TeleopNext

(* A session is always one of a registered robot (TEL 43-55).              *)
THEOREM TeleopTypeCorrect == TeleopSpec => []TeleopTypeOK
  <1>1. TeleopTypeInv => TeleopTypeOK
    BY DEF TeleopTypeInv
  <1> QED  BY <1>1, TeleopTypeInit, TeleopTypeStep, PTL DEF TeleopSpec

(* Threads that are at one of some places of the handler.                  *)
At(places) == {t \in Thread : pc[t] \in places}
LetIn == {"look", "start", "engage", "mark", "decide"}
Opening == {"start", "engage", "mark"}

(* The finite sets of threads, and their sizes.                            *)
LEMMA AtSize ==
    ASSUME NEW places
    PROVE  /\ IsFiniteSet(At(places)) /\ Cardinality(At(places)) \in Nat
           /\ Cardinality(At(places)) <= Cardinality(Thread)
           /\ Cardinality(Thread) \in Nat \ {0}
  BY TeleopAssumption, FS_Subset, FS_CardinalityType, FS_EmptySet DEF At

(* A thread that leaves its place makes room.                              *)
LEMMA Leaving ==
    ASSUME NEW S, IsFiniteSet(S), NEW t \in S
    PROVE  Cardinality(S \ {t}) = Cardinality(S) - 1 /\ Cardinality(S) \in Nat
  BY FS_RemoveElement, FS_CardinalityType
-----------------------------------------------------------------------------
(* Each thread that was let in has still one answer to give.               *)
LateInv ==
    /\ TeleopTypeInv
    /\ stopped => late + Cardinality(At(LetIn)) <= Cardinality(Thread)

(* What is answered and what is owed after a stop stay bounded.            *)
LEMMA LateStep == LateInv /\ [TeleopNext]_<<rateVars, teleopVars>> => LateInv'
  <1> SUFFICES ASSUME LateInv, [TeleopNext]_<<rateVars, teleopVars>>,
                      stopped'
               PROVE  late' + Cardinality(At(LetIn)') <= Cardinality(Thread)
    BY TeleopTypeStep DEF LateInv
  <1> DEFINE N == Cardinality(Thread)
  <1>1. /\ TeleopTypeInv /\ late \in Nat /\ N \in Nat \ {0}
        /\ Cardinality(At(LetIn)) \in Nat /\ Cardinality(At(LetIn)) <= N
        /\ IsFiniteSet(At(LetIn))
    BY AtSize DEF LateInv, TeleopTypeInv, TeleopTypeOK
  <1>2. pc \in [Thread -> {"idle", "check", "look", "start", "engage", "mark",
                           "decide"}]
    BY <1>1 DEF TeleopTypeInv, TeleopTypeOK
  <1>3. SUFFICES \/ late' = 0 /\ At(LetIn)' = At(LetIn)
                 \/ stopped /\ late' = late /\ At(LetIn)' = At(LetIn)
                 \/ /\ stopped /\ late' \in Nat /\ late' <= late + 1
                    /\ \E t \in At(LetIn) : At(LetIn)' = At(LetIn) \ {t}
    <2>1. CASE At(LetIn)' = At(LetIn)
      BY <1>1, <1>3, <2>1, Leaving DEF LateInv
    <2>2. CASE \E t \in At(LetIn) : At(LetIn)' = At(LetIn) \ {t}
      BY <1>1, <1>3, <2>2, Leaving DEF LateInv
    <2> QED  BY <1>3, <2>1, <2>2
  <1> HIDE DEF N
  <1> USE <1>2 DEF At, LetIn, Goes
  <1>4. ASSUME NEW t \in Thread, NEW r \in Asked, Command(t, r)
        PROVE  stopped /\ late' = late /\ At(LetIn)' = At(LetIn)
    BY <1>4 DEF Command
  <1>5. ASSUME NEW t \in Thread, Check(t)
        PROVE  stopped /\ late' = late /\ At(LetIn)' = At(LetIn)
    BY <1>5 DEF Check
  <1>6. ASSUME NEW t \in Thread, Look(t) \/ Start(t) \/ Engage(t) \/ Mark(t)
        PROVE  stopped /\ late' = late /\ At(LetIn)' = At(LetIn)
    <2>1. UNCHANGED <<stopped, late>>
      BY <1>6 DEF Look, Start, Engage, Mark
    <2>2. pc[t] \in LetIn /\ \E to \in LetIn : pc' = [pc EXCEPT ![t] = to]
      BY <1>6 DEF Look, Start, Engage, Mark
    <2> QED  BY <2>1, <2>2
  <1>7. ASSUME NEW t \in Thread, Decide(t)
        PROVE  /\ stopped /\ late' \in Nat /\ late' <= late + 1
               /\ t \in At(LetIn) /\ At(LetIn)' = At(LetIn) \ {t}
    <2>1. stopped /\ late' \in Nat /\ late' <= late + 1
      BY <1>1, <1>7 DEF Decide
    <2> QED  BY <1>7, <2>1 DEF Decide
  <1>8. CASE EStop
    BY <1>8 DEF EStop
  <1>9. CASE ClearEStop
    BY <1>9 DEF ClearEStop
  <1>10. CASE Elsewhere \/ UNCHANGED <<rateVars, teleopVars>>
    BY <1>10 DEF Elsewhere, teleopVars
  <1> HIDE DEF At, LetIn, Goes
  <1> QED  BY <1>4, <1>5, <1>6, <1>7, <1>8, <1>9, <1>10 DEF TeleopNext

(* However many operators stream commands, an emergency stop is followed   *)
(* by at most one velocity per thread (TEL 66-118).                        *)
THEOREM LateBounded == TeleopSpec => []LateBound
  <1>1. TeleopInit => LateInv
    BY TeleopTypeInit DEF TeleopInit, LateInv
  <1>2. LateInv => LateBound
    BY AtSize DEF LateInv, LateBound, TeleopTypeInv, TeleopTypeOK
  <1> QED  BY <1>1, <1>2, LateStep, PTL DEF TeleopSpec
-----------------------------------------------------------------------------
(* A robot is marked by a thread that had found no session; from the first *)
(* session on no further thread finds none.                                *)
Unopened == active = None => busy = {} /\ \A t \in Thread : pc[t] # "mark"
Marked ==
    active # None =>
        active \in busy \/ \E t \in Thread : pc[t] = "mark" /\ wants[t] = active
OpeningBound == Cardinality(busy) + Cardinality(At(Opening)) <= Cardinality(Thread)

StrandInv ==
    /\ TeleopTypeInv
    /\ IsFiniteSet(busy)
    /\ Unopened /\ Marked /\ OpeningBound

(* The handlers' places, as sets.                                          *)
LEMMA OpeningStep ==
    ASSUME TeleopTypeInv, NEW t \in Thread, NEW to,
           pc' = [pc EXCEPT ![t] = to]
    PROVE  /\ pc[t] \notin Opening /\ to \notin Opening => At(Opening)' = At(Opening)
           /\ pc[t] \in Opening /\ to \in Opening => At(Opening)' = At(Opening)
           /\ pc[t] \in Opening /\ to \notin Opening =>
                 t \in At(Opening) /\ At(Opening)' = At(Opening) \ {t}
  BY DEF TeleopTypeInv, TeleopTypeOK, At, Opening

(* Robots marked and threads on their way to mark one stay bounded.        *)
LEMMA StrandStep == StrandInv /\ [TeleopNext]_<<rateVars, teleopVars>> => StrandInv'
  <1> SUFFICES ASSUME StrandInv, [TeleopNext]_<<rateVars, teleopVars>>
               PROVE  StrandInv'
    OBVIOUS
  <1>1. TeleopTypeInv'
    BY TeleopTypeStep DEF StrandInv
  <1>2. /\ TeleopTypeInv /\ IsFiniteSet(busy) /\ Cardinality(busy) \in Nat
        /\ Cardinality(At(Opening)) \in Nat /\ Cardinality(Thread) \in Nat \ {0}
        /\ IsFiniteSet(At(Opening))
        /\ Cardinality(At(Opening)) <= Cardinality(Thread)
        /\ Cardinality(At(Opening)') \in Nat
        /\ Cardinality(At(Opening)') <= Cardinality(Thread)
        /\ Cardinality({}) = 0
    BY FS_CardinalityType, AtSize, FS_EmptySet, <1>1, FS_Subset, TeleopAssumption
    DEF StrandInv, At
  <1>3. /\ pc \in [Thread -> {"idle", "check", "look", "start", "engage", "mark",
                              "decide"}]
        /\ active \in Known \cup {None}
    BY <1>2 DEF TeleopTypeInv, TeleopTypeOK
  <1>4. Unopened /\ Marked /\ OpeningBound
    BY DEF StrandInv
  <1> USE <1>3
  <1>5. ASSUME NEW t \in Thread, NEW r \in Asked, Command(t, r)
        PROVE  StrandInv'
    <2>1. /\ UNCHANGED <<active, busy>> /\ pc[t] = "idle"
          /\ pc' = [pc EXCEPT ![t] = "check"]
          /\ \A q \in Thread \ {t} : wants'[q] = wants[q]
      BY <1>2, <1>5 DEF Command, Goes, TeleopTypeInv, TeleopTypeOK
    <2>2. At(Opening)' = At(Opening)
      <3>1. pc[t] \notin Opening /\ "check" \notin Opening
        BY <2>1 DEF Opening
      <3> QED  BY <2>1, <3>1, <1>2, OpeningStep
    <2>3. Unopened' /\ Marked'
      BY <1>4, <2>1 DEF Unopened, Marked
    <2> QED  BY <1>1, <1>2, <1>4, <2>1, <2>2, <2>3 DEF StrandInv, OpeningBound
  <1>6. ASSUME NEW t \in Thread, Check(t) \/ Decide(t)
        PROVE  StrandInv'
    <2>1. /\ UNCHANGED <<wants, active, busy>> /\ pc[t] \in {"check", "decide"}
          /\ \E to \in {"idle", "look"} : pc' = [pc EXCEPT ![t] = to]
      BY <1>6 DEF Check, Decide, Goes
    <2>2. At(Opening)' = At(Opening)
      BY <2>1, <1>2, OpeningStep DEF Opening
    <2>3. Unopened' /\ Marked'
      BY <1>4, <2>1 DEF Unopened, Marked
    <2> QED  BY <1>1, <1>2, <1>4, <2>1, <2>2, <2>3 DEF StrandInv, OpeningBound
  <1>7. ASSUME NEW t \in Thread, Look(t)
        PROVE  StrandInv'
    <2>1. /\ UNCHANGED <<wants, active, busy>> /\ pc[t] = "look"
          /\ pc' = [pc EXCEPT ![t] = IF active = None THEN "start" ELSE "decide"]
      BY <1>7 DEF Look, Goes
    <2>2. Unopened' /\ Marked'
      BY <1>4, <2>1 DEF Unopened, Marked
    <2>3. CASE active = None
      <3>1. Cardinality(busy') = 0
        BY <2>1, <2>3, <1>2, <1>4 DEF Unopened
      <3> QED  BY <1>1, <1>2, <2>1, <2>2, <3>1 DEF StrandInv, OpeningBound
    <2>4. CASE active # None
      <3>1. At(Opening)' = At(Opening)
        BY <2>1, <2>4, <1>2, OpeningStep DEF Opening
      <3> QED  BY <1>1, <1>2, <1>4, <2>1, <2>2, <3>1 DEF StrandInv, OpeningBound
    <2> QED  BY <2>3, <2>4
  <1>8. ASSUME NEW t \in Thread, Start(t)
        PROVE  StrandInv'
    <2>1. /\ UNCHANGED <<wants, active, busy>> /\ pc[t] = "start"
          /\ \E to \in {"decide", "engage"} : pc' = [pc EXCEPT ![t] = to]
      BY <1>8 DEF Start, Goes
    <2>2. \/ At(Opening)' = At(Opening)
          \/ t \in At(Opening) /\ At(Opening)' = At(Opening) \ {t}
      BY <2>1, <1>2, OpeningStep DEF Opening
    <2>3. Cardinality(At(Opening)') <= Cardinality(At(Opening))
      BY <2>2, <1>2, Leaving
    <2>4. Unopened' /\ Marked'
      BY <1>4, <2>1 DEF Unopened, Marked
    <2> QED  BY <1>1, <1>2, <1>4, <2>1, <2>3, <2>4 DEF StrandInv, OpeningBound
  <1>9. ASSUME NEW t \in Thread, Engage(t)
        PROVE  StrandInv'
    <2>1. /\ UNCHANGED <<wants, busy>> /\ pc[t] = "engage" /\ active' = wants[t]
          /\ pc' = [pc EXCEPT ![t] = "mark"] /\ wants[t] \in Known
      BY <1>2, <1>9 DEF Engage, Goes, TeleopTypeInv
    <2>2. At(Opening)' = At(Opening)
      BY <2>1, <1>2, OpeningStep DEF Opening
    <2>3. active' # None /\ Marked'
      BY <2>1, TeleopAssumption DEF Marked
    <2> QED
      BY <1>1, <1>2, <1>4, <2>1, <2>2, <2>3 DEF StrandInv, OpeningBound, Unopened
  <1>10. ASSUME NEW t \in Thread, Mark(t)
         PROVE  StrandInv'
    <2>1. /\ UNCHANGED <<wants, active>> /\ busy' = busy \cup {wants[t]}
          /\ pc[t] = "mark" /\ pc' = [pc EXCEPT ![t] = "decide"]
      BY <1>10 DEF Mark, Goes
    <2>2. t \in At(Opening) /\ At(Opening)' = At(Opening) \ {t}
      <3>1. pc[t] \in Opening /\ "decide" \notin Opening
        BY <2>1 DEF Opening
      <3> QED  BY <2>1, <3>1, <1>2, OpeningStep
    <2>3. Cardinality(At(Opening)') = Cardinality(At(Opening)) - 1
      BY <2>2, <1>2, Leaving
    <2>4. /\ IsFiniteSet(busy') /\ Cardinality(busy') \in Nat
          /\ Cardinality(busy') <= Cardinality(busy) + 1
      <3>1. /\ IsFiniteSet(busy \cup {wants[t]})
            /\ \/ Cardinality(busy \cup {wants[t]}) = Cardinality(busy)
               \/ Cardinality(busy \cup {wants[t]}) = Cardinality(busy) + 1
        BY <1>2, FS_AddElement
      <3> QED  BY <2>1, <1>2, <3>1
    <2>5. Unopened' /\ Marked'
      BY <1>4, <2>1 DEF Unopened, Marked
    <2> QED  BY <1>1, <1>2, <1>4, <2>3, <2>4, <2>5 DEF StrandInv, OpeningBound
  <1>11. CASE EStop \/ ClearEStop \/ Elsewhere \/ UNCHANGED <<rateVars, teleopVars>>
    <2>1. UNCHANGED <<pc, wants, active, busy>>
      BY <1>11 DEF EStop, ClearEStop, Elsewhere, teleopVars
    <2> QED
      BY <1>1, <1>2, <1>4, <2>1 DEF StrandInv, OpeningBound, Unopened, Marked, At
  <1> QED
    BY <1>5, <1>6, <1>7, <1>8, <1>9, <1>10, <1>11 DEF TeleopNext

(* A race of first commands leaves fewer robots BUSY without a session     *)
(* than there are threads, and nothing adds to them (TEL 51-53, 71-84).    *)
THEOREM StrandedBounded == TeleopSpec => []Stranded
  <1>1. TeleopInit => StrandInv
    <2> SUFFICES ASSUME TeleopInit PROVE StrandInv
      OBVIOUS
    <2>1. TeleopTypeInv /\ busy = {} /\ active = None
          /\ \A t \in Thread : pc[t] = "idle"
      BY TeleopTypeInit DEF TeleopInit
    <2>2. At(Opening) = {}
      BY <2>1 DEF At, Opening
    <2> QED
      BY <2>1, <2>2, FS_EmptySet, AtSize
      DEF StrandInv, Unopened, Marked, OpeningBound
  <1>2. StrandInv => Stranded
    <2> SUFFICES ASSUME StrandInv
                 PROVE  Cardinality(busy \ {active}) < Cardinality(Thread)
      BY DEF Stranded
    <2>1. /\ IsFiniteSet(busy) /\ Cardinality(busy) \in Nat
          /\ IsFiniteSet(At(Opening)) /\ Cardinality(At(Opening)) \in Nat
          /\ Cardinality(Thread) \in Nat \ {0}
      BY FS_CardinalityType, AtSize DEF StrandInv
    <2>2. CASE active \in busy
      BY <2>1, <2>2, Leaving DEF StrandInv, OpeningBound
    <2>3. CASE active \notin busy /\ active = None
      BY <2>1, <2>3, FS_EmptySet DEF StrandInv, Unopened
    <2>4. CASE active \notin busy /\ active # None
      <3>1. PICK t \in Thread : pc[t] = "mark"
        BY <2>4 DEF StrandInv, Marked
      <3>2. t \in At(Opening)
        BY <3>1 DEF At, Opening
      <3>3. Cardinality(At(Opening) \ {t}) = Cardinality(At(Opening)) - 1
            /\ Cardinality(At(Opening) \ {t}) \in Nat
        BY <3>2, <2>1, Leaving, FS_RemoveElement, FS_CardinalityType
      <3>4. busy \ {active} = busy
        BY <2>4
      <3> QED  BY <2>1, <3>3, <3>4 DEF StrandInv, OpeningBound
    <2> QED  BY <2>2, <2>3, <2>4
  <1> QED  BY <1>1, <1>2, StrandStep, PTL DEF TeleopSpec
=============================================================================
