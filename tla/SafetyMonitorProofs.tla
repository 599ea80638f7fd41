------------------------ MODULE SafetyMonitorProofs ------------------------
(***************************************************************************)
(* Theorems about SafetyMonitor, for every timeout, limit and command.     *)
(***************************************************************************)
EXTENDS SafetyMonitor, TLAPS

(* The handlers, without the choice of their arguments.                    *)
LEMMA MonitorCases ==
    ASSUME [Next]_monitorVars
    PROVE  \/ Tick \/ OnLidar \/ OnAgentHeartbeat \/ OnEStop \/ OnClear
           \/ SafetyLoop
           \/ \E s \in Sensor \ {"lidar"} : OnSensor(s)
           \/ \E c \in Command : OnCmdVel(c)
           \/ UNCHANGED monitorVars
  BY DEF Next

(* max(-m, min(m, x)) lies between -m and m, also when x is NaN.           *)
LEMMA ClampBounds ==
    ASSUME NEW m \in Nat, NEW x \in Int \cup {NaN}
    PROVE  /\ Clamp(m, x) \in Int
           /\ -m <= Clamp(m, x) /\ Clamp(m, x) <= m
  BY MonitorAssumption DEF Clamp

(* The limits of every state are velocities.                               *)
LEMMA LimitsType == \A st \in SafetyState : Limits(st) \in [Axis -> Nat]
  BY MonitorAssumption DEF Limits, Still

(* The ages stay within their caps, and an age is at most one more than    *)
(* the tick before.                                                        *)
LEMMA AgeTick ==
    ASSUME TypeOK, Tick
    PROVE  /\ age' \in [Source -> Nat]
           /\ \A s \in Source : age'[s] <= MaxAge[s] /\ age'[s] <= age[s] + 1
  <1>1. MaxAge \in [Source -> Nat]
    BY MonitorAssumption DEF MaxAge
  <1> QED  BY <1>1, MonitorAssumption DEF Tick, TypeOK, Smaller

(* A message resets the age of its sensor and of no other.                 *)
LEMMA AgeHear ==
    ASSUME TypeOK, NEW s \in Source, Hear(s)
    PROVE  /\ age' \in [Source -> Nat]
           /\ \A t \in Source : age'[t] <= MaxAge[t] /\ age'[t] <= age[t]
  <1>1. MaxAge \in [Source -> Nat]
    BY MonitorAssumption DEF MaxAge
  <1>2. age' = [t \in Source |-> IF t = s THEN 0 ELSE age[t]]
    BY DEF Hear, TypeOK
  <1>3. \A t \in Source : age[t] \in Nat /\ age[t] <= MaxAge[t] /\ MaxAge[t] \in Nat
    BY <1>1 DEF TypeOK
  <1> QED  BY <1>2, <1>3

(* The monitor starts within its types.                                    *)
LEMMA MonitorTypeInit == MonitorInit => TypeOK
  <1>1. MaxAge \in [Source -> Nat]
    BY MonitorAssumption DEF MaxAge
  <1>2. Still \in [Axis -> Int]
    BY DEF Still
  <1>3. MaxUptime \in Nat /\ MaxGap \in Nat
    BY MonitorAssumption DEF MaxUptime
  <1>4. \A s \in Source : MaxAge[s] <= MaxAge[s]
    BY <1>1
  <1> SUFFICES ASSUME MonitorInit PROVE TypeOK
    OBVIOUS
  <1> USE DEF MonitorInit
  <1>5. state \in SafetyState \ {"RECOVERY", "FAULT"} /\ scan \in Scan
    BY DEF SafetyState, Scan
  <1>6. uptime \in 0 .. MaxUptime /\ gap \in 0 .. MaxGap
    BY <1>3
  <1>7. limit \in [Axis -> Nat]
    BY MonitorAssumption
  <1> QED  BY <1>1, <1>2, <1>4, <1>5, <1>6, <1>7 DEF TypeOK

(* Every handler keeps the types.                                          *)
LEMMA MonitorTypeStep == TypeOK /\ [Next]_monitorVars => TypeOK'
  <1> SUFFICES ASSUME TypeOK, [Next]_monitorVars PROVE TypeOK'
    OBVIOUS
  <1>a. Limits("E_STOP") \in [Axis -> Nat] /\ Limits("NOMINAL") \in [Axis -> Nat]
    BY LimitsType DEF SafetyState
  <1>b. Still \in [Axis -> Int]
    BY DEF Still
  <1>1. CASE Tick
    <2>1. uptime' \in 0 .. MaxUptime /\ gap' \in 0 .. MaxGap
      BY <1>1, MonitorAssumption DEF Tick, TypeOK, Smaller, MaxUptime
    <2> QED  BY <1>1, <2>1, AgeTick DEF Tick, TypeOK
  <1>2. CASE OnLidar
    <2>1. "lidar" \in Source
      BY DEF Source, Sensor
    <2>2. age' \in [Source -> Nat] /\ \A s \in Source : age'[s] <= MaxAge[s]
      BY <1>2, <2>1, AgeHear DEF OnLidar
    <2> QED
      BY <1>2, <1>a, <1>b, <2>2
      DEF OnLidar, TriggerEStop, TypeOK, Scan, SafetyState
  <1>3. CASE OnAgentHeartbeat
    <2>1. age' \in [Source -> Nat] /\ \A s \in Source : age'[s] <= MaxAge[s]
      BY <1>3, AgeHear DEF OnAgentHeartbeat, Source
    <2> QED  BY <1>3, <2>1 DEF OnAgentHeartbeat, TypeOK
  <1>4. CASE OnEStop
    BY <1>4, <1>a, <1>b DEF OnEStop, TriggerEStop, TypeOK, SafetyState
  <1>5. CASE OnClear
    BY <1>5, <1>a DEF OnClear, TypeOK, SafetyState
  <1>6. CASE SafetyLoop
    <2> DEFINE found == {s \in Critical : ~Ok(s)}
    <2>1. Assessed(found) \in SafetyState \ {"RECOVERY", "FAULT"}
      BY DEF Assessed, TypeOK, SafetyState, Stopped
    <2>2. limit' \in [Axis -> Nat] /\ state' = Assessed(found)
      BY <1>6, <2>1, LimitsType DEF SafetyLoop
    <2>3. health' \in
             [state : SafetyState, ok : [Sensor -> BOOLEAN], agent : BOOLEAN]
      <3> HIDE DEF found
      <3>1. [s \in Sensor |-> IF s = "depth" THEN Ok("camera") ELSE Ok(s)]
               \in [Sensor -> BOOLEAN]
        BY DEF Ok
      <3>2. met \in BOOLEAN /\ Assessed(found) \in SafetyState
        BY <2>1 DEF TypeOK
      <3>3. health' = [state |-> Assessed(found),
                       ok |-> [s \in Sensor |->
                          IF s = "depth" THEN Ok("camera") ELSE Ok(s)],
                       agent |-> met]
        BY <1>6 DEF SafetyLoop, found
      <3> QED  BY <3>1, <3>2, <3>3
    <2>4. faults' \subseteq Critical /\ gap' \in 0 .. MaxGap
      BY <1>6, MonitorAssumption DEF SafetyLoop
    <2> QED  BY <1>6, <2>1, <2>2, <2>3, <2>4 DEF SafetyLoop, TypeOK
  <1>7. CASE \E s \in Sensor \ {"lidar"} : OnSensor(s)
    <2> PICK s \in Sensor : OnSensor(s)
      BY <1>7
    <2>1. age' \in [Source -> Nat] /\ \A t \in Source : age'[t] <= MaxAge[t]
      BY AgeHear DEF OnSensor, Source
    <2> QED  BY <2>1 DEF OnSensor, TypeOK
  <1>8. CASE \E c \in Command : OnCmdVel(c)
    <2> PICK c \in Command : OnCmdVel(c)
      BY <1>8
    <2>1. \A a \in Axis : Clamp(limit[a], c[a]) \in Int
      BY ClampBounds, MonitorAssumption DEF TypeOK
    <2>2. out' \in [Axis -> Int]
      BY <2>1, <1>b DEF OnCmdVel
    <2> QED  BY <2>2 DEF OnCmdVel, TypeOK
  <1>9. CASE UNCHANGED monitorVars
    BY <1>9 DEF monitorVars, TypeOK
  <1> QED
    BY MonitorCases, <1>1, <1>2, <1>3, <1>4, <1>5, <1>6, <1>7, <1>8, <1>9

(* The state of the monitor is always within its types; in particular the  *)
(* states FAULT and RECOVERY are never entered.                            *)
THEOREM MonitorTypeCorrect == Spec => []TypeOK
  BY MonitorTypeInit, MonitorTypeStep, PTL DEF Spec

-----------------------------------------------------------------------------
(* What a halt means between two handlers: the limits are those of the     *)
(* state, and a stopped robot was last told to stand still.                *)
HaltInv ==
    /\ limit = Limits(state)
    /\ state \in Stopped => out = Still

(* The node starts with the limits of its first state, and none is a halt. *)
LEMMA HaltInit == MonitorInit => HaltInv
  BY DEF MonitorInit, HaltInv, Limits, Stopped

(* Every handler that changes the state sets the limits with it, and every *)
(* one that halts publishes a zero velocity.                               *)
LEMMA HaltStep == TypeOK /\ HaltInv /\ [Next]_monitorVars => HaltInv'
  <1> SUFFICES ASSUME TypeOK, HaltInv, [Next]_monitorVars PROVE HaltInv'
    OBVIOUS
  <1> USE DEF HaltInv
  <1>1. CASE Tick
    BY <1>1 DEF Tick, Limits
  <1>2. CASE OnLidar
    BY <1>2 DEF OnLidar, TriggerEStop, Limits
  <1>3. CASE OnAgentHeartbeat
    BY <1>3 DEF OnAgentHeartbeat, Limits
  <1>4. CASE OnEStop
    BY <1>4 DEF OnEStop, TriggerEStop, Limits
  <1>5. CASE OnClear
    BY <1>5 DEF OnClear, Limits, Stopped
  <1>6. CASE SafetyLoop
    BY <1>6 DEF SafetyLoop, Assessed, Limits, Stopped
  <1>7. CASE \E s \in Sensor \ {"lidar"} : OnSensor(s)
    BY <1>7 DEF OnSensor, Limits
  <1>8. CASE \E c \in Command : OnCmdVel(c)
    BY <1>8 DEF OnCmdVel, Limits
  <1>9. CASE UNCHANGED monitorVars
    BY <1>9 DEF monitorVars, Limits
  <1> QED
    BY MonitorCases, <1>1, <1>2, <1>3, <1>4, <1>5, <1>6, <1>7, <1>8, <1>9

(* The initial state maps to that of the governor.                         *)
LEMMA GovernsInit == MonitorInit => Governor!GovInit
  BY DEF MonitorInit, Governor!GovInit, Mode, Still, Governor!Still

(* Every handler is a step of the governor or leaves it alone: a halt is   *)
(* Halt, a clear is Release, the loop is Assess, a velocity command is     *)
(* Drive or, when halted, nothing.                                         *)
LEMMA GovernsStep ==
    ASSUME TypeOK, HaltInv, [Next]_monitorVars
    PROVE  \/ Governor!Drive \/ Governor!Halt \/ Governor!Assess
           \/ Governor!Release
           \/ UNCHANGED Governor!govVars
  <1>a. state \in {"NOMINAL", "DEGRADED", "E_STOP"}
    BY DEF TypeOK, SafetyState
  <1>b. Governor!Still = Still
    BY DEF Still, Governor!Still
  <1>c. ASSUME TriggerEStop PROVE Governor!Halt
    BY <1>b, <1>c DEF TriggerEStop, Governor!Halt, Mode
  <1>d. ASSUME UNCHANGED <<state, out>> PROVE UNCHANGED Governor!govVars
    BY <1>d DEF Governor!govVars, Mode
  <1>1. CASE Tick
    BY <1>1, <1>d DEF Tick
  <1>2. CASE OnLidar
    BY <1>2, <1>c, <1>d DEF OnLidar
  <1>3. CASE OnAgentHeartbeat
    BY <1>3, <1>d DEF OnAgentHeartbeat
  <1>4. CASE OnEStop
    BY <1>4, <1>c DEF OnEStop
  <1>5. CASE OnClear
    BY <1>5 DEF OnClear, MayClear, Governor!Release, Mode
  <1>6. CASE SafetyLoop
    <2>1. CASE state = "E_STOP"
      BY <1>6, <1>d, <2>1 DEF SafetyLoop, Assessed, Stopped
    <2>2. CASE state # "E_STOP"
      BY <1>6, <1>a, <2>2
      DEF SafetyLoop, Assessed, Stopped, Governor!Assess, Mode
    <2> QED  BY <2>1, <2>2
  <1>7. CASE \E s \in Sensor \ {"lidar"} : OnSensor(s)
    BY <1>7, <1>d DEF OnSensor
  <1>8. CASE \E c \in Command : OnCmdVel(c)
    <2> PICK c \in Command : OnCmdVel(c)
      BY <1>8
    <2>1. CASE state = "E_STOP"
      BY <1>d, <2>1 DEF OnCmdVel, Stopped, HaltInv
    <2>2. CASE state # "E_STOP"
      <3>1. limit = Governor!Ceiling
        BY <1>a, <2>2 DEF HaltInv, Limits, Stopped, Mode, Governor!Ceiling
      <3>2. out' = [a \in Axis |-> Clamp(limit[a], c[a])]
        BY <1>a, <2>2 DEF OnCmdVel, Stopped
      <3>3. \A a \in Axis : /\ Clamp(limit[a], c[a]) \in Int
                            /\ -limit[a] <= Clamp(limit[a], c[a])
                            /\ Clamp(limit[a], c[a]) <= limit[a]
        BY ClampBounds, MonitorAssumption DEF TypeOK
      <3>4. Governor!Obeys(out', limit)
        BY <3>2, <3>3 DEF Governor!Obeys
      <3> QED
        BY <1>a, <2>2, <3>1, <3>4 DEF OnCmdVel, Governor!Drive, Mode
    <2> QED  BY <2>1, <2>2
  <1>9. CASE UNCHANGED monitorVars
    BY <1>9, <1>d DEF monitorVars
  <1> QED
    BY MonitorCases, <1>1, <1>2, <1>3, <1>4, <1>5, <1>6, <1>7, <1>8, <1>9

(* The safety monitor implements the motion governor: in E_STOP the motors *)
(* are told to stand still and nothing else, and no command, however       *)
(* malformed, exceeds the limits of the state.                             *)
THEOREM MonitorGoverns == Spec => Governs
  <1>1. TypeOK /\ HaltInv /\ [Next]_monitorVars =>
           [Governor!Drive \/ Governor!Halt \/ Governor!Assess
               \/ Governor!Release]_(Governor!govVars)
    BY GovernsStep
  <1> QED
    BY <1>1, GovernsInit, HaltInit, HaltStep, MonitorTypeInit, MonitorTypeStep,
       PTL DEF Spec, Governs, Governor!GovSpec

-----------------------------------------------------------------------------
(* What the verdict of the safety loop says of the clock: when it found no *)
(* fault, each critical sensor was heard less than Timeout before it ran,  *)
(* gap ticks ago, and NOMINAL is only entered on such a verdict.           *)
VerdictInv ==
    /\ faults = {} =>
          \/ uptime < Grace + gap
          \/ \A s \in Critical : age[s] < Timeout + gap
    /\ state = "NOMINAL" => faults = {}

(* The first verdict, no fault, is that of the start-up grace.             *)
LEMMA VerdictInit == MonitorInit => VerdictInv
  BY MonitorAssumption DEF MonitorInit, VerdictInv

(* Time does not outrun the verdict, messages only help it, and the loop   *)
(* renews it.                                                              *)
LEMMA VerdictStep == TypeOK /\ VerdictInv /\ [Next]_monitorVars => VerdictInv'
  <1> SUFFICES ASSUME TypeOK, VerdictInv, [Next]_monitorVars PROVE VerdictInv'
    OBVIOUS
  <1> USE DEF VerdictInv
  <1>a. Critical \subseteq Source
    BY DEF Critical, Source, Sensor
  <1>b. /\ uptime \in Nat /\ gap \in Nat /\ Timeout \in Nat \ {0} /\ Grace \in Nat
        /\ \A s \in Critical : age[s] \in Nat
    BY <1>a, MonitorAssumption DEF TypeOK, MaxUptime
  <1>c. ASSUME NEW s \in Source, Hear(s), UNCHANGED <<uptime, gap>>, faults = {}
        PROVE  \/ uptime' < Grace + gap'
               \/ \A t \in Critical : age'[t] < Timeout + gap'
    BY <1>a, <1>b, <1>c, AgeHear
  <1>1. CASE Tick
    <2>1. /\ gap' = gap + 1 /\ uptime' <= uptime + 1 /\ uptime' \in Nat
          /\ UNCHANGED <<state, faults>>
      BY <1>1, <1>b, MonitorAssumption DEF Tick, Smaller, MaxUptime, TypeOK
    <2>2. \A s \in Critical : age'[s] \in Nat /\ age'[s] <= age[s] + 1
      BY <1>1, <1>a, AgeTick
    <2> QED  BY <1>b, <2>1, <2>2
  <1>2. CASE OnLidar
    <2>1. "lidar" \in Source
      BY DEF Source, Sensor
    <2> QED  BY <1>2, <1>c, <2>1 DEF OnLidar, TriggerEStop
  <1>3. CASE OnAgentHeartbeat
    BY <1>3, <1>c DEF OnAgentHeartbeat, Source
  <1>4. CASE OnEStop
    BY <1>4 DEF OnEStop, TriggerEStop
  <1>5. CASE OnClear
    BY <1>5 DEF OnClear, MayClear
  <1>6. CASE SafetyLoop
    <2>1. CASE uptime < Grace
      BY <1>6, <1>b, <2>1 DEF SafetyLoop, Assessed, Ok, Stopped
    <2>2. CASE ~(uptime < Grace)
      BY <1>6, <1>b, <2>2 DEF SafetyLoop, Assessed, Ok, Stopped
    <2> QED  BY <2>1, <2>2
  <1>7. CASE \E s \in Sensor \ {"lidar"} : OnSensor(s)
    <2> PICK s \in Sensor : OnSensor(s)
      BY <1>7
    <2> QED  BY <1>c DEF OnSensor, Source
  <1>8. CASE \E c \in Command : OnCmdVel(c)
    BY <1>8 DEF OnCmdVel
  <1>9. CASE UNCHANGED monitorVars
    BY <1>9 DEF monitorVars
  <1> QED
    BY MonitorCases, <1>1, <1>2, <1>3, <1>4, <1>5, <1>6, <1>7, <1>8, <1>9

(* A robot at full speed has fresh critical sensors, for every timeout and *)
(* every lateness of the safety loop.                                      *)
THEOREM FullSpeedAlwaysFresh == Spec => []FullSpeedIsFresh
  <1>1. TypeOK /\ VerdictInv => FullSpeedIsFresh
    <2> SUFFICES ASSUME TypeOK, VerdictInv, state = "NOMINAL"
                 PROVE  \/ uptime < MaxUptime
                        \/ \A s \in Critical : age[s] < Timeout + MaxGap
      BY DEF FullSpeedIsFresh
    <2>1. \A s \in Critical : age[s] \in Nat
      BY DEF TypeOK, Critical, Source, Sensor
    <2>2. /\ uptime \in Nat /\ gap \in Nat /\ gap <= MaxGap
          /\ MaxGap \in Nat /\ Timeout \in Nat /\ Grace \in Nat
      BY MonitorAssumption DEF TypeOK, MaxUptime
    <2> QED  BY <2>1, <2>2 DEF VerdictInv, MaxUptime
  <1> QED
    BY <1>1, MonitorTypeInit, MonitorTypeStep, VerdictInit, VerdictStep, PTL
    DEF Spec
=============================================================================
