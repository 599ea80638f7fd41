--------------------------- MODULE SafetyMonitor ---------------------------
(***************************************************************************)
(* SafetyMonitorNode, the node of a robot body that stands between the     *)
(* velocity commands of navigation and teleoperation (/cmd_vel) and the    *)
(* motors (/cmd_vel_safe).  rclpy.spin runs its callbacks one at a time,   *)
(* so each callback is one action.  Messages on its sensor topics are best *)
(* effort: one that is lost is a callback that does not run.               *)
(*                                                                         *)
(* A tick of the clock is one period of the 10 Hz safety loop.  The loop   *)
(* runs at least once in every MaxGap ticks: its timer, plus the lateness  *)
(* of an executor that may be busy with other callbacks.                   *)
(***************************************************************************)
EXTENDS Integers

CONSTANTS
    Timeout,            \* sensor_timeout_seconds, in ticks
    WatchdogTimeout,    \* watchdog_timeout_seconds, in ticks
    Grace,              \* startup_grace, in ticks
    MaxGap,             \* most ticks between two runs of the safety loop
    Nominal,            \* V_MAX_NOMINAL and OMEGA_MAX_NOMINAL
    Degraded,           \* V_MAX_DEGRADED and OMEGA_MAX_DEGRADED
    Command,            \* velocities that may arrive on /cmd_vel
    NaN,                \* the float that is not a number
    NoHealth            \* nothing published on /robot_health yet

VARIABLES
    state,      \* _state
    faults,     \* _active_faults, as the sensors that timed out
    age,        \* ticks since each source was last heard, up to its MaxAge
    met,        \* whether the agent is in _watchdog_registry
    scan,       \* what the last LiDAR scan saw
    uptime,     \* ticks since the start, up to Grace + MaxGap
    gap,        \* ticks since the last run of the safety loop
    limit,      \* _v_max and _omega_max
    out,        \* last velocity published on /cmd_vel_safe
    health      \* last message published on /robot_health

monitorVars == <<state, faults, age, met, scan, uptime, gap, limit, out, health>>

Axis == {"linear", "angular"}
SafetyState == {"NOMINAL", "DEGRADED", "E_STOP", "RECOVERY", "FAULT"}
Stopped == {"E_STOP", "FAULT"}
Sensor == {"lidar", "camera", "depth", "imu", "odom"}
Critical == {"lidar", "imu", "odom"}

(* The closest valid range of a scan: under the halting distance, over it, *)
(* or none (an obstacle nearer than range_min counts as none).             *)
Scan == {"near", "far", "none"}

Smaller(a, b) == IF a < b THEN a ELSE b
Source == Sensor \cup {"agent"}
MaxAge == [s \in Source |->
              MaxGap + (IF s = "agent" THEN WatchdogTimeout ELSE Timeout)]
MaxUptime == Grace + MaxGap
Still == [a \in Axis |-> 0]

ASSUME MonitorAssumption ==
    /\ Timeout \in Nat \ {0} /\ WatchdogTimeout \in Nat \ {0}
    /\ MaxGap \in Nat \ {0} /\ Grace \in Nat \ {0}
    /\ Nominal \in [Axis -> Nat] /\ Degraded \in [Axis -> Nat]
    /\ \A a \in Axis : Degraded[a] <= Nominal[a]
    /\ NaN \notin Int
    /\ Command \subseteq [Axis -> Int \cup {NaN}]

(* A sensor that was never heard counts as one that timed out.             *)
MonitorInit ==
    /\ state = "NOMINAL"
    /\ faults = {}
    /\ age = MaxAge
    /\ met = FALSE
    /\ scan = "none"
    /\ uptime = 0
    /\ gap = 0
    /\ limit = Nominal
    /\ out = Still
    /\ health = NoHealth

(* _update_velocity_limits *)
Limits(st) ==
    IF st \in Stopped THEN Still
    ELSE IF st = "DEGRADED" THEN Degraded
    ELSE Nominal

(* _trigger_estop: the halt and its zero velocity. *)
TriggerEStop ==
    /\ state' = "E_STOP"
    /\ limit' = Limits("E_STOP")
    /\ out' = Still

Tick ==
    /\ gap < MaxGap
    /\ gap' = gap + 1
    /\ uptime' = Smaller(uptime + 1, MaxUptime)
    /\ age' = [s \in Source |-> Smaller(age[s] + 1, MaxAge[s])]
    /\ UNCHANGED <<state, faults, met, scan, limit, out, health>>

Hear(s) == age' = [age EXCEPT ![s] = 0]

OnLidar ==
    /\ Hear("lidar")
    /\ \/ scan' = "near" /\ TriggerEStop
       \/ scan' \in {"far", "none"} /\ UNCHANGED <<state, limit, out>>
    /\ UNCHANGED <<faults, met, uptime, gap, health>>

OnSensor(s) ==
    /\ Hear(s)
    /\ UNCHANGED <<state, faults, met, scan, uptime, gap, limit, out, health>>

OnAgentHeartbeat ==
    /\ Hear("agent")
    /\ met' = TRUE
    /\ UNCHANGED <<state, faults, scan, uptime, gap, limit, out, health>>

(* _on_estop.  An order to clear is obeyed when the last run of the safety *)
(* loop found no fault.                                                    *)
OnEStop ==
    /\ TriggerEStop
    /\ UNCHANGED <<faults, age, met, scan, uptime, gap, health>>

(* Mutant: faults do not keep a halt in force. *)
MayClearAnyway == state = "E_STOP"

MayClear == state = "E_STOP" /\ faults = {}

OnClear ==
    /\ MayClear
    /\ state' = "NOMINAL"
    /\ limit' = Limits("NOMINAL")
    /\ UNCHANGED <<faults, age, met, scan, uptime, gap, out, health>>

(* Mutant: max(min(x, m), -m) lets NaN through.                            *)
ClampNaN(m, x) ==
    IF x = NaN THEN NaN
    ELSE IF x > m THEN m
    ELSE IF x < -m THEN -m
    ELSE x

(* max(-m, min(m, x)): a comparison with NaN is false, so NaN becomes m.   *)
Clamp(m, x) ==
    IF x = NaN THEN m
    ELSE IF x > m THEN m
    ELSE IF x < -m THEN -m
    ELSE x

OnCmdVel(c) ==
    /\ out' = IF state \in Stopped THEN Still
              ELSE [a \in Axis |-> Clamp(limit[a], c[a])]
    /\ UNCHANGED <<state, faults, age, met, scan, uptime, gap, limit, health>>

(* _safety_loop and _publish_health.  The depth camera is reported with    *)
(* the colour camera's flag, the agent as present once it was ever heard.  *)
Ok(s) == uptime < Grace \/ age[s] < Timeout

(* Mutant: the loop moves a halted robot on as well. *)
AssessedAll(found) == IF found # {} THEN "DEGRADED" ELSE "NOMINAL"

Assessed(found) ==
    IF state \in Stopped THEN state
    ELSE IF found # {} THEN "DEGRADED"
    ELSE "NOMINAL"

SafetyLoop ==
    LET found == {s \in Critical : ~Ok(s)} IN
    /\ gap > 0
    /\ gap' = 0
    /\ faults' = found
    /\ state' = Assessed(found)
    /\ limit' = Limits(Assessed(found))
    /\ health' = [state |-> Assessed(found),
                  ok |-> [s \in Sensor |->
                             IF s = "depth" THEN Ok("camera") ELSE Ok(s)],
                  agent |-> met]
    /\ UNCHANGED <<age, met, scan, uptime, out>>

Next ==
    \/ Tick
    \/ OnLidar
    \/ \E s \in Sensor \ {"lidar"} : OnSensor(s)
    \/ OnAgentHeartbeat
    \/ OnEStop
    \/ OnClear
    \/ \E c \in Command : OnCmdVel(c)
    \/ SafetyLoop

Spec == MonitorInit /\ [][Next]_monitorVars

(* Time passes and the timer of the safety loop fires; nothing is assumed  *)
(* of the messages.                                                        *)
FairSpec == Spec /\ WF_monitorVars(Tick) /\ WF_monitorVars(SafetyLoop)

-----------------------------------------------------------------------------
(* FAULT and RECOVERY are declared (l. 50-51) but no handler enters them.  *)
TypeOK ==
    /\ state \in SafetyState \ {"RECOVERY", "FAULT"}
    /\ faults \subseteq Critical
    /\ age \in [Source -> Nat] /\ \A s \in Source : age[s] <= MaxAge[s]
    /\ met \in BOOLEAN
    /\ scan \in Scan
    /\ uptime \in 0 .. MaxUptime
    /\ gap \in 0 .. MaxGap
    /\ limit \in [Axis -> Nat]
    /\ out \in [Axis -> Int]
    /\ health \in {NoHealth} \cup
          [state : SafetyState, ok : [Sensor -> BOOLEAN], agent : BOOLEAN]

(* The monitor keeps the promise of the MotionGovernor to the motors: in   *)
(* E_STOP nothing but zero is published, the zero goes out with the halt   *)
(* and not with the next command, and no command - NaN included - exceeds  *)
(* the limits of the state (l. 210-222, 273-291).                          *)
Mode ==
    CASE state = "NOMINAL" -> "free"
      [] state = "DEGRADED" -> "slow"
      [] OTHER -> "halted"

Governor == INSTANCE MotionGovernor
    WITH Full <- Nominal, Slow <- Degraded, mode <- Mode, speed <- out

Governs == Governor!GovSpec

(* A robot may go at full speed only while every critical sensor was heard *)
(* less than Timeout before the last run of the safety loop, or in the     *)
(* first moments after the start.  It relates the loop's verdict, the      *)
(* clearing of a halt on that verdict, which may be old, and the clock     *)
(* (l. 196-205, 226-263).                                                  *)
FullSpeedIsFresh ==
    state = "NOMINAL" =>
        \/ uptime < MaxUptime
        \/ \A s \in Critical : age[s] < Timeout + MaxGap

(* A critical sensor that falls silent for good ends full speed for good,  *)
(* whatever halts are ordered and cleared (l. 233-262).                    *)
SilenceSlows ==
    \A s \in Critical :
        <>[](age[s] >= Timeout) => <>[](state # "NOMINAL")

(* l. 9 and l. 12: "Monitor all sensor health (timeout detection)",        *)
(* "Watchdog: all critical nodes must heartbeat at >= 1 Hz".  What the last *)
(* health message reports as working was heard recently.                   *)
HealthIsCurrent ==
    health # NoHealth /\ uptime = MaxUptime =>
        /\ \A s \in Sensor : health.ok[s] => age[s] < Timeout + MaxGap
        /\ health.agent => age["agent"] < WatchdogTimeout + MaxGap
=============================================================================
