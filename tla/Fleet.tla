------------------------------- MODULE Fleet -------------------------------
(***************************************************************************)
(* The robot registry of the central brain, and the callers that change it *)
(* behind the skill engine's back: robot discovery and telemetry from the  *)
(* ROS 2 bridge's spin thread, the heartbeat watchdog run by               *)
(* GET /api/v1/robots, and the global emergency stop of the REST gateway.  *)
(*                                                                         *)
(* The registry maps a robot id to a RobotBodySpec OBJECT.  Registering a  *)
(* robot a second time installs a new object (no lease, IDLE) while other  *)
(* threads may still hold the old one, so objects have an identity here:   *)
(* they are numbered in the order in which they were registered.           *)
(***************************************************************************)
EXTENDS Naturals

CONSTANTS
    Robot,      \* robot ids
    MaxBody,    \* bound on the number of registrations
    Flag,       \* flags a telemetry packet may raise, a subset of PacketFlag
    Level,      \* battery levels it may report, a subset of Charge
    Rediscovery,\* whether a robot may be registered again
    NoLease     \* active_lease_id = None

VARIABLES
    registry,   \* self._robots: robot id -> object, 0 when not registered
    made,       \* number of RobotBodySpec objects registered so far
    lease,      \* object -> active_lease_id
    status,     \* object -> status
    battery,    \* object -> which side of the 15 % threshold
    reported,   \* robot id -> flag of its last telemetry packet
    estop       \* PolicySupervisor._global_e_stop

fleetVars == <<registry, made, lease, status, battery, reported, estop>>

RobotStatus == {"IDLE", "BUSY", "E_STOPPED", "FAULT", "OFFLINE"}
PacketFlag == {"clear", "e_stop", "fault"}
Charge == {"ok", "low"}
Body == 1 .. MaxBody

ASSUME FleetAssumption ==
    /\ MaxBody \in Nat
    /\ Flag \subseteq PacketFlag
    /\ Level \subseteq Charge
    /\ Rediscovery \in BOOLEAN

Registered == {r \in Robot : registry[r] # 0}

FleetInit ==
    /\ registry = [r \in Robot |-> 0]
    /\ made = 0
    /\ lease = [b \in Body |-> NoLease]
    /\ status = [b \in Body |-> "IDLE"]
    /\ battery = [b \in Body |-> "ok"]
    /\ reported = [r \in Robot |-> "clear"]
    /\ estop = FALSE

(* register_robot: the new object replaces whatever was registered under   *)
(* the id, lease and status included.  The threads that hold the old       *)
(* object keep it.                                                         *)
Register(r) ==
    /\ made < MaxBody
    /\ Rediscovery \/ registry[r] = 0
    /\ made' = made + 1
    /\ registry' = [registry EXCEPT ![r] = made + 1]
    /\ UNCHANGED <<lease, status, battery, reported, estop>>

(* process_telemetry: the packet is kept, and the registry's object gets   *)
(* its battery level, but a status only when the packet raises a flag: a   *)
(* clear packet leaves E_STOPPED, FAULT and OFFLINE as they are.           *)
FlagStatus == [e_stop |-> "E_STOPPED", fault |-> "FAULT"]

Telemetry(r, f, level) ==
    LET b == registry[r] IN
    /\ reported' = [reported EXCEPT ![r] = f]
    /\ battery' = IF b = 0 THEN battery ELSE [battery EXCEPT ![b] = level]
    /\ status' = IF b = 0 \/ f = "clear" THEN status
                 ELSE [status EXCEPT ![b] = FlagStatus[f]]
    /\ UNCHANGED <<registry, made, lease, estop>>

(* update_heartbeat_watchdog finds no heartbeat of r within the timeout.   *)
(* Time is left out: any heartbeat may be late.                            *)
Watchdog(r) ==
    LET b == registry[r] IN
    /\ b # 0
    /\ status[b] # "OFFLINE"
    /\ status' = [status EXCEPT ![b] = "OFFLINE"]
    /\ UNCHANGED <<registry, made, lease, battery, reported, estop>>

TriggerEStop ==
    /\ estop' = TRUE
    /\ UNCHANGED <<registry, made, lease, status, battery, reported>>

ClearEStop ==
    /\ estop' = FALSE
    /\ UNCHANGED <<registry, made, lease, status, battery, reported>>

FleetNext ==
    \/ \E r \in Robot :
          \/ Register(r)
          \/ \E f \in Flag, level \in Level : Telemetry(r, f, level)
          \/ Watchdog(r)
    \/ TriggerEStop
    \/ ClearEStop

FleetTypeOK ==
    /\ registry \in [Robot -> 0 .. MaxBody]
    /\ made \in 0 .. MaxBody
    /\ status \in [Body -> RobotStatus]
    /\ battery \in [Body -> Charge]
    /\ reported \in [Robot -> PacketFlag]
    /\ estop \in BOOLEAN
=============================================================================
