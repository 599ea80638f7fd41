--------------------------- MODULE MotionGovernor ---------------------------
(***************************************************************************)
(* What the safety monitor of a robot body promises to whoever drives the  *)
(* motors from /cmd_vel_safe: a halt stops the robot at once and holds     *)
(* until it is released, and a robot that is not halted is only ever told  *)
(* a speed within the ceiling of its mode.  When the ceiling drops from    *)
(* full to slow the last speed stands until the next command.              *)
(***************************************************************************)
EXTENDS Integers

CONSTANTS
    Axis,       \* the components of a velocity
    Full,       \* ceiling of each component, robot free
    Slow        \* ceiling of each component, robot slowed down

VARIABLES
    mode,       \* "free", "slow" or "halted"
    speed       \* the last velocity told to the motors

govVars == <<mode, speed>>

Still == [a \in Axis |-> 0]

Ceiling ==
    CASE mode = "free" -> Full
      [] mode = "slow" -> Slow
      [] OTHER -> Still

Obeys(t, ceiling) ==
    /\ t \in [Axis -> Int]
    /\ \A a \in Axis : -ceiling[a] <= t[a] /\ t[a] <= ceiling[a]

GovInit == mode = "free" /\ speed = Still

Drive ==
    /\ mode # "halted"
    /\ Obeys(speed', Ceiling)
    /\ UNCHANGED mode

Halt == mode' = "halted" /\ speed' = Still

Assess ==
    /\ mode # "halted"
    /\ mode' \in {"free", "slow"}
    /\ UNCHANGED speed

Release ==
    /\ mode = "halted"
    /\ mode' = "free"
    /\ UNCHANGED speed

GovSpec == GovInit /\ [][Drive \/ Halt \/ Assess \/ Release]_govVars
=============================================================================
