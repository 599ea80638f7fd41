------------------------------- MODULE Teleop -------------------------------
(***************************************************************************)
(* The endpoints /teleop/command, /safety/e_stop and /safety/clear_e_stop  *)
(* of the gateway with TeleoperationFallback behind them.  Every request   *)
(* first passes the client's rate limiter, the emergency stop too.  The    *)
(* handlers are plain functions, which the framework runs in a pool of     *)
(* threads: they share one teleoperation session, without a lock.          *)
(*                                                                         *)
(* The velocity is what the operator asked for, within the limits of the   *)
(* robot, or zero; only whether it is zero is kept.  Other writers of the  *)
(* emergency stop and of a robot's status are those of SkillEngine.        *)
(***************************************************************************)
EXTENDS RateLimiter, FiniteSets

CONSTANTS
    Thread,     \* threads of the pool
    Known,      \* registered robots
    Stranger,   \* a robot_id that is not registered
    None        \* no session

VARIABLES
    pc,         \* thread -> what its handler is about to do
    wants,      \* thread -> cmd.robot_id
    active,     \* _active_teleop_robot
    busy,       \* robots that a session marked BUSY
    stopped,    \* the global emergency stop
    late        \* velocities other than zero answered since it was set

teleopVars == <<pc, wants, active, busy, stopped, late>>

ASSUME TeleopAssumption ==
    /\ IsFiniteSet(Thread) /\ Thread # {}
    /\ None \notin Known /\ Stranger \notin Known /\ None # Stranger

Asked == Known \cup {Stranger}

TeleopInit ==
    /\ RateInit
    /\ pc = [t \in Thread |-> "idle"]
    /\ wants = [t \in Thread |-> Stranger]
    /\ active = None
    /\ busy = {}
    /\ stopped = FALSE
    /\ late = 0

Goes(t, to) == pc' = [pc EXCEPT ![t] = to]

(* A request of the observed client costs it a token; the other clients    *)
(* have buckets of their own.                                              *)
Admitted == Allow \/ UNCHANGED rateVars

Command(t, r) ==
    /\ pc[t] = "idle"
    /\ Admitted
    /\ Goes(t, "check")
    /\ wants' = [wants EXCEPT ![t] = r]
    /\ UNCHANGED <<active, busy, stopped, late>>

EStop ==
    /\ Admitted
    /\ stopped' = TRUE
    /\ late' = IF stopped THEN late ELSE 0
    /\ UNCHANGED <<pc, wants, active, busy>>

ClearEStop ==
    /\ Admitted
    /\ stopped' = FALSE
    /\ UNCHANGED <<pc, wants, active, busy, late>>

(* Any other request with a limit, one without credentials, one refused,   *)
(* and time.                                                               *)
Elsewhere == Next /\ UNCHANGED teleopVars

(***************************************************************************)
(* process_teleop_command, read by read.                                   *)
(***************************************************************************)
(* Mutant: a command is not held against the emergency stop. *)
CheckNot(t) ==
    /\ pc[t] = "check"
    /\ Goes(t, "look")
    /\ UNCHANGED <<rateVars, wants, active, busy, stopped, late>>

Check(t) ==
    /\ pc[t] = "check"
    /\ Goes(t, IF stopped THEN "idle" ELSE "look")
    /\ UNCHANGED <<rateVars, wants, active, busy, stopped, late>>

(* Mutant: every command opens a session. *)
LookNot(t) ==
    /\ pc[t] = "look"
    /\ Goes(t, "start")
    /\ UNCHANGED <<rateVars, wants, active, busy, stopped, late>>

Look(t) ==
    /\ pc[t] = "look"
    /\ Goes(t, IF active = None THEN "start" ELSE "decide")
    /\ UNCHANGED <<rateVars, wants, active, busy, stopped, late>>

(* Mutant: a session with a robot that is not registered. *)
StartAny(t) ==
    /\ pc[t] = "start"
    /\ Goes(t, IF stopped THEN "decide" ELSE "engage")
    /\ UNCHANGED <<rateVars, wants, active, busy, stopped, late>>

(* start_teleop_session: its two refusals, then the session, then BUSY,    *)
(* whatever the status was.                                                *)
Start(t) ==
    /\ pc[t] = "start"
    /\ Goes(t, IF wants[t] \notin Known \/ stopped THEN "decide" ELSE "engage")
    /\ UNCHANGED <<rateVars, wants, active, busy, stopped, late>>

Engage(t) ==
    /\ pc[t] = "engage"
    /\ active' = wants[t]
    /\ Goes(t, "mark")
    /\ UNCHANGED <<rateVars, wants, busy, stopped, late>>

Mark(t) ==
    /\ pc[t] = "mark"
    /\ busy' = busy \cup {wants[t]}
    /\ Goes(t, "decide")
    /\ UNCHANGED <<rateVars, wants, active, stopped, late>>

(* Zero for another robot than that of the session, or with the deadman    *)
(* switch released; the emergency stop is not looked at again.             *)
Decide(t) ==
    /\ pc[t] = "decide"
    /\ \/ active = wants[t] /\ late' = late + (IF stopped THEN 1 ELSE 0)
       \/ UNCHANGED late
    /\ Goes(t, "idle")
    /\ UNCHANGED <<rateVars, wants, active, busy, stopped>>

TeleopNext ==
    \/ \E t \in Thread :
          \/ \E r \in Asked : Command(t, r)
          \/ Check(t) \/ Look(t) \/ Start(t) \/ Engage(t) \/ Mark(t) \/ Decide(t)
    \/ EStop
    \/ ClearEStop
    \/ Elsewhere

TeleopSpec == TeleopInit /\ [][TeleopNext]_<<rateVars, teleopVars>>

(***************************************************************************)
(* Properties                                                              *)
(***************************************************************************)
(* The variables keep their types; a session is one of a registered robot. *)
TeleopTypeOK ==
    /\ pc \in [Thread -> {"idle", "check", "look", "start", "engage", "mark",
                          "decide"}]
    /\ wants \in [Thread -> Asked]
    /\ active \in Known \cup {None}
    /\ busy \subseteq Known
    /\ stopped \in BOOLEAN
    /\ late \in Nat

(* After an emergency stop each thread of the pool answers at most one     *)
(* more velocity, that of the command it had already let in (TEL 66-118).  *)
LateBound == stopped => late <= Cardinality(Thread)

(* The first commands to two robots may both open a session: all but the   *)
(* last lose it and their robots stay BUSY, for no session ever ends in    *)
(* the gateway.  That happens to fewer robots than there are threads, and  *)
(* later commands do not add to them (TEL 51-53, 71-84).                   *)
Stranded == Cardinality(busy \ {active}) < Cardinality(Thread)
=============================================================================
