------------------------------ MODULE Factory ------------------------------
(***************************************************************************)
(* The demo factory: one command after another is planned (Planner), then  *)
(* executed by the skill engine, with the simulated bodies of              *)
(* SimulationBridge as the dispatch callback, as scripts/run_demos.py      *)
(* connects them.  The skills happen twice: the simulator does them to its *)
(* own robots and objects, and then the engine does them to the registry   *)
(* and the world model.  The module keeps both records.                    *)
(*                                                                         *)
(* Lengths count 5 cm.  Leases, the emergency stop and batteries are those *)
(* of SkillEngine, the clock of the simulator is that of SimBridge.  No    *)
(* command names a robot that it prefers.                                  *)
(***************************************************************************)
EXTENDS Planner, Integers

CONSTANTS
    Commands,   \* commands an operator may give, sets of keywords
    ModelPlans, \* plans a language model may answer
    MaxPlans,   \* bound on the number of commands
    MaxDown,    \* bound on the number of robots put out of service
    Null,       \* a place given as None
    Astray      \* the pose of a body whose navigation ended short

VARIABLES
    \* the brain
    phase,      \* what the engine is at
    heard,      \* the command being planned
    plan,       \* its steps
    next,       \* the step at which the engine is
    tries,      \* attempts at it that failed
    record,     \* status of the plan's ExecutionRecord
    status,     \* robot -> "IDLE", or "DOWN": E_STOPPED, FAULT or OFFLINE
    pose,       \* robot -> RobotBodySpec.pose
    world,      \* object -> WorldObject
    \* the simulator
    safe,       \* robot -> safe_state
    cut,        \* whether the network is disconnected
    simPose,    \* robot -> SimRobotState
    simWorld,   \* object -> SimObjectState
    \* bounds and history
    plans,      \* commands given
    downs,      \* robots put out of service
    parted,     \* why the brain and the simulator may disagree
    unreal,     \* whether a step was reported that the body did not do
    surprised,  \* robots put out of service while a plan was executed
    promised    \* whether the plan is the rules', and of what is there

brainVars == <<phase, heard, plan, next, tries, record, status, pose, world>>
simVars == <<safe, cut, simPose, simWorld>>
histVars == <<plans, downs, parted, unreal, surprised, promised>>
factoryVars == <<brainVars, simVars, histVars>>

Robot == {"ugv", "arm"}
Object == {"gen_01", "gen_02", "comp_01", "dock_01"}
Rank == [gen_01 |-> 1, gen_02 |-> 2, comp_01 |-> 3, dock_01 |-> 4]
Class == [gen_01 |-> "generator", gen_02 |-> "generator",
          comp_01 |-> "damaged_component", dock_01 |-> "charging_dock"]
Home == [ugv |-> <<0, 0>>, arm |-> <<-40, -120>>]
Place == [gen_01 |-> <<200, 40>>, gen_02 |-> <<200, -40>>,
          comp_01 |-> <<-40, -90>>, dock_01 |-> <<-200, 0>>]
Radius == [gen_01 |-> 16, gen_02 |-> 16, comp_01 |-> 6, dock_01 |-> 12]
Seed == [gen_01 |-> "UNINSPECTED", gen_02 |-> "UNINSPECTED",
         comp_01 |-> "WAITING_REMOVAL", dock_01 |-> "AVAILABLE"]
Damaged == {"gen_02"}       \* metadata: damaged and overheating
Nobody == "nobody"

Skill == {"navigate_to", "find_object", "follow_person", "patrol", "dock",
          "inspect", "report_status", "query_world", "wait", "arm_pick",
          "arm_place", "aerial_scan", "analyze_observation"}

(* A step as a plan may state it: of a skill that need not exist, about a  *)
(* class that need not occur here.                                         *)
Spot == Int \X Int
ClassName == {"generator", "valve", "box", "damaged_component", "charging_dock",
              "none"}
Step == [skill : Skill \cup {"unknown"}, class : ClassName,
         object : Object \cup {NoObject}, at : Spot \cup {NoPlace, Null}]

(* Null is of interest where a place may be left out, in arm_place: its    *)
(* target_x and target_y may be left out (NoPlace) or given as None.       *)
ASSUME FactoryAssumption ==
    /\ Commands \subseteq SUBSET Keyword
    /\ \A p \in ModelPlans :
          /\ p \in Seq(Step) /\ Len(p) \in 1 .. 20
          /\ \A i \in 1 .. Len(p) : p[i].at = Null => p[i].skill = "arm_place"
    /\ NoObject \notin Object
    /\ NoPlace \notin Spot /\ Null \notin Spot /\ Astray \notin Spot
    /\ NoPlace # Null

(* The skills in which the simulated body has a part.                      *)
Bodily == {"navigate_to", "find_object", "inspect", "arm_pick", "arm_place"}

(* SKILL_REQUIRED_CAPABILITIES and COMPATIBLE_BODY_TYPES_PER_SKILL, for    *)
(* the two bodies of the factory.                                          *)
Anyone == {"report_status", "query_world", "wait"}
Able == [ugv |-> Anyone \cup {"navigate_to", "find_object", "follow_person",
                              "patrol", "inspect", "analyze_observation"},
         arm |-> Anyone \cup {"inspect", "analyze_observation", "arm_pick",
                              "arm_place"}]
Retries(skill) ==
    CASE skill \in {"navigate_to", "arm_pick", "dock"} -> 2
      [] skill \in {"find_object", "inspect", "arm_place", "aerial_scan"} -> 1
      [] OTHER -> 0

Within(a, b, d) ==
    (a[1] - b[1]) * (a[1] - b[1]) + (a[2] - b[2]) * (a[2] - b[2]) <= d * d

(* The first in the order in which the objects were added.                 *)
FirstOf(S) ==
    IF S = {} THEN NoObject
    ELSE CHOOSE o \in S : \A q \in S : Rank[o] <= Rank[q]
OfClass(class) == {o \in Object : Class[o] = class}
HeldBy(objects, r) == {o \in Object : objects[o].holder = r}

FactoryInit ==
    /\ phase = "idle" /\ heard = {} /\ plan = <<>> /\ next = 1 /\ tries = 0
    /\ record = "none"
    /\ status = [r \in Robot |-> "IDLE"]
    /\ pose = Home
    /\ world = [o \in Object |-> [at |-> Place[o], state |-> Seed[o],
                                  holder |-> Nobody, hot |-> FALSE]]
    /\ safe = [r \in Robot |-> TRUE]
    /\ cut = FALSE
    /\ simPose = Home
    /\ simWorld = [o \in Object |-> [at |-> Place[o], holder |-> Nobody]]
    /\ plans = 0 /\ downs = 0
    /\ parted = {} /\ unreal = FALSE /\ surprised = {} /\ promised = FALSE

(***************************************************************************)
(* Planning                                                                *)
(***************************************************************************)
(* process_command and plan_task: a model that cannot be asked, or whose   *)
(* answer is no plan of 1 to 20 steps, is replaced by the rules, which     *)
(* plan for a command without keywords, too.  An empty one is rejected.    *)
Plan(words) ==
    /\ phase = "idle"
    /\ plans < MaxPlans
    /\ phase' = "planned"
    /\ plans' = plans + 1
    /\ \/ heard' = words /\ promised' = TRUE /\ plan' = Rules(words)
       \/ heard' = {} /\ promised' = FALSE /\ plan' \in ModelPlans
    /\ record' = "none"
    /\ UNCHANGED <<next, tries, status, pose, world, simVars, downs, parted,
                   unreal, surprised>>

Offered(skill) == {r \in Robot : status[r] = "IDLE" /\ skill \in Able[r]}

InFence(place) ==
    place # NoPlace => \A i \in 1 .. 2 : place[i] \in -1000 .. 1000

(* Mutant: nobody need be there for the step. *)
ValidUnmanned(step) ==
    /\ step.skill \in Skill
    /\ step.skill \in {"navigate_to", "patrol"} => InFence(step.at)

(* PlanValidator.validate, with the geofence of validate_task_step.        *)
Valid(step) ==
    /\ step.skill \in Skill
    /\ step.skill \in {"navigate_to", "patrol"} => InFence(step.at)
    /\ Offered(step.skill) # {}

(* _resolve_object_params, l. 610-639.                                     *)
Resolve(step) ==
    LET o == FirstOf(OfClass(step.class)) IN
    IF o = NoObject \/ step.skill \in {"query_world", "find_object"} THEN step
    ELSE [step EXCEPT
             !.object = IF @ = NoObject THEN o ELSE @,
             !.at = IF @ = NoPlace /\ step.skill = "navigate_to"
                    THEN world[o].at ELSE @]

(* The plan is about things of the factory, and what is to be picked up    *)
(* lies within the arm's reach.                                            *)
Promising ==
    \A i \in DOMAIN plan :
        LET o == FirstOf(OfClass(plan[i].class)) IN
        /\ plan[i].skill # "report_status" => o # NoObject
        /\ plan[i].skill = "arm_pick" => Within(world[o].at, Home["arm"], 30)

(* execute_plan up to its loop.                                            *)
Start ==
    /\ phase = "planned"
    /\ heard' = {}
    /\ \/ /\ \A i \in DOMAIN plan : Valid(plan[i])
          /\ plan' = [i \in DOMAIN plan |-> Resolve(plan[i])]
          /\ phase' = "running"
          /\ record' = "IN_PROGRESS"
          /\ promised' = (promised /\ Promising)
       \/ /\ ~ \A i \in DOMAIN plan : Valid(plan[i])
          /\ plan' = <<>>
          /\ phase' = "idle"
          /\ record' = "FAILED"
          /\ promised' = FALSE
    /\ next' = 1 /\ tries' = 0
    /\ UNCHANGED <<status, pose, world, simVars, plans, downs, parted, unreal,
                   surprised>>

(***************************************************************************)
(* Selection                                                               *)
(***************************************************************************)
(* l. 164-175: the place of a step, from its object when it has none.      *)
(* Null is not looked up: it is the target of arm_place, which is kept     *)
(* apart from x and y.                                                     *)
Where(step) ==
    IF step.at = NoPlace /\ step.object # NoObject
    THEN world[step.object].at ELSE step.at

(* find_robots_for_skill: a robot that cannot drive and is more than 3 m   *)
(* away comes last, otherwise the batteries decide; and with no candidate  *)
(* any robot, an idle one first (l. 180-184).                              *)
Distant(step) ==
    /\ step.skill \in {"inspect", "find_object", "analyze_observation"}
    /\ Where(step) \notin {NoPlace, Null}
    /\ ~Within(pose["arm"], Where(step), 60)

AnyBody == IF status["ugv"] = "IDLE" \/ status["arm"] # "IDLE" THEN "ugv" ELSE "arm"

Choice(step) ==
    LET offered == Offered(step.skill) IN
    IF offered = {} THEN {AnyBody}
    ELSE IF offered = Robot /\ Distant(step) THEN {"ugv"} ELSE offered

(* Where the brain believes that find_object leads (l. 336-342).           *)
Standoff(class) ==
    LET p == world[FirstOf(OfClass(class))].at IN <<p[1] - 20, p[2]>>

(***************************************************************************)
(* The simulated bodies: skill_dispatch.  What a skill does to the         *)
(* simulator, did telling its success and raised an exception.             *)
(***************************************************************************)
SimSame == [did |-> TRUE, raised |-> FALSE, pose |-> simPose, world |-> simWorld,
            safe |-> safe, why |-> {}]
SimFail == [SimSame EXCEPT !.did = FALSE]

At(r, place) == simPose[r] # Astray /\ Within(simPose[r], place, 3)

(* A navigation advances the clock by seconds: heartbeats run out and come *)
(* back meanwhile (see SimBridge), so that the body may stop short, and    *)
(* any body may be in safe state at its end.  The arm does not drive.  The *)
(* 15 cm that a navigation may end short of its place count as nothing: no *)
(* range below is missed by so little.                                     *)
Stops(r, place) == IF r = "arm" THEN {simPose[r]} ELSE {place, Astray}

Rode(r, place, p, s) ==
    [SimSame EXCEPT !.pose[r] = p, !.safe = s,
                    !.why = IF p = place THEN {} ELSE {"short"}]

Ride(r, place) ==
    IF At(r, place) THEN {SimSame}
    ELSE {Rode(r, place, p, s) : p \in Stops(r, place), s \in [Robot -> BOOLEAN]}

(* From a place that is not known, any distance is possible.               *)
SimReach(r, place, d) ==
    IF simPose[r] = Astray THEN {TRUE, FALSE} ELSE {Within(simPose[r], place, d)}

(* A body that has to turn to the object advances the clock, too.          *)
SimInspect(r, o) ==
    UNION {IF near THEN {[SimSame EXCEPT !.safe = s] : s \in [Robot -> BOOLEAN]}
           ELSE {SimFail} :
              near \in SimReach(r, simWorld[o].at, 60 + Radius[o])}

Gripper(r) == <<simPose[r][1] + 1, simPose[r][2]>>

(* Mutant: the simulated arm is a little shorter. *)
SimPickShort(r, o) ==
    IF r # "arm" \/ ~Within(simPose[r], simWorld[o].at, 29) THEN {SimFail}
    ELSE {[SimSame EXCEPT !.world[o] = [at |-> Gripper(r), holder |-> r]]}

SimPick(r, o) ==
    IF r # "arm" \/ ~Within(simPose[r], simWorld[o].at, 30) THEN {SimFail}
    ELSE {[SimSame EXCEPT !.world[o] = [at |-> Gripper(r), holder |-> r]]}

SimPlace(r, place) ==
    LET o == FirstOf(HeldBy(simWorld, r))
        to == IF place = NoPlace THEN <<simPose[r][1] + 10, simPose[r][2]>> ELSE place IN
    IF r # "arm" \/ o = NoObject THEN {SimFail}
    ELSE IF place = Null THEN {[SimFail EXCEPT !.raised = TRUE]}
    ELSE {[SimSame EXCEPT !.world[o] = [at |-> to, holder |-> Nobody]]}

(* find_object takes the nearest of its class, the brain the first         *)
(* (l. 378, ENG 336), and stops on the side that faces the origin.         *)
Distance2(a, b) == (a[1] - b[1]) * (a[1] - b[1]) + (a[2] - b[2]) * (a[2] - b[2])

Nearest(r, class) ==
    IF simPose[r] = Astray THEN OfClass(class)
    ELSE LET near == {o \in OfClass(class) : \A q \in OfClass(class) :
                         Distance2(simWorld[o].at, simPose[r])
                             <= Distance2(simWorld[q].at, simPose[r])} IN
         {o \in near : o = FirstOf(near)}

SimFind(r, class) ==
    IF OfClass(class) = {} THEN {SimFail}
    ELSE UNION {LET p == simWorld[o].at
                    stop == <<IF p[1] > 0 THEN p[1] - 20 ELSE p[1] + 20, p[2]>> IN
                {[out EXCEPT !.why = IF stop = Standoff(class) THEN @
                                     ELSE @ \cup {"standoff"}] :
                    out \in Ride(r, stop)} :
                o \in Nearest(r, class)}

(* What the other skills answer is not looked at; a wait advances the      *)
(* clock, too.                                                             *)
SimSkill(r, step) ==
    LET o == step.object IN
    IF step.skill \notin Bodily \cup {"wait"} THEN {SimSame}
    ELSE IF safe[r] THEN {[SimFail EXCEPT !.did = step.skill = "wait",
                                          !.why = {"safe"}]}
    ELSE CASE step.skill = "navigate_to" ->
                IF Where(step) = NoPlace THEN {[SimFail EXCEPT !.raised = TRUE]}
                ELSE Ride(r, Where(step))
           [] step.skill = "inspect" ->
                IF o = NoObject THEN {SimFail} ELSE SimInspect(r, o)
           [] step.skill = "arm_pick" ->
                IF o = NoObject THEN {SimFail} ELSE SimPick(r, o)
           [] step.skill = "arm_place" -> SimPlace(r, step.at)
           [] step.skill = "find_object" -> SimFind(r, step.class)
           [] OTHER -> {[SimSame EXCEPT !.safe = s] : s \in [Robot -> BOOLEAN]}

(***************************************************************************)
(* The brain: _run_skill_internal, with what a skill does to the registry  *)
(* and the world model.  escapes: it raises what nobody catches.           *)
(***************************************************************************)
Same == [ok |-> TRUE, escapes |-> FALSE, pose |-> pose, world |-> world]
Fail == [Same EXCEPT !.ok = FALSE]

Moves(r, place) == [Same EXCEPT !.pose[r] = place]
Becomes(o, item) == [Same EXCEPT !.world[o] = item]

(* The damaged generator is hotter than 70 degrees.                        *)
Inspect(r, o) ==
    IF ~Within(world[o].at, pose[r], 60) THEN Fail
    ELSE Becomes(o, [world[o] EXCEPT
                        !.state = IF o \in Damaged THEN "DAMAGED" ELSE "INSPECTED",
                        !.hot = (o \in Damaged)])

Analyze(o) ==
    Becomes(o, [world[o] EXCEPT
        !.state = IF world[o].hot \/ @ = "DAMAGED" \/ o \in Damaged
                  THEN "DAMAGED" ELSE "INSPECTED"])

Pick(r, o) ==
    IF r # "arm" \/ ~Within(world[o].at, pose[r], 30) THEN Fail
    ELSE Becomes(o, [world[o] EXCEPT !.at = pose[r], !.holder = r, !.state = "HELD"])

(* Mutant: the object that is put down is still held. *)
PutKeep(r, place) ==
    LET o == FirstOf(HeldBy(world, r))
        to == IF place = NoPlace THEN <<pose[r][1] + 10, pose[r][2]>> ELSE place IN
    IF r # "arm" THEN Fail
    ELSE IF place = Null THEN [Fail EXCEPT !.escapes = TRUE]
    ELSE IF o = NoObject THEN Fail
    ELSE Becomes(o, [world[o] EXCEPT !.at = to, !.state = "PLACED"])

Put(r, place) ==
    LET o == FirstOf(HeldBy(world, r))
        to == IF place = NoPlace THEN <<pose[r][1] + 10, pose[r][2]>> ELSE place IN
    IF r # "arm" THEN Fail
    ELSE IF place = Null THEN [Fail EXCEPT !.escapes = TRUE]
    ELSE IF o = NoObject THEN Fail
    ELSE Becomes(o, [world[o] EXCEPT !.at = to, !.holder = Nobody, !.state = "PLACED"])

BrainSkill(r, step) ==
    LET o == step.object IN
    CASE step.skill = "find_object" ->
           IF OfClass(step.class) = {} THEN Fail ELSE Moves(r, Standoff(step.class))
      [] step.skill = "navigate_to" ->
           IF Where(step) = NoPlace THEN Fail ELSE Moves(r, Where(step))
      [] step.skill = "inspect" -> IF o = NoObject THEN Fail ELSE Inspect(r, o)
      [] step.skill = "analyze_observation" -> IF o = NoObject THEN Fail ELSE Analyze(o)
      [] step.skill = "arm_pick" -> IF o = NoObject THEN Fail ELSE Pick(r, o)
      [] step.skill = "arm_place" -> Put(r, step.at)
      [] OTHER -> Same

(***************************************************************************)
(* An attempt at the step: select, dispatch, perform, count.  A dispatch   *)
(* fails only by raising; what did says is not looked at (l. 272-282).     *)
(***************************************************************************)
(* Mutant: a refused dispatch counts as a failure. *)
SucceedsDid(sim, brain) == sim.did /\ ~sim.raised /\ brain.ok

Succeeds(sim, brain) == ~sim.raised /\ brain.ok

Close(status0) == phase' = "idle" /\ record' = status0 /\ plan' = <<>>

(* Mutant: one attempt too many. *)
MayRetryMore(skill) == tries <= Retries(skill)

MayRetry(skill) == tries < Retries(skill)

(* Mutant: the attempts are not counted. *)
AgainUncounted == UNCHANGED <<phase, record, plan, next, tries>>

Again == tries' = tries + 1 /\ UNCHANGED <<phase, record, plan, next>>

Outcome(step, sim, brain) ==
    \/ /\ brain.escapes
       /\ Close("IN_PROGRESS")
       /\ next' = 1 /\ tries' = 0
    \/ /\ ~brain.escapes /\ Succeeds(sim, brain)
       /\ IF next = Len(plan) THEN Close("COMPLETED") /\ next' = 1
          ELSE next' = next + 1 /\ UNCHANGED <<phase, record, plan>>
       /\ tries' = 0
    \/ /\ ~brain.escapes /\ ~Succeeds(sim, brain)
       /\ IF MayRetry(step.skill) THEN Again
          ELSE Close("FAILED") /\ next' = 1 /\ tries' = 0

Attempt ==
    /\ phase = "running"
    /\ LET step == plan[next] IN
       \E r \in Choice(step) : \E sim \in SimSkill(r, step) :
          LET brain == BrainSkill(r, step) IN
          /\ simPose' = sim.pose /\ simWorld' = sim.world /\ safe' = sim.safe
          /\ pose' = brain.pose /\ world' = brain.world
          /\ status' = [status EXCEPT ![r] = "IDLE"]
          /\ Outcome(step, sim, brain)
          /\ parted' = parted \cup sim.why \cup
                       IF step.skill \in Able[r] THEN {} ELSE {"unable"}
          /\ unreal' = (unreal \/ (Succeeds(sim, brain) /\ ~sim.did))
    /\ UNCHANGED <<heard, cut, plans, downs, surprised, promised>>

(***************************************************************************)
(* What happens meanwhile                                                  *)
(***************************************************************************)
(* Telemetry or the watchdog puts a robot out of service.                  *)
Sideline(r) ==
    /\ downs < MaxDown
    /\ status[r] = "IDLE"
    /\ status' = [status EXCEPT ![r] = "DOWN"]
    /\ downs' = downs + 1
    /\ surprised' = IF phase = "running" THEN surprised \cup {r} ELSE surprised
    /\ UNCHANGED <<phase, heard, plan, next, tries, record, pose, world, simVars,
                   plans, parted, unreal, promised>>

(* The heartbeat thread publishes and ticks.                               *)
Beat ==
    /\ ~cut
    /\ safe' = [r \in Robot |-> FALSE]
    /\ UNCHANGED <<brainVars, cut, simPose, simWorld, histVars>>

(* simulate_network_disconnect and restore_network, between two plans.     *)
Disconnect ==
    /\ phase = "idle" /\ ~cut
    /\ cut' = TRUE
    /\ safe' = [r \in Robot |-> TRUE]
    /\ UNCHANGED <<brainVars, simPose, simWorld, histVars>>

Restore ==
    /\ phase = "idle" /\ cut
    /\ cut' = FALSE
    /\ safe' = [r \in Robot |-> FALSE]
    /\ UNCHANGED <<brainVars, simPose, simWorld, histVars>>

FactoryNext ==
    \/ \E words \in Commands : Plan(words)
    \/ Start
    \/ Attempt
    \/ \E r \in Robot : Sideline(r)
    \/ Beat
    \/ Disconnect
    \/ Restore

(* The engine runs to the end of a plan; nobody has to give commands.      *)
FactorySpec == FactoryInit /\ [][FactoryNext]_factoryVars /\ WF_factoryVars(Start \/ Attempt)

(***************************************************************************)
(* Properties                                                              *)
(***************************************************************************)
(* The variables keep their types.                                         *)
TypeOK ==
    /\ phase \in {"idle", "planned", "running"}
    /\ heard \subseteq Keyword
    /\ next \in 1 .. Len(plan) + 1 /\ tries \in 0 .. 2
    /\ phase = "running" => next <= Len(plan) /\ tries <= Retries(plan[next].skill)
    /\ record \in {"none", "IN_PROGRESS", "COMPLETED", "FAILED"}
    /\ status \in [Robot -> {"IDLE", "DOWN"}]
    /\ DOMAIN pose = Robot /\ \A r \in Robot : pose[r] \in Int \X Int
    /\ \A o \in Object :
          /\ world[o].state \in {"UNINSPECTED", "WAITING_REMOVAL", "AVAILABLE",
                                 "INSPECTED", "DAMAGED", "HELD", "PLACED"}
          /\ world[o].holder \in {"arm", Nobody}
          /\ simWorld[o].holder \in {"arm", Nobody}
    /\ safe \in [Robot -> BOOLEAN]
    /\ cut \in BOOLEAN
    /\ parted \subseteq {"safe", "short", "standoff", "unable"}

(* What a command asks for is in its plan, with the exceptions of          *)
(* _extract_objects: a report and "all" of something replace the rest, and *)
(* a search to inspect and pick up only searches (l. 113-145, 163-234).    *)
WorkKept ==
    LET asks(word) == word \in heard
        all == asks("all") /\ (asks("generator") \/ asks("inspect"))
        both == asks("find") /\ asks("inspect") /\ asks("pick")
        has(skill) == skill \in Skills(plan) IN
    phase = "planned" /\ promised =>
        /\ plan[Len(plan)].skill = "report_status"
        /\ Len(plan) <= 20
        /\ ~asks("report") =>
              /\ asks("inspect") /\ (all \/ ~both) => has("inspect")
              /\ ~all =>
                    /\ asks("find") => has("find_object")
                    /\ asks("pick") /\ ~both => has("arm_pick")

(* The two implementations of the skills, in the brain and in the          *)
(* simulator.  As long as no body was sent in safe state, nor one that     *)
(* cannot do the step, they agree on the arm, on where objects are, to the *)
(* 5 cm of the gripper, and on who holds what: navigations that end short  *)
(* and searches that choose another standoff spoil nothing but the place   *)
(* of the rover.  Without these they agree on the rover, too, to the 15 cm *)
(* at which a navigation ends, and no step is reported as done that was    *)
(* not (ENG 272-600, SIM 194-434).  The ranges of an inspection differ,    *)
(* but by more than that.                                                  *)
Agree ==
    /\ parted \cap {"safe", "unable"} = {} =>
          /\ simPose["arm"] = pose["arm"]
          /\ \A o \in Object : /\ simWorld[o].holder = world[o].holder
                               /\ Within(simWorld[o].at, world[o].at, 1)
    /\ parted = {} =>
          /\ ~unreal
          /\ simPose["ugv"] # Astray /\ Within(simPose["ugv"], pose["ugv"], 3)

(* The registry moves the arm from its pedestal only when the rover was    *)
(* put out of service while a plan was executed: the validator refuses     *)
(* what nobody can do, but the engine lets any body try (ENG 180-184).     *)
FixedArm == pose["arm"] # Home["arm"] => "ugv" \in surprised

(* A command planned by the rules that was validated is reported as        *)
(* completed, whatever the bodies answer, even when the network is cut,    *)
(* unless a robot was put out of service meanwhile (ENG 121-145, 281-296). *)
Completes ==
    phase = "idle" /\ promised /\ surprised = {} => record = "COMPLETED"

(* The three fields in which the world model says who holds an object go   *)
(* together: what is held is where the arm is and is HELD, until an        *)
(* inspection or analysis overwrites that; what is HELD is held; what was  *)
(* put down is held by nobody (ENG 388-433, 523-567).                      *)
Carried ==
    \A o \in Object :
        /\ world[o].holder # Nobody =>
              /\ surprised = {} => world[o].at = pose[world[o].holder]
              /\ world[o].state \in {"HELD", "INSPECTED", "DAMAGED"}
        /\ world[o].state = "HELD" => world[o].holder # Nobody
        /\ world[o].state = "PLACED" => world[o].holder = Nobody

(* Every plan comes to an end (ENG 123-145, 157-238).                      *)
Ends == phase = "planned" ~> phase = "idle"
=============================================================================
