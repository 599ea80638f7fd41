# A model of the FrontierX robot stack

This directory holds a TLA+ model of the central brain that turns operator
commands into skills of a robot fleet, and of the node that guards the motors of
each body. TLC checks it on small instances, TLAPS proves part of it for every
instance. Paths below are relative to `src/`; `brain/` abbreviates
`src/frontierx_brain/frontierx_brain/`.

## The system

One process, the *brain*, serves a REST API, keeps a registry of robots, plans
tasks and executes them skill by skill. Each robot body runs ROS 2 nodes: an
agent with a language model of its own and a safety monitor in front of the
motors. A simulated body (`sim/simulation_bridge.py`) can replace the ROS bridge.

| Component | State it keeps | Operations | Correct when |
|---|---|---|---|
| Robot registry, `brain/registry/robot_registry.py` | id -> `RobotBodySpec` (status, battery, `active_lease_id`) | register, update_telemetry, heartbeat watchdog, list | status and lease say what is true of the body |
| State monitor, `brain/monitor/state_monitor.py` | last packet of each robot | process_telemetry | an alarm reaches the registry |
| ROS bridge, `brain/ros/ros2_bridge.py` | node, publishers | discovery, telemetry, dispatch | a command reaches the robot it is for |
| Policy supervisor, `brain/safety/policy_supervisor.py` | global emergency stop | trigger, clear, validate_task_step | nothing unsafe passes the gate |
| Orchestrator, `brain/orchestrator/multi_robot_orchestrator.py` | leases | acquire_lease, release_lease | one task per body |
| Skill engine, `brain/executor/skill_engine.py` | `_active_leases_by_robot`, a call stack per plan | execute_plan, attempts, retries, release | plans end, robots are given back, no command after a stop |
| Plan validator, `brain/executor/plan_validator.py` | none | validate | refuses what cannot be executed |
| Skill and capability registries | constant tables | find_robots_for_skill | offers only capable robots |
| Task memory, `brain/memory/task_memory.py` | records, findings | record_start, record_complete, ... | the record agrees with the execution |
| REST gateway, `brain/api/gateway.py` | the objects above | one endpoint per operation, in threads | requests do not disturb each other |
| Authentication, `brain/api/auth.py` | a token bucket per client | check_rate_limit | bounded rate, no starvation |
| Safety monitor, `src/frontierx_diagnostics/.../safety_monitor_node.py` | safety state, sensor times, limits | sensor callbacks, e-stop, cmd_vel, 10 Hz loop | the motors never get what the state forbids |
| Robot agent, `src/frontierx_robot_agent/.../agent_node.py` | current goal, last health | commands, results, heartbeat | acts only when safe, one goal at a time |
| Teleoperation, `brain/teleop/teleop_fallback.py` | sessions | start, drive, stop, deadman | an operator and a plan never drive one body |
| Simulation bridge, `brain/sim/simulation_bridge.py` | bodies, clock, heartbeats | dispatch, tick, deadman | a body without a heartbeat stands still |
| World model, `brain/world/world_model.py` | objects and their states | update, effects of skills | an object is in one place |
| Command interface and planner, `brain/ai/` | none | plan_task, the rules that stand in for a model | the plan does what the command asks |

How they interact. The gateway's endpoints are plain `def` functions, so the web
framework runs every request in a thread of its pool; all threads share one
engine, one orchestrator and one registry, without a lock. The bridge's spin
thread writes the registry while they run. The engine calls, in this order, the
registry (who can do the skill), the orchestrator (lease), the supervisor (gate),
the dispatch callback (bridge) and the orchestrator again (release).
In the demos the dispatch callback is the simulated body, which keeps a record of robots
and objects of its own. An operator's velocities pass the limiter and the teleoperation
fallback, neither of which knows of plans or leases.
On a body, `rclpy.spin` runs the callbacks of a node one at a time; nodes
exchange messages, sensor topics with best effort.

What is hard. Two requests that interleave between a test and a write
(`acquire_lease`, `_release_all_leases`); telemetry, watchdog and rediscovery that
change a robot between its selection and its command; an emergency stop that
arrives between the gate and the dispatch; attempts that fail half-way and must
give everything back; a loop whose bound does not count lease conflicts; sensors
that fall silent, verdicts that are a period old when they are used; NaN in a
velocity; two threads that advance one simulated clock; two implementations of every skill,
in the brain and in the simulator, that are meant to agree; an agent whose only thread waits
for a language model while stop reports queue up; two operators that both open the one
teleoperation session. `PROJECT.json` lists each of these as a hazard, at its line.

## The modules

| Module | Models | Kind |
|---|---|---|
| `Fleet` | registry, state monitor, bridge callbacks, emergency stop | component, extended by `SkillEngine` |
| `SkillEngine` | `execute_plan` and everything it calls, one thread per plan | composition of engine, orchestrator, gate and fleet |
| `MCSkillEngine` | scripts, skills and retry tables for TLC | instances |
| `SkillEngineProofs` | types, emergency stop, bookings | proofs |
| `SkillEngineSerialProofs` | leases and robots when plans are served one at a time | proofs |
| `MotionGovernor` | what a safety monitor promises to the motors | abstract specification |
| `SafetyMonitor` | every callback of the safety monitor node | component, implements `MotionGovernor` |
| `MCSafetyMonitor` | speeds and commands for TLC | instances |
| `SafetyMonitorProofs` | types, the refinement, freshness | proofs |
| `RateLimiter` | the token bucket of `auth.py` | component |
| `RateLimiterProofs` | how much passes, how long one waits | proofs |
| `SimBridge` | clock, deadman, heartbeat thread and skills of the simulated bodies | component |
| `SimBridgeProofs` | types, motion only with a heartbeat, the outage | proofs |
| `Planner` | the rule-based planner, from keywords to steps | pure operators, extended by `Factory` |
| `Factory` | command, plan, execution, effects on registry, world model and simulator | composition of planner, engine and simulated bodies |
| `MCFactory` | commands and model plans for TLC | instances |
| `FactoryProofs` | types, the arm on its pedestal, what is held | proofs |
| `RobotAgent` | the agent node of a body and the executor that runs its callbacks | component |
| `RobotAgentProofs` | types, what is executing, goals after a stop | proofs |
| `Teleop` | the teleoperation and emergency-stop endpoints behind the limiter | composition, extends `RateLimiter` |
| `MCTeleop` | symmetry for TLC | instances |
| `TeleopProofs` | types, velocities after a stop, stranded robots | proofs |

### Fleet and SkillEngine

A plan `p` of the model is the thread that serves one request. `pc[p]` names the
next access the thread makes to something it shares with other threads; what it
does between two such accesses is local and belongs to the action before. So
`acquire_lease` is three actions: `Check` reads `active_lease_id` (l. 44), `Grant`
writes it (l. 49), `MarkBusy` writes the status (l. 50). `release_lease` is
`Compare`, `Clear`, `Settle`, `MarkIdle`; a status that a packet or the watchdog writes between the
test for `BUSY` (l. 60) and the write of `IDLE` (l. 61) is lost. `_release_all_leases` is `Snapshot`, a `Sweep` and a
release for every entry of the copy, and `Wipe`. `Caller` is the return address
of `release_lease`.

`RobotBodySpec` objects have an identity, a number, because registering a robot
again installs a new object while a thread may hold the old one: `body[p]` is the
object the engine selected and later gates on, `target[p]` the one the
orchestrator looked up by id.

The constant `Overlap` chooses between two uses of the code. `FALSE` is that of
the demos, the tests and the standalone launcher: one plan after the other. `TRUE` is
the REST gateway's thread pool.

Abstractions. The scores that order candidates are left out: any candidate may
come first. Any heartbeat may be late. Snapshots such as `list_robots()` are
atomic. A skill's effect is its outcome (succeeds, fails, raises) and the battery it
uses. Plan text (locations, objects, forbidden words) decides nothing here:
only the checks that depend on the fleet are in `Valid` and `Safe`.
`orchestrator._leases` is written and never read, so it has no variable. `FAULT` needs
a packet with `has_fault`, which the bridge never sets, so the runs raise only
`e_stop`. `CHARGING` is never set. `unregister_robot` and
`reserve_spatial_zone` have no callers. A REST client that registers a robot with
a lease or status of its own making, and the gateway's validation before
`execute_plan` (l. 302), are left out. The bridge's dispatch returns before the body
has acted, so `perform` stands for the brain's side of the skill only.

`late` is a history variable: the commands `p` has sent since the emergency stop
was set. `LeaseOf(p)` replaces `uuid4`: a plan is granted at most one lease per
attempt at a step, so plan, step and attempt identify it.

### SafetyMonitor and MotionGovernor

A tick is one period of the 10 Hz loop. `age[s]` counts ticks since the source was
heard, up to a cap beyond every comparison of the code; a sensor never heard is as
old as the cap, which is how `_last_*_t = 0.0` behaves. `MaxGap` bounds the lateness of the
loop: `Tick` waits when the loop is due. `scan = "none"` includes an obstacle
nearer than `range_min`, because the code drops such ranges. The watchdog callback
only logs. `_active_faults` is kept as the set of sensors that timed out.

`MotionGovernor` says what the motors may rely on: a halt zeroes the velocity in
the same step and holds until it is released; any other command is within the
ceiling of the mode, component by component. `SafetyMonitor` implements it with
`mode <- Mode, speed <- out`.

### RateLimiter

Tokens are counted in units of `1 / Period`, so the arithmetic is exact where the
code uses floats. `check_rate_limit` is a coroutine without an `await`: its calls do not
interleave. Clients have separate buckets, so one stands for all. `since` and
`passed` belong to an observer who may begin to count at any moment (`Observe`),
`waited` counts from the last request that passed. The clock does not step back.

### SimBridge

Two threads: `beat` is `HeartbeatPublisher._run`, `main` the caller of
`dispatch_skill`, `simulate_network_disconnect` and `restore_network`. Both publish
heartbeats (`Stamp`, then one `Renew` per body, l. 125-131, without the lock) and both
tick (l. 156-190): `Advance` adds to `_time` outside the lock, `Check` and `Move` each hold it.
`_time +=` is one step, because CPython switches threads only at calls and backward
jumps. `check_deadman_safe_state` compares many bodies with `_time` in one hold of the lock;
a reading per body would only matter if the other thread advanced the clock within it.

Times are ages, counted from the present up to the cap `MaxAge`: `age[r]` is the time since
`heartbeat_expires_at` of `r` was renewed, `stale` the time since
`_last_brain_heartbeat_at`. `back` is the return address of a tick or heartbeat of `main`.

A position is the number of strides to the navigation target; a body that moves
may come a stride nearer or not, as it turns first, and an arm never does. What skills do
to objects, batteries and findings is reduced to success or failure; the standoff of
`find_object` is a navigation, whose refusal `find_object` does not look at (l. 382), which is
the `ok` without a tick in `Enter`. `active_skill` and `skill_deadline` are never set, so
l. 187-190 never act. The join in `stop` is waited for to its end, not for one second.
`restore_network` is called only after a disconnection; otherwise it would start a second
heartbeat thread.

`tripped` is a history variable: the body went into safe state during the navigation under
way, short of its target.

The simulator starts as `seed_demo_factory` leaves it: in safe state, since
its tick comes before its heartbeat and `add_robot` leaves an expiry of 0. The comment in `__init__` (l. 489)
says otherwise, but at that point there are no robots yet. After a plain `stop` nobody
ticks any more, so no body goes into safe state then, contrary to the docstring of
`HeartbeatPublisher`.

### Planner and Factory

`Factory` is one operator's session with the demo factory: `Plan` (`process_command` and
`plan_task`), `Start` (`execute_plan` up to its loop: validation and parameter resolution),
then one `Attempt` per turn of the loop in `_execute_step_with_retry`. Nothing else runs
between the reads and writes of an attempt that this module keeps, as leases, batteries and the
emergency stop are those of `SkillEngine`, so an attempt is one step. Telemetry and the watchdog
may put a robot out of service between attempts (`Sideline`), the heartbeat thread may
publish (`Beat`), and the network may be cut between plans.

Every skill happens twice in the code: `SimSkill` is `SimulationBridge.skill_dispatch`, with
its own bodies and objects (`simPose`, `simWorld`); `BrainSkill` is the engine's
`_run_skill_internal`, on the registry and the world model (`pose`, `world`). `Agree` relates
the two records: the rover's places to within 15 cm, the objects' to within 5 cm (an object that is
held is at the gripper for the simulator and at the arm for the brain), the arm's and the holders exactly, and
no step reported as done that no body did. It asks for the rover and for what was done only as long as
`parted` is empty; the arm, the objects and the holders have to agree even after drives that ended short and searches
that led elsewhere, which spoil no more than the rover's place. The simulated sensor reaches farther than the brain asks, by the
object's radius of at least 30 cm, so a rover 15 cm off is not refused, and a refusal is no excuse for `Agree`.

The geometry is the code's, counted in lengths of 5 cm, which every distance that decides
something is a multiple of, the 5 cm of the gripper among them. A navigation that ends within
15 cm of its place is counted as arriving there, since no range below is missed by so little, and
`Agree` asks no more of a rover's place than these 15 cm.
`Astray` is any other place a navigation may end at. The time of a navigation, a wait or a turn is not counted,
so at its end any body may or may not be in safe state: `SimBridge` says when that
happens. No command names a robot that it prefers. A robot that is chosen by its battery
may be any of the candidates.

`Planner` reduces a command to the keywords it contains, synonyms counted as one. Each of
the 256 sets of eight keywords is a command (`box` is left out of the run, for the factory holds
neither boxes nor valves and one absent class is enough). A language model may answer any
of a set of plans, chosen to reach what the rules never plan: putting down, at a place given,
left out or null, objects by name, a drive beyond the geofence, an unknown skill.

`parted` is a history variable: the reasons for which the two records may differ so far.
`unreal` says that a step was reported as done that the body did not do, `surprised` holds the robots
put out of service while a plan was executed, `promised` says that a plan is the rules' own
and about things that are there.

### RobotAgent

Commands are numbered in the order of sending; `fate[c]` is what became of each. The two
subscription queues have the depths of their QoS profiles and drop the oldest. `Round` is
rclpy's wait set: it marks the subscriptions that have a message, and each marked one is called
once, in any order, before the next round. `OnCommand` is the handler up to the language model,
and `Unplanned`, `Dispatch` and `Crash` what it does after; the node is blocked between (`planning`),
messages arrive meanwhile. Goal responses and results are callbacks of their own that the executor
runs between the others. The plan's contents are reduced to whether there is a valid one. A best
effort report that is lost is one that is not sent. `current` is written and never read there; here it
says which goal `executing` is meant to be about, and the history variable `rivals` which goals were open when that
one was sent.

`late` is a history variable: the goals sent since a stop became the newest report.

### Teleop

The handlers of `/teleop/command`, `/safety/e_stop` and `/safety/clear_e_stop` are plain functions,
so each request has a thread. `Command` passes the limiter and enters `process_teleop_command`;
`Check`, `Look`, `Start`, `Engage`, `Mark` and `Decide` are its reads and writes of the shared
session, status and stop, in their order. The observed client pays with a token; other clients have
buckets of their own, so their requests cost it nothing. Velocities are reduced to whether
they are zero. `late` counts the others answered since the stop was set. `stop_teleop_session` and
`check_deadman_timeout` have no action: no endpoint calls them.

## The runs

| Run | Instance | Shows |
|---|---|---|
| `engine_serial` | two plans of 2 and 1 steps, one after the other, 2 bodies, 2 registrations, one retry, all outcomes | types; a plan leaves nothing leased, booked or BUSY (`QuiescentFree`), even when the body was registered again while leased; who is commanded is booked and leased and not on offer, or was registered again and is free (`CommandedIsLeased`); no turn of the retry loop is wasted on a leased robot (`TurnsCount`); plans end (`PlansEnd`) |
| `engine_overlap` | two threads, 2 bodies, batteries that run low | at most one late command per plan (`EStopBound`); every booking is in use (`BookingsInUse`) |
| `engine_shared` | two threads, 1 body | *violated* `OneTaskPerBody` |
| `engine_local_stop` | 1 plan, 1 body | *violated* `LocalStopBlocks` |
| `engine_spin` | two threads, 1 body | *violated* `PlansEnd` |
| `monitor` | timeout 2, grace 1, loop every tick | types, `Governs`, `FullSpeedIsFresh`, `SilenceSlows` |
| `monitor_health` | timeout 2, watchdog 3, grace 2 | *violated* `HealthIsCurrent` |
| `rate` | limiter of 3 requests per 5 ticks, windows up to 6 ticks; 2 threads, 3 robots | types; the limiter in use by the handlers (`WindowBound`, `WaitIsShort`); at most one velocity per thread after a stop (`LateBound`); fewer robots stranded in a session than threads (`Stranded`) |
| `sim` | 2 bodies, deadman 4, beat 2, a wait of 5, navigation of at most 6 steps | types, `MovesOnlyAlive`, `OutageHolds`, `Reconnects`, `CallsReturn` |
| `sim_cancel` | 1 body, navigation of at most 7 steps | *violated* `SafeStateCancels` |
| `agent` | 5 commands, one blank; queues of two | types; few goals after a stop (`StopBound`); the heartbeat says executing exactly while the last goal and its rivals are open (`ExecutingIsExact`); nothing is answered twice, or sent after its answer (`SettledOnce`); commands are answered (`Settles`) |
| `factory` | 2 commands of 256 or 10 model plans, 1 robot put out of service | types; a plan does what the command asks (`WorkKept`); brain and simulator agree (`Agree`); the arm stays on its pedestal (`FixedArm`); plans complete (`Completes`) and end (`Ends`); an object's place, holder and state fit together (`Carried`) |

Bounds, and why they are enough. Two threads are what a race needs: every
interference the engine can suffer comes from one other plan, the fleet or
the emergency stop, and all three act at any point. Two bodies make the fallback
of `Choice` possible, two registrations the replacement of a leased object.
Two steps and one retry reach every way `Advance` can go. In the monitor, a timeout
of 2 with a loop in every tick separates *fresh*, *timed out* and *late
verdict*; three commands cover zero, out of bounds and NaN. In the limiter, windows of 6 ticks
are longer than a period, and a bucket of 3 fills, empties and fills again (the clock itself is not bounded);
the three robots are one more than two threads can mark at once. For the agent, five commands overflow a
queue of two while one is planned and two goals are open. In the factory, two plans are what
it takes to inspect an object that was put down or to put one down that was picked up by an
earlier plan; one robot out of service leaves the other as the only fallback. In the simulator
the order of the intervals is that of the code (step < beat < deadman < wait), a
navigation can outlast the deadman, and with two bodies the heartbeat of one can be
renewed while the other is checked.

Fairness. The engine's is weak fairness of each thread that has begun: the
interpreter's scheduler does not starve a runnable thread, and no thread waits for
another inside the code. Beginning is not fair: a request may
never come. The fleet is not fair either. The monitor's is weak fairness of
time and of the loop's timer; nothing is assumed of the messages, which may be lost.
The simulator's is weak fairness of both threads; nobody has to call anything, and
`Reconnects` is about an execution whose main thread falls quiet. While it does not, one
body's recovery can be put off for ever by waits longer than the deadman.

The agent's is weak fairness of its executor, of the model, which answers or raises, and of the
action server, which answers every goal. The last two are assumed of other programs: `ollama.chat` is
called without a timeout (l. 353), and without an answer the node stands still for ever. Nobody has to send
commands or reports. The factory's is weak fairness of the engine's own thread. `Teleop` has only
safety properties and needs none.

### What the violated runs say

* `engine_shared`: both plans pass l. 44 of the orchestrator before either writes (TLC's trace),
  or plan 1 ends and its `_release_all_leases` (l. 664) frees the lease plan 2 holds; then two
  plans perform skills on the same body. `docs/01-system-architecture.md:248` says leases
  prevent that.
* `engine_local_stop`: the fallback at l. 184 picks a robot in `E_STOPPED`, taking the
  lease overwrites the status with `BUSY`, and the gate, which looks for
  `E_STOPPED`, lets the step pass. Line 249 of the same document says a local e-stop
  blocks execution.
* `engine_spin`: plan 2's `Wipe` empties the table after plan 1 has taken a lease
  and booked it; plan 1 finds nothing to release, the lease stays on the robot, and the
  next request for it goes round `attempt += 0` (l. 206) for ever, although
  every thread is scheduled. The module's header says retries are bounded.
* `monitor_health`: an agent that was heard once is reported as working for ever, the depth
  camera is reported with the colour camera's flag. The node's header promises
  timeout detection for all sensors and a watchdog for all critical nodes.
* `sim_cancel`: the navigation loop (l. 214) advances the clock itself and never asks for
  `safe_state`. When the heartbeat expires on the way the body stops, the loop goes on, and
  whether the body gets going again or the 20 seconds run out, the answer is
  success. The module's header (l. 17-20) says safe state cancels an active navigation.

### What the passing runs rest on

The hypotheses of the passing properties name what the code does not promise. TLC
finds a violation when one of them is dropped.

* `Agree` fails, for the objects too, once a body was in safe state: the engine takes a dispatch for failed only if
  it raises or its answer has an `error` key (l. 277), and the simulator refuses with
  `success: False`. A drive can even move the rover by a few centimetres, be stopped by the deadman,
  and be answered with success; the inspection that follows is refused in safe state, and
  the brain still records it and reports `COMPLETED`. For the same reason `Completes` holds with
  the network cut.
* `Agree` also fails, for the rover and for what was done, when a search was made by a rover on the far side of an object: the simulator
  stops short of the object on the side of the origin and goes to the nearest of its class, the brain
  believes in the first one, and always on its near side in x.
* `FixedArm` needs `surprised`: with the rover gone the engine falls back on any body, an arm is given a drive,
  and the registry moves it.
* `Completes` needs `promised`: a plan about valves, or for a component out of the
  arm's reach, fails; `arm_place` with `target_x` null raises in `_run_skill_internal`, outside every handler,
  and the record stays `IN_PROGRESS` (`Ends` holds all the same).
* `WorkKept` lists what the rules drop: "find, inspect and pick" only searches, a report replaces
  everything else. "inspect all" visits the first generator only (engine l. 623), and a command without
  any keyword sends the rover to inspect it, which the model contains and no property forbids.
* `StopBound` is no smaller than the queue of reports: the handler looks at the last report *read*.
  A stop can wait behind `HealthDepth - 1` older ones, each round reads one report and starts one
  command, and the gate is not asked again after the model has answered.
* `ExecutingIsExact` says what the shared flag is worth: the end of an older goal, by its result or its rejection,
  clears it while the newer one goes on. Without `rivals` it fails.
* `CommandedIsLeased` needs its second case: a body that is registered again while it is commanded is neither leased nor
  `BUSY`, and a second plan could have it (only `~Overlap` keeps one away).
* `Carried` allows a held object to be `INSPECTED` or `DAMAGED`: an inspection overwrites `HELD`.
* `Settles` excepts commands pushed out of the queue and a node that died: JSON that is not
  an object (l. 370) raises what nothing catches.
* `Stranded` counts robots that stay `BUSY` for ever: two threads may both find no session, the second
  overwrites the first, and no endpoint ends a session.

Some facts met on the way are outside these models. The planner cuts a model's command at its first
apostrophe (`llm_provider.py` l. 150). NaN asked of the teleoperation fallback comes out at full
speed (l. 105). The emergency stop passes the same limiter as the stream of velocities (`gateway.py`
l. 373), so it may be refused for the time `WaitIsShort` states. `docs/03:101` names a
`task_executor_node` that the repository does not contain; `docs/03:118` calls
`/robot_health` reliable, the agent subscribes with best effort (l. 219).

## The proofs

All theorems assume only the named assumptions of the modules (types of the
constants, a positive timeout and grace, degraded limits not above nominal
ones, NaN not an integer, a model's plans well-formed and of 1 to 20 steps), and three of them
`~Overlap`.

* `TypeCorrect`: `Spec => []TypeOK`. `TypeOK` is not inductive: that `sweeps` stays a
  natural number needs that a thread in `_release_all_leases` still owes a call
  (`SweepsOwed`), that functions are applied within their domain needs that a thread
  past its selection knows its robot (`RobotChosen`).
* `EStopBounded`: `Spec => []EStopBound`, by `LateInv`: a thread between gate and dispatch has
  sent nothing since the stop was set, because the gate was passed while it was off.
* `BookingsAlwaysInUse`: `Spec => []BookingsInUse`. Inductive given the types; the cases that matter
  are `Book`, `Pop` and `Wipe`, every other action leaves table, robot, step and attempt alone.
* `QuiescentAlwaysFree`, `CommandedAlwaysLeased`: under `~Overlap`, by `SerialInv`. At most one plan
  runs; the registry only holds objects that have been created; every registered object except the one that plan is
  at work on is clean (no lease, not BUSY on its account); and what the table, the lease and the status of
  that one are follows from the plan's `pc`. The last two must be about objects, not robots, as a body
  may be registered again while it is leased: `CommandedAlwaysLeased` says of the new object that it is clean, and of
  the old one that it is the plan's. Without `~Overlap` both fail (`engine_shared`, `engine_spin`).
* `TurnsAlwaysCount`: under `~Overlap`, `TurnsCount`. A plan that looks at a lease has touched nothing yet, so by
  `SerialInv` every registered object is clean; and only `Retry` counts an attempt, after `MayRetry`. This is the safety that
  `PlansEnd` rests on: where a lease could be met, the loop would turn without counting (`engine_spin`).
* `MonitorTypeCorrect`, `MonitorGoverns`, `FullSpeedAlwaysFresh`: the refinement needs
  `HaltInv` (limits agree with the state, a stopped robot was last told zero), freshness
  needs `VerdictInv` (what an old verdict still says of the clock).
* `RateTypeCorrect`, `RateBounded`, `WaitBounded`: by `SpendInv`, which counts what has passed and what could pass now.
* `SimTypeCorrect`: `TypeOK` is inductive, and its bound on `elapsed` says that neither a
  navigation nor an outage runs past its limit.
* `AlwaysMovesAlive`: between a thread's check and its motion the other thread adds at most one
  tick before it checks itself (`AliveInv`); while a body moves, the main thread's tick is a
  navigation step, because only the navigation loop starts a motion and it stops it at its
  end (`DriveInv`).
* `OutageAlwaysHolds`: the outage loop begins with all heartbeats expired and the other thread
  gone (`OutageInv`); after it a skill may publish a heartbeat but is refused before it can
  tick (`CutInv`).
* `TeleopIsLimited`: every behaviour of `TeleopSpec` is one of the limiter's specification, so the three
  limiter theorems hold of the handlers.
* `TeleopTypeCorrect`: a session is one of a registered robot, because a thread on its way to open
  one has passed the test of `start_teleop_session`.
* `LateBounded`: by `LateInv`. Each thread let in before the stop owes at most one answer; what was answered and
  what is owed together stay within the number of threads.
* `StrandedBounded`: by `StrandInv`. Robots marked and threads that are opening a session are together no more
  than the threads, and once there is a session no thread that looks finds none.
* `AgentTypeCorrect`, `ExecutingAlwaysExact`: the flag is set only together with `current` and `rivals`, it is cleared by
  every callback that ends a goal, and all goals that are open are among these (`GoalInv`).
* `StopBounded`: goals sent since the stop, plus the reports that stand before it in the queue, plus a
  command being planned, plus the one this round may still start, stay within the bound.
* `AlwaysSettledOnce`: an action property. The commands a step may move on are the head of the queue, the one being
  planned, or one that is at work as a goal; by `QueueInv` the first two are `"queued"` and `"planning"`.
* `FactoryTyped`: `TypeOK` with `Shapes` (the plan is a sequence of steps, empty just when the engine is
  idle; objects and poses have their fields) is inductive. Each skill is shown to be lawful
  in the brain (`BrainEffect`) and sane in the simulator (`SimEffect`).
* `FactoryFixedArm`, `FactoryCarried`: by `ArmInv`. Validation saw an idle rover for every moving skill of
  the plan; while the rover has not failed since (`Manned`), it is the only candidate for such a skill, so
  the arm stays where it is and what it holds stays with it. `Lawful` says of each skill which of an object's place,
  holder and state it writes.
* `FactoryWorkKept`: a plan that waits for validation is the rules' own (`Ruling`), and what `Rules` returns is one
  of seven plans, by the intent (`RulesListed`), each with the skills the command asks for (`RulesSkills`).
* `FactoryAgree`: by `AgreeInv`, that is the types and `Matching`: until a body in safe state or one that
  is not able was sent, free objects are at the same place in both records, and held ones at the arm in the one and at
  its gripper in the other (`ArmMatch`); while `parted` is empty the rover's places are within 15 cm (`RoverMatch`). `Agree` alone is not inductive: 5 cm of difference would add up over
  a second pick and place. Each skill is then done twice, by `SimSkill` and by `BrainSkill`, from
  matching records: the arm's and the objects' match again whatever the rover did, and unless the step gives a reason
  for `parted` the rover's do, too, and the body did what the brain reports (`Alike`). The inspection, the standoff of a search and the reach of the arm
  need the distances of the map, compared as squares.
* `FactoryCompletes`: by `DoneInv`, whose core is `Fitting`: each step that is left of a plan of the rules will
  succeed in the brain whatever the bodies answer. A search is for a class that is there, an inspection follows a
  drive to the place of the same object and the rover is at that place when its turn comes, no inspection
  comes after a grasp (which moves the object away), and what is to be grasped is within the arm's reach.
  It needs `ArmInv` for the choice of the body: the rover for what moves, the arm for a grasp.
* `FactoryAttempts`: a running plan has fewer than 60 attempts left after the next, and each attempt ends
  it or leaves fewer (`Left`). With the fairness of the engine's thread, that is `Ends`.

`Matching`, `Ruling` and `Fitting` were checked by TLC on the instance of the run `factory` before
they were proved.

Only model-checked: liveness (`PlansEnd`, `SilenceSlows`, `Reconnects`, `CallsReturn`, `Settles`,
`Ends`), which the prover cannot do under fairness. Of `PlansEnd` and `Ends` the safety part, that a retry
loop cannot turn for ever, is proved (`TurnsAlwaysCount`, `FactoryAttempts`); that a thread gets its turns is what
fairness says. The invariants of the passing runs are all proved.

## Not modelled

* Observability, logging, visualisation nodes and the dashboard decide nothing; perception is
  abstract interfaces and stubs; launch files are configuration.
* The language model's HTTP requests, prompts and parsing: a model answers any plan of a set, or
  nothing of use.
* Capability and schema tables are constants (`Capable`, `Retries`, `Able`); pydantic's
  field checks are left out, for they keep no state.
* Token and key checks of `auth.py` keep no state.
* `rclpy` itself, except for the order in which its executor calls the agent's callbacks.
* The world model's ROS node only collects detections; `remove_object` and
  `query_nearest_object` have no callers. Observations, findings, reports and the telemetry feed are data that
  nothing reads back to decide.
* Teleoperation next to a plan: neither side asks for the other (`teleop_fallback.py` writes `BUSY` whatever
  the lease), so no property could hold of both; each module keeps its own part.

## Plan

1. Done: the fleet and the engine, the safety monitor over its governor, the rate limiter and
   the simulated bodies, each with its first theorems.
2. Done: effects of skills on world objects, as a composition of planner, engine and simulated
   bodies (`Factory`).
3. Done: teleoperation sessions behind the rate limiter (`Teleop`), with theorems.
4. Done: the robot agent (`RobotAgent`), with theorems.
5. Done: leases and robots for plans served one at a time (`SkillEngineSerialProofs`); types, `FixedArm`
   and `Carried` of the factory for any set of commands and plans (`FactoryProofs`).
6. Done: `WorkKept`, `Agree` and `Completes` of the factory, with the bound on its attempts; `TurnsCount` of the
   engine and `SettledOnce` of the agent.
7. Left: the safety part of the other liveness properties (a variant of the calls of `SimBridge` and of the
   commands of `RobotAgent`), and a factory whose map is a parameter.
