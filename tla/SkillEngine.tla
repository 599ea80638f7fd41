---------------------------- MODULE SkillEngine ----------------------------
(***************************************************************************)
(* SkillExecutionEngine.execute_plan, the leases it takes from the         *)
(* MultiRobotOrchestrator, and the safety gate it asks before a dispatch.  *)
(*                                                                         *)
(* POST /api/v1/command is a plain `def` endpoint: the web framework runs  *)
(* each request in a thread of its pool, and all of them call the same     *)
(* engine object.  A plan p stands for one such thread.  The code takes no *)
(* lock, so a thread may be preempted between any two accesses to what it  *)
(* shares with others: the registry's objects, the engine's dictionary of  *)
(* active leases and the emergency-stop flag.  Each action below makes one *)
(* such access, and pc[p] says which comes next.                           *)
(***************************************************************************)
EXTENDS Fleet, Sequences

CONSTANTS
    Plan,       \* plan ids, one request thread each
    Skill,
    Script,     \* plan -> its steps, a sequence of skills
    Retries,    \* skill -> max_retries of its SkillDefinition
    Capable,    \* <<robot, skill>>: body type and capabilities fit the skill
    Outcome,    \* what performing a step may do, a subset of StepOutcome
    Overlap,    \* whether plans may run at the same time
    NoRobot     \* no robot selected

VARIABLES
    active,     \* _active_leases_by_robot: robot -> lease, shared by all plans
    pc,         \* plan -> label of the thread's next shared access
    at,         \* plan -> index of the step it executes
    attempt,    \* plan -> failed attempts at that step
    rid,        \* plan -> robot id it selected, or that it is releasing
    body,       \* plan -> RobotBodySpec object it selected
    target,     \* plan -> object that acquire_lease or release_lease looked up
    ticket,     \* plan -> lease it is releasing
    todo,       \* plan -> what _release_all_leases still has to release
    sweeps,     \* plan -> calls of _release_all_leases still to make
    result,     \* plan -> outcome of the attempt
    record,     \* plan -> status of its ExecutionRecord in TaskMemory
    late        \* plan -> commands it sent since the emergency stop was set

threadVars == <<pc, at, attempt, rid, body, target, ticket, todo, sweeps, result>>
engineVars == <<active, threadVars, record, late>>
vars == <<fleetVars, engineVars>>

StepOutcome == {"ok", "fail", "raise"}
Label == {"ready", "select", "check", "grant", "busy", "book", "gate",
          "dispatch", "perform", "pop", "compare", "clear", "settle",
          "free", "advance", "snapshot", "sweep", "wipe", "done"}

(* A fresh lease id: uuid4 makes one per grant, and a plan is granted at   *)
(* most one lease per attempt at a step.                                   *)
Lease == Plan \X (Nat \ {0}) \X Nat
LeaseOf(p) == <<p, at[p], attempt[p]>>
HolderOf(l) == l[1]

ASSUME EngineAssumption ==
    /\ Script \in [Plan -> Seq(Skill)]
    /\ \A p \in Plan : Len(Script[p]) > 0
    /\ Retries \in [Skill -> Nat]
    /\ Outcome \subseteq StepOutcome
    /\ Overlap \in BOOLEAN
    /\ NoLease \notin Lease
    /\ NoRobot \notin Robot

skillOf(p) == Script[p][at[p]]
Running == {p \in Plan : pc[p] \notin {"ready", "done"}}
Booked == {r \in Robot : active[r] # NoLease}

EngineInit ==
    /\ active = [r \in Robot |-> NoLease]
    /\ pc = [p \in Plan |-> "ready"]
    /\ at = [p \in Plan |-> 1]
    /\ attempt = [p \in Plan |-> 0]
    /\ rid = [p \in Plan |-> NoRobot]
    /\ body = [p \in Plan |-> 0]
    /\ target = [p \in Plan |-> 0]
    /\ ticket = [p \in Plan |-> NoLease]
    /\ todo = [p \in Plan |-> {}]
    /\ sweeps = [p \in Plan |-> 0]
    /\ result = [p \in Plan |-> "ok"]
    /\ record = [p \in Plan |-> "NONE"]
    /\ late = [p \in Plan |-> 0]

Goto(p, label) == pc' = [pc EXCEPT ![p] = label]

(***************************************************************************)
(* execute_plan up to its loop.  The validator refuses a plan when the     *)
(* emergency stop is on, or when a step has no candidate although robots   *)
(* are registered; what it says of the plan's own text is not modelled.    *)
(***************************************************************************)
Fit(r, s) ==
    LET b == registry[r] IN
    /\ b # 0
    /\ status[b] \in {"IDLE", "BUSY"}
    /\ battery[b] = "ok" \/ s = "dock"
    /\ <<r, s>> \in Capable

Valid(p) ==
    /\ ~estop
    /\ \A i \in 1 .. Len(Script[p]) :
          Registered = {} \/ \E r \in Robot : Fit(r, Script[p][i])

Begin(p) ==
    /\ pc[p] = "ready"
    /\ Overlap \/ Running = {}
    /\ \/ /\ Valid(p)
          /\ Goto(p, "select")
          /\ record' = [record EXCEPT ![p] = "IN_PROGRESS"]
       \/ /\ ~Valid(p)
          /\ Goto(p, "done")
          /\ record' = [record EXCEPT ![p] = "FAILED"]
    /\ UNCHANGED <<fleetVars, active, at, attempt, rid, body, target, ticket,
                   todo, sweeps, result, late>>

(***************************************************************************)
(* One turn of the loop of _execute_step_with_retry: choose a robot.  The  *)
(* scores that order the candidates are left out, any candidate may come   *)
(* first.  When no robot fits, any IDLE robot does, and when none is IDLE  *)
(* any robot at all; with none registered the attempt has failed.          *)
(***************************************************************************)
Candidates(s) == {r \in Robot \ Booked : Fit(r, s)}
IdleRobots == {r \in Registered : status[registry[r]] = "IDLE"}

Choice(s) ==
    IF Candidates(s) # {} THEN Candidates(s)
    ELSE IF IdleRobots # {} THEN IdleRobots
    ELSE Registered

Select(p) ==
    /\ pc[p] = "select"
    /\ \/ \E r \in Choice(skillOf(p)) :
             /\ rid' = [rid EXCEPT ![p] = r]
             /\ body' = [body EXCEPT ![p] = registry[r]]
             /\ Goto(p, "check")
             /\ UNCHANGED result
       \/ /\ Registered = {}
          /\ result' = [result EXCEPT ![p] = "fail"]
          /\ Goto(p, "advance")
          /\ UNCHANGED <<rid, body>>
    /\ UNCHANGED <<fleetVars, active, at, attempt, target, ticket, todo,
                   sweeps, record, late>>

(***************************************************************************)
(* acquire_lease: look the robot up again and read its lease (Check), then *)
(* write the lease (Grant) and the status (MarkBusy), whatever the status  *)
(* was.  On a leased robot the engine goes round its loop again, and that  *)
(* does not count as an attempt.  Then the engine books the lease (Book).  *)
(***************************************************************************)
Check(p) ==
    LET b == registry[rid[p]] IN
    /\ pc[p] = "check"
    /\ IF lease[b] = NoLease
       THEN Goto(p, "grant") /\ target' = [target EXCEPT ![p] = b]
       ELSE Goto(p, "select") /\ UNCHANGED target
    /\ UNCHANGED <<fleetVars, active, at, attempt, rid, body, ticket, todo,
                   sweeps, result, record, late>>

Grant(p) ==
    /\ pc[p] = "grant"
    /\ lease' = [lease EXCEPT ![target[p]] = LeaseOf(p)]
    /\ Goto(p, "busy")
    /\ UNCHANGED <<registry, made, status, battery, reported, estop, active, at,
                   attempt, rid, body, target, ticket, todo, sweeps, result,
                   record, late>>

(* Mutant: the lease is written but the robot's status is forgotten. *)
MarkBusyNot(p) ==
    /\ pc[p] = "busy"
    /\ target' = [target EXCEPT ![p] = 0]
    /\ Goto(p, "book")
    /\ UNCHANGED <<fleetVars, active, at, attempt, rid, body, ticket, todo,
                   sweeps, result, record, late>>

MarkBusy(p) ==
    /\ pc[p] = "busy"
    /\ status' = [status EXCEPT ![target[p]] = "BUSY"]
    /\ target' = [target EXCEPT ![p] = 0]
    /\ Goto(p, "book")
    /\ UNCHANGED <<registry, made, lease, battery, reported, estop, active, at,
                   attempt, rid, body, ticket, todo, sweeps, result, record, late>>

Book(p) ==
    /\ pc[p] = "book"
    /\ active' = [active EXCEPT ![rid[p]] = LeaseOf(p)]
    /\ Goto(p, "gate")
    /\ UNCHANGED <<fleetVars, at, attempt, rid, body, target, ticket, todo,
                   sweeps, result, record, late>>

(***************************************************************************)
(* _execute_single_step.  The gate reads the object selected before the    *)
(* lease was taken; of its robot checks only the emergency stops and the   *)
(* battery depend on the fleet's state.  The dispatch callback then sends  *)
(* the command, and _run_skill_internal, which runs even when the callback *)
(* reported an error, uses up battery.                                     *)
(***************************************************************************)
(* Mutant: the gate forgets the global emergency stop. *)
SafeUnlessLocal(b, s) ==
    /\ status[b] # "E_STOPPED"
    /\ battery[b] = "ok" \/ s = "dock"

Safe(b, s) ==
    /\ ~estop
    /\ status[b] # "E_STOPPED"
    /\ battery[b] = "ok" \/ s = "dock"

Gate(p) ==
    /\ pc[p] = "gate"
    /\ IF Safe(body[p], skillOf(p))
       THEN Goto(p, "dispatch") /\ UNCHANGED result
       ELSE Goto(p, "pop") /\ result' = [result EXCEPT ![p] = "fail"]
    /\ UNCHANGED <<fleetVars, active, at, attempt, rid, body, target, ticket,
                   todo, sweeps, record, late>>

Dispatch(p) ==
    /\ pc[p] = "dispatch"
    /\ Goto(p, "perform")
    /\ late' = [late EXCEPT ![p] = IF estop THEN @ + 1 ELSE @]
    /\ UNCHANGED <<fleetVars, active, at, attempt, rid, body, target, ticket,
                   todo, sweeps, result, record>>

Perform(p) ==
    /\ pc[p] = "perform"
    /\ \E o \in Outcome : result' = [result EXCEPT ![p] = o]
    /\ \E level \in Level \cup {battery[body[p]]} :
          /\ battery[body[p]] = "low" => level = "low"
          /\ battery' = [battery EXCEPT ![body[p]] = level]
    /\ Goto(p, "pop")
    /\ UNCHANGED <<registry, made, lease, status, reported, estop, active, at,
                   attempt, rid, body, target, ticket, todo, sweeps, record, late>>

(***************************************************************************)
(* The `finally` of the attempt: take the robot's booking, whoever made    *)
(* it, and release it.  release_lease looks the robot up and compares      *)
(* (Compare), clears the lease (Clear), asks whether the robot is BUSY     *)
(* (Settle) and makes it IDLE (MarkIdle): the status that a packet or the  *)
(* watchdog writes between the two is lost.                                *)
(***************************************************************************)
(* Mutant: the lease is read from the dictionary but not removed. *)
PopGet(p) ==
    LET l == active[rid[p]] IN
    /\ pc[p] = "pop"
    /\ ticket' = [ticket EXCEPT ![p] = l]
    /\ body' = [body EXCEPT ![p] = 0]
    /\ Goto(p, IF l = NoLease THEN "advance" ELSE "compare")
    /\ UNCHANGED <<fleetVars, active, at, attempt, rid, target, todo, sweeps,
                   result, record, late>>

Pop(p) ==
    LET l == active[rid[p]] IN
    /\ pc[p] = "pop"
    /\ active' = [active EXCEPT ![rid[p]] = NoLease]
    /\ ticket' = [ticket EXCEPT ![p] = l]
    /\ body' = [body EXCEPT ![p] = 0]
    /\ Goto(p, IF l = NoLease THEN "advance" ELSE "compare")
    /\ UNCHANGED <<fleetVars, at, attempt, rid, target, todo, sweeps, result,
                   record, late>>

Caller(p) == IF sweeps[p] > 0 THEN "sweep" ELSE "advance"

Compare(p) ==
    LET b == registry[rid[p]] IN
    /\ pc[p] = "compare"
    /\ IF lease[b] = ticket[p]
       THEN Goto(p, "clear") /\ target' = [target EXCEPT ![p] = b]
       ELSE Goto(p, Caller(p)) /\ UNCHANGED target
    /\ ticket' = [ticket EXCEPT ![p] = NoLease]
    /\ UNCHANGED <<fleetVars, active, at, attempt, rid, body, todo, sweeps,
                   result, record, late>>

(* Mutant: the lease stays on the robot. *)
ClearNot(p) ==
    /\ pc[p] = "clear"
    /\ Goto(p, "settle")
    /\ UNCHANGED <<fleetVars, active, at, attempt, rid, body, target, ticket,
                   todo, sweeps, result, record, late>>

Clear(p) ==
    /\ pc[p] = "clear"
    /\ lease' = [lease EXCEPT ![target[p]] = NoLease]
    /\ Goto(p, "settle")
    /\ UNCHANGED <<registry, made, status, battery, reported, estop, active, at,
                   attempt, rid, body, target, ticket, todo, sweeps, result,
                   record, late>>

Settle(p) ==
    /\ pc[p] = "settle"
    /\ IF status[target[p]] = "BUSY"
       THEN Goto(p, "free") /\ UNCHANGED target
       ELSE Goto(p, Caller(p)) /\ target' = [target EXCEPT ![p] = 0]
    /\ UNCHANGED <<fleetVars, active, at, attempt, rid, body, ticket, todo,
                   sweeps, result, record, late>>

(* Mutant: the robot stays BUSY after its lease is gone. *)
MarkIdleNot(p) ==
    /\ pc[p] = "free"
    /\ target' = [target EXCEPT ![p] = 0]
    /\ Goto(p, Caller(p))
    /\ UNCHANGED <<fleetVars, active, at, attempt, rid, body, ticket, todo,
                   sweeps, result, record, late>>

MarkIdle(p) ==
    /\ pc[p] = "free"
    /\ status' = [status EXCEPT ![target[p]] = "IDLE"]
    /\ target' = [target EXCEPT ![p] = 0]
    /\ Goto(p, Caller(p))
    /\ UNCHANGED <<registry, made, lease, battery, reported, estop, active, at,
                   attempt, rid, body, ticket, todo, sweeps, result, record, late>>

(***************************************************************************)
(* After the attempt: the next step, another attempt, or the end of the    *)
(* plan.  A failed plan releases all leases twice, before its return and   *)
(* in the `finally` of execute_plan.  An exception ends the plan without a *)
(* verdict in its record.                                                  *)
(***************************************************************************)
(* Mutant: the loop runs one step too far. *)
MoreStepsIncl(p) == at[p] <= Len(Script[p])
MoreSteps(p) == at[p] < Len(Script[p])

MayRetry(p) == attempt[p] < Retries[skillOf(p)]

NextStep(p) ==
    /\ result[p] = "ok"
    /\ MoreSteps(p)
    /\ at' = [at EXCEPT ![p] = @ + 1]
    /\ attempt' = [attempt EXCEPT ![p] = 0]
    /\ Goto(p, "select")
    /\ UNCHANGED <<sweeps, record>>

Retry(p) ==
    /\ result[p] = "fail"
    /\ MayRetry(p)
    /\ attempt' = [attempt EXCEPT ![p] = @ + 1]
    /\ Goto(p, "select")
    /\ UNCHANGED <<at, sweeps, record>>

Finish(p, n, verdict) ==
    /\ record' = [record EXCEPT ![p] = verdict]
    /\ sweeps' = [sweeps EXCEPT ![p] = n]
    /\ Goto(p, "snapshot")
    /\ UNCHANGED <<at, attempt>>

Advance(p) ==
    /\ pc[p] = "advance"
    /\ \/ NextStep(p)
       \/ Retry(p)
       \/ result[p] = "ok" /\ ~MoreSteps(p) /\ Finish(p, 1, "COMPLETED")
       \/ result[p] = "fail" /\ ~MayRetry(p) /\ Finish(p, 2, "FAILED")
       \/ result[p] = "raise" /\ Finish(p, 1, record[p])
    /\ rid' = [rid EXCEPT ![p] = NoRobot]
    /\ result' = [result EXCEPT ![p] = "ok"]
    /\ UNCHANGED <<fleetVars, active, body, target, ticket, todo, late>>

(***************************************************************************)
(* _release_all_leases: copy the dictionary (Snapshot), release every      *)
(* lease of the copy (Sweep, then as above), and empty the dictionary      *)
(* (Wipe).  The leases are those of all plans.                             *)
(***************************************************************************)
Snapshot(p) ==
    /\ pc[p] = "snapshot"
    /\ todo' = [todo EXCEPT ![p] = {<<r, active[r]>> : r \in Booked}]
    /\ Goto(p, "sweep")
    /\ UNCHANGED <<fleetVars, active, at, attempt, rid, body, target, ticket,
                   sweeps, result, record, late>>

Sweep(p) ==
    /\ pc[p] = "sweep"
    /\ \/ \E e \in todo[p] :
             /\ rid' = [rid EXCEPT ![p] = e[1]]
             /\ ticket' = [ticket EXCEPT ![p] = e[2]]
             /\ todo' = [todo EXCEPT ![p] = @ \ {e}]
             /\ Goto(p, "compare")
       \/ /\ todo[p] = {}
          /\ rid' = [rid EXCEPT ![p] = NoRobot]
          /\ Goto(p, "wipe")
          /\ UNCHANGED <<ticket, todo>>
    /\ UNCHANGED <<fleetVars, active, at, attempt, body, target, sweeps, result,
                   record, late>>

Wipe(p) ==
    /\ pc[p] = "wipe"
    /\ active' = [r \in Robot |-> NoLease]
    /\ sweeps' = [sweeps EXCEPT ![p] = @ - 1]
    /\ Goto(p, IF sweeps[p] > 1 THEN "snapshot" ELSE "done")
    /\ UNCHANGED <<fleetVars, at, attempt, rid, body, target, ticket, todo,
                   result, record, late>>

Thread(p) ==
    \/ Begin(p) \/ Select(p) \/ Check(p) \/ Grant(p) \/ MarkBusy(p) \/ Book(p)
    \/ Gate(p) \/ Dispatch(p) \/ Perform(p)
    \/ Pop(p) \/ Compare(p) \/ Clear(p) \/ Settle(p) \/ MarkIdle(p)
    \/ Advance(p) \/ Snapshot(p) \/ Sweep(p) \/ Wipe(p)

(* A step of the fleet; late counts from the moment the stop was set.      *)
FleetStep ==
    /\ FleetNext
    /\ late' = IF estop' THEN late ELSE [p \in Plan |-> 0]
    /\ UNCHANGED <<active, threadVars, record>>

Init == FleetInit /\ EngineInit
Next == FleetStep \/ \E p \in Plan : Thread(p)
Spec == Init /\ [][Next]_vars

-----------------------------------------------------------------------------
TypeOK ==
    /\ FleetTypeOK
    /\ lease \in [Body -> Lease \cup {NoLease}]
    /\ active \in [Robot -> Lease \cup {NoLease}]
    /\ pc \in [Plan -> Label]
    /\ at \in [Plan -> Nat \ {0}] /\ \A p \in Plan : at[p] <= Len(Script[p])
    /\ attempt \in [Plan -> Nat]
    /\ rid \in [Plan -> Robot \cup {NoRobot}]
    /\ body \in [Plan -> 0 .. MaxBody]
    /\ target \in [Plan -> 0 .. MaxBody]
    /\ ticket \in [Plan -> Lease \cup {NoLease}]
    /\ todo \in [Plan -> SUBSET (Robot \X Lease)]
    /\ sweeps \in [Plan -> 0 .. 2]
    /\ result \in [Plan -> StepOutcome]
    /\ record \in [Plan -> {"NONE", "IN_PROGRESS", "COMPLETED", "FAILED"}]
    /\ late \in [Plan -> Nat]

(* Whatever plans overlap, an emergency stop lets each of them send at     *)
(* most one more command: the one it had already been cleared for.  The    *)
(* gate (l. 255) and the dispatch (l. 275) are separate steps.             *)
EStopBound == estop => \A p \in Plan : late[p] <= 1

(* Whatever plans overlap, every entry of _active_leases_by_robot belongs  *)
(* to a plan that is working on that robot under that very lease, so       *)
(* exclude_ids never hides a robot nobody uses (l. 176-226, 664-667).      *)
BookingsInUse ==
    \A r \in Booked :
        LET p == HolderOf(active[r]) IN
        /\ pc[p] \in {"gate", "dispatch", "perform", "pop"}
        /\ rid[p] = r
        /\ active[r] = LeaseOf(p)

(* Plans served one at a time leave nothing behind: no booking, no lease   *)
(* and no BUSY robot, however their steps ended and whatever the fleet did *)
(* meanwhile (l. 144-145, 222-226).                                        *)
QuiescentFree ==
    Running = {} =>
        /\ Booked = {}
        /\ \A r \in Registered :
              lease[registry[r]] = NoLease /\ status[registry[r]] # "BUSY"

(* With plans served one at a time, a robot under command stays booked for *)
(* the plan that commands it, and what is registered as that robot is      *)
(* leased to the plan and not on offer as IDLE, whatever telemetry,        *)
(* watchdog and earlier attempts did.  A robot registered again since the  *)
(* plan chose it is the one exception, and even that object carries no     *)
(* lease of another plan and no BUSY that somebody left behind (l.176-283).*)
CommandedIsLeased ==
    \A p \in Plan :
        LET b == registry[rid[p]] IN
        pc[p] \in {"dispatch", "perform"} =>
            /\ active[rid[p]] = LeaseOf(p)
            /\ \/ lease[b] = LeaseOf(p) /\ status[b] # "IDLE"
               \/ b # body[p] /\ lease[b] = NoLease /\ status[b] # "BUSY"

(* With plans served one at a time no plan meets a lease, its own or one   *)
(* that another left behind, so each turn of the loop is an attempt that   *)
(* counts, and a step takes at most max_retries + 1 of them (l. 203-228).  *)
TurnsCount ==
    \A p \in Plan :
        /\ pc[p] = "check" => lease[registry[rid[p]]] = NoLease
        /\ attempt[p] <= Retries[skillOf(p)]

(* docs/01-system-architecture.md, 9: "Robot leases prevent two tasks from *)
(* controlling the same body at the same time."                            *)
OneTaskPerBody ==
    \A p, q \in Plan :
        pc[p] = "perform" /\ pc[q] = "perform" /\ rid[p] = rid[q] => p = q

(* docs/01-system-architecture.md, 9: a local e-stop blocks execution.     *)
(* No plan passes the gate for a robot whose last telemetry packet said    *)
(* that its emergency stop is pressed.                                     *)
Cleared(p) == pc[p] = "gate" /\ pc'[p] = "dispatch"
LocalStopBlocks ==
    [][\A p \in Plan : Cleared(p) => reported[rid[p]] # "e_stop"]_vars

(* A thread that was started and is never stopped by the scheduler.        *)
FairSpec == Spec /\ \A p \in Plan : WF_vars(pc[p] # "ready" /\ Thread(p))

(* Every plan that started ends: the loop of _execute_step_with_retry,     *)
(* whose lease conflicts do not count as attempts, is left eventually.     *)
PlansEnd == \A p \in Plan : pc[p] = "select" ~> pc[p] = "done"
=============================================================================
