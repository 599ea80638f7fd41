------------------------- MODULE SkillEngineProofs -------------------------
(***************************************************************************)
(* What holds of the skill engine for every set of plans and robots, every *)
(* script and retry limit, and whether plans overlap or not.               *)
(***************************************************************************)
EXTENDS SkillEngine, TLAPS

(* A thread that releases all leases still owes at least one sweep; this   *)
(* is what keeps the count of sweeps a natural number.                     *)
SweepsOwed ==
    \A p \in Plan : pc[p] \in {"snapshot", "sweep", "wipe"} => sweeps[p] > 0

(* A thread between its choice of a robot and the end of the release knows *)
(* which robot it is about.                                                *)
RobotChosen ==
    \A p \in Plan :
        pc[p] \in {"check", "grant", "busy", "book", "gate", "dispatch",
                  "perform", "pop", "compare", "clear", "settle", "free"}
        => rid[p] \in Robot

TypeInv == TypeOK /\ SweepsOwed /\ RobotChosen

(* A lease names the plan that took it, and is never the missing lease.    *)
LEMMA LeaseOfType ==
    ASSUME TypeOK, NEW p \in Plan
    PROVE  /\ LeaseOf(p) \in Lease
           /\ LeaseOf(p) # NoLease
           /\ HolderOf(LeaseOf(p)) = p
  BY EngineAssumption DEF TypeOK, LeaseOf, Lease, HolderOf

(* An empty registry and plans that have not begun are within their types. *)
LEMMA TypeInit == Init => TypeInv
  <1> SUFFICES ASSUME Init PROVE TypeInv
    OBVIOUS
  <1> USE FleetAssumption, EngineAssumption DEF Init, FleetInit, EngineInit
  <1>1. FleetTypeOK
    <2>1. estop \in BOOLEAN
      BY Zenon
    <2>2. QED
      BY <2>1 DEF FleetTypeOK, Body, RobotStatus, Charge, PacketFlag
  <1>6. lease \in [Body -> Lease \cup {NoLease}]
    OBVIOUS
  <1>2. at \in [Plan -> Nat \ {0}] /\ \A p \in Plan : at[p] <= Len(Script[p])
    <2>1. ASSUME NEW p \in Plan PROVE Len(Script[p]) \in Nat
      OBVIOUS
    <2>2. QED
      BY <2>1
  <1>3. todo \in [Plan -> SUBSET (Robot \X Lease)]
    OBVIOUS
  <1>4. pc \in [Plan -> Label] /\ result \in [Plan -> StepOutcome]
    BY DEF Label, StepOutcome
  <1>7. SweepsOwed /\ RobotChosen
    BY DEF SweepsOwed, RobotChosen
  <1>5. QED
    BY <1>1, <1>2, <1>3, <1>4, <1>6, <1>7 DEF TypeInv, TypeOK

(* The fleet's own steps keep its types and touch no thread.               *)
LEMMA TypeFleet ==
    ASSUME TypeInv, FleetStep
    PROVE  TypeInv'
  <1> USE FleetAssumption DEF TypeInv, TypeOK, FleetTypeOK, Body, RobotStatus,
          Charge, PacketFlag, FleetStep, threadVars
  <1>1. SweepsOwed' /\ RobotChosen'
    BY DEF SweepsOwed, RobotChosen
  <1>2. late' \in [Plan -> Nat]
    OBVIOUS
  <1>3. CASE \E r \in Robot : Register(r)
    BY <1>1, <1>2, <1>3 DEF Register
  <1>4. CASE \E r \in Robot, f \in Flag, level \in Level : Telemetry(r, f, level)
    <2>1. PICK r \in Robot, f \in Flag, level \in Level : Telemetry(r, f, level)
      BY <1>4
    <2>2. reported' \in [Robot -> PacketFlag]
      BY <2>1 DEF Telemetry
    <2>3. battery' \in [Body -> Charge]
      BY <2>1 DEF Telemetry
    <2>4. f # "clear" => FlagStatus[f] \in RobotStatus
      BY DEF FlagStatus
    <2>5. status' \in [Body -> RobotStatus]
      BY <2>1, <2>4 DEF Telemetry
    <2>6. QED
      BY <1>1, <1>2, <2>1, <2>2, <2>3, <2>5 DEF Telemetry
  <1>5. CASE \E r \in Robot : Watchdog(r)
    BY <1>1, <1>2, <1>5 DEF Watchdog
  <1>6. CASE TriggerEStop \/ ClearEStop
    BY <1>1, <1>2, <1>6 DEF TriggerEStop, ClearEStop
  <1>7. QED
    BY <1>3, <1>4, <1>5, <1>6 DEF FleetNext

(* A thread that gives up its object or its target holds object 0, none.   *)
LEMMA Forgotten ==
    ASSUME NEW f \in [Plan -> 0 .. MaxBody], NEW p \in Plan
    PROVE  [f EXCEPT ![p] = 0] \in [Plan -> 0 .. MaxBody]
  BY FleetAssumption

(* So does every step of a thread.                                         *)
LEMMA TypeThread ==
    ASSUME TypeInv, NEW p \in Plan, Thread(p)
    PROVE  TypeInv'
  <1> USE FleetAssumption, EngineAssumption
      DEF TypeInv, TypeOK, FleetTypeOK, Goto, fleetVars
  <1>1. CASE Begin(p)
    <2>1. SweepsOwed' /\ RobotChosen'
      BY <1>1 DEF Begin, SweepsOwed, RobotChosen
    <2>2. pc' \in [Plan -> Label]
      BY <1>1 DEF Begin, Label
    <2>3. QED
      BY <1>1, <2>1, <2>2 DEF Begin
  <1>2. CASE Select(p)
    <2>1. \A s : Choice(s) \subseteq Robot
      BY DEF Choice, Candidates, IdleRobots, Registered
    <2>2. CASE pc'[p] = "check"
      <3>1. PICK r \in Choice(skillOf(p)) :
               /\ rid' = [rid EXCEPT ![p] = r]
               /\ body' = [body EXCEPT ![p] = registry[r]]
               /\ Goto(p, "check")
               /\ UNCHANGED result
        BY <1>2, <2>2 DEF Select
      <3>2. r \in Robot /\ registry[r] \in 0 .. MaxBody
        BY <2>1
      <3>3. QED
        BY <1>2, <3>1, <3>2 DEF Select, Label, SweepsOwed, RobotChosen
    <2>3. CASE pc'[p] # "check"
      BY <1>2, <2>3 DEF Select, Label, SweepsOwed, RobotChosen, StepOutcome
    <2>4. QED
      BY <2>2, <2>3
  <1>3. CASE Check(p)
    <2>0. registry[rid[p]] \in 0 .. MaxBody
      BY <1>3 DEF Check, RobotChosen
    <2>1. target' \in [Plan -> 0 .. MaxBody]
      BY <1>3, <2>0 DEF Check
    <2>2. QED
      BY <1>3, <2>1 DEF Check, Label, SweepsOwed, RobotChosen
  <1>4. CASE Grant(p)
    <2>1. lease' \in [Body -> Lease \cup {NoLease}] /\ pc' \in [Plan -> Label]
      BY <1>4, LeaseOfType DEF Grant, Label
    <2>2. SweepsOwed' /\ RobotChosen'
      BY <1>4 DEF Grant, SweepsOwed, RobotChosen
    <2>3. QED
      BY <1>4, <2>1, <2>2 DEF Grant
  <1>5. CASE MarkBusy(p)
    <2>1. status' \in [Body -> RobotStatus]
      BY <1>5 DEF MarkBusy, RobotStatus
    <2>2. pc' \in [Plan -> Label] /\ target' \in [Plan -> 0 .. MaxBody]
      <3>1. target' \in [Plan -> 0 .. MaxBody]
        BY <1>5, Forgotten, Zenon DEF MarkBusy
      <3>2. pc' \in [Plan -> Label]
        BY <1>5 DEF MarkBusy, Label
      <3>3. QED
        BY <3>1, <3>2
    <2>3. SweepsOwed' /\ RobotChosen'
      BY <1>5 DEF MarkBusy, SweepsOwed, RobotChosen
    <2>4. QED
      BY <1>5, <2>1, <2>2, <2>3 DEF MarkBusy
  <1>6. CASE Book(p)
    BY <1>6, LeaseOfType DEF Book, Label, SweepsOwed, RobotChosen
  <1>7. CASE Gate(p)
    BY <1>7 DEF Gate, Label, SweepsOwed, RobotChosen, StepOutcome
  <1>8. CASE Dispatch(p)
    BY <1>8 DEF Dispatch, Label, SweepsOwed, RobotChosen
  <1>9. CASE Perform(p)
    <2>1. battery' \in [Body -> Charge]
      BY <1>9 DEF Perform, Body
    <2>2. QED
      BY <1>9, <2>1 DEF Perform, Label, SweepsOwed, RobotChosen
  <1>10. CASE Pop(p)
    <2>1. active[rid[p]] \in Lease \cup {NoLease}
      BY <1>10 DEF Pop, RobotChosen
    <2>2. /\ active' \in [Robot -> Lease \cup {NoLease}]
          /\ ticket' \in [Plan -> Lease \cup {NoLease}]
          /\ body' \in [Plan -> 0 .. MaxBody]
      <3>1. body' \in [Plan -> 0 .. MaxBody]
        BY <1>10, Forgotten, Zenon DEF Pop
      <3>2. QED
        BY <1>10, <2>1, <3>1 DEF Pop
    <2>3. pc' \in [Plan -> Label]
      BY <1>10 DEF Pop, Label
    <2>4. SweepsOwed' /\ RobotChosen'
      BY <1>10 DEF Pop, SweepsOwed, RobotChosen
    <2>5. QED
      BY <1>10, <2>2, <2>3, <2>4 DEF Pop
  <1>11. CASE Compare(p)
    <2>1. registry[rid[p]] \in 0 .. MaxBody
      BY <1>11 DEF Compare, RobotChosen
    <2>2. /\ target' \in [Plan -> 0 .. MaxBody]
          /\ ticket' \in [Plan -> Lease \cup {NoLease}]
      BY <1>11, <2>1 DEF Compare
    <2>3. pc' \in [Plan -> Label]
      BY <1>11 DEF Compare, Caller, Label
    <2>4. SweepsOwed' /\ RobotChosen'
      BY <1>11 DEF Compare, Caller, SweepsOwed, RobotChosen
    <2>5. QED
      BY <1>11, <2>2, <2>3, <2>4 DEF Compare
  <1>12. CASE Clear(p)
    BY <1>12 DEF Clear, Label, SweepsOwed, RobotChosen
  <1>13. CASE Settle(p)
    <2>1. pc' \in [Plan -> Label]
      BY <1>13 DEF Settle, Caller, Label
    <2>2. target' \in [Plan -> 0 .. MaxBody]
      <3>1. target' = target \/ target' = [target EXCEPT ![p] = 0]
        BY <1>13, Zenon DEF Settle
      <3>2. target \in [Plan -> 0 .. MaxBody]
        OBVIOUS
      <3>3. [target EXCEPT ![p] = 0] \in [Plan -> 0 .. MaxBody]
        BY <3>2, Forgotten, Zenon
      <3>4. QED
        BY <3>1, <3>2, <3>3, Zenon
    <2>3. SweepsOwed'
      BY <1>13 DEF Settle, Caller, SweepsOwed
    <2>4. RobotChosen'
      BY <1>13 DEF Settle, Caller, RobotChosen
    <2>5. QED
      BY <1>13, <2>1, <2>2, <2>3, <2>4 DEF Settle
  <1>19. CASE MarkIdle(p)
    <2>1. status' \in [Body -> RobotStatus] /\ target' \in [Plan -> 0 .. MaxBody]
      <3>1. target' \in [Plan -> 0 .. MaxBody]
        BY <1>19, Forgotten, Zenon DEF MarkIdle
      <3>2. status' \in [Body -> RobotStatus]
        <4>1. "IDLE" \in RobotStatus
          BY DEF RobotStatus
        <4>2. status' = [status EXCEPT ![target[p]] = "IDLE"] /\ status \in [Body -> RobotStatus]
          BY <1>19 DEF MarkIdle
        <4>3. QED
          BY <4>1, <4>2, Zenon
      <3>3. QED
        BY <3>1, <3>2
    <2>2. pc' \in [Plan -> Label]
      BY <1>19 DEF MarkIdle, Caller, Label
    <2>3. SweepsOwed' /\ RobotChosen'
      BY <1>19 DEF MarkIdle, Caller, SweepsOwed, RobotChosen
    <2>4. QED
      BY <1>19, <2>1, <2>2, <2>3 DEF MarkIdle
  <1>14. CASE Advance(p)
    <2> DEFINE Verdict == {"NONE", "IN_PROGRESS", "COMPLETED", "FAILED"}
    <2>8. result' \in [Plan -> StepOutcome] /\ rid' \in [Plan -> Robot \cup {NoRobot}]
      BY <1>14 DEF Advance, StepOutcome
    <2>1. CASE NextStep(p)
      <3>1. pc' \in [Plan -> Label] /\ pc' = [pc EXCEPT ![p] = "select"]
        BY <2>1 DEF NextStep, Label
      <3>2. at' \in [Plan -> Nat \ {0}] /\ \A q \in Plan : at'[q] <= Len(Script[q])
        BY <2>1 DEF NextStep, MoreSteps
      <3>3. attempt' \in [Plan -> Nat]
        BY <2>1 DEF NextStep
      <3>4. SweepsOwed' /\ RobotChosen'
        BY <1>14, <2>1, <3>1 DEF Advance, NextStep, SweepsOwed, RobotChosen
      <3>5. QED
        BY <1>14, <2>1, <2>8, <3>1, <3>2, <3>3, <3>4 DEF Advance, NextStep
    <2>2. CASE Retry(p)
      <3>1. pc' \in [Plan -> Label] /\ pc' = [pc EXCEPT ![p] = "select"]
        BY <2>2 DEF Retry, Label
      <3>2. attempt' \in [Plan -> Nat]
        BY <2>2 DEF Retry
      <3>3. SweepsOwed' /\ RobotChosen'
        BY <1>14, <2>2, <3>1 DEF Advance, Retry, SweepsOwed, RobotChosen
      <3>4. QED
        BY <1>14, <2>2, <2>8, <3>1, <3>2, <3>3 DEF Advance, Retry
    <2>3. ASSUME NEW n \in {1, 2}, NEW verdict \in Verdict, Finish(p, n, verdict)
          PROVE  TypeInv'
      <3>1. record' \in [Plan -> Verdict] /\ sweeps' \in [Plan -> 0 .. 2]
        BY <2>3 DEF Finish
      <3>2. pc' \in [Plan -> Label]
        BY <2>3 DEF Finish, Label
      <3>3. SweepsOwed'
        BY <2>3, <3>1, <3>2 DEF Finish, SweepsOwed
      <3>4. RobotChosen'
        BY <1>14, <2>3 DEF Advance, Finish, RobotChosen
      <3>5. QED
        BY <1>14, <2>3, <2>8, <3>1, <3>2, <3>3, <3>4 DEF Advance, Finish
    <2>4. record[p] \in Verdict
      OBVIOUS
    <2>5. \/ NextStep(p) \/ Retry(p)
          \/ Finish(p, 1, "COMPLETED") \/ Finish(p, 2, "FAILED")
          \/ Finish(p, 1, record[p])
      BY <1>14 DEF Advance
    <2> HIDE DEF TypeInv, Verdict
    <2>6. "COMPLETED" \in Verdict /\ "FAILED" \in Verdict
      BY DEF Verdict
    <2>7. QED
      BY <2>1, <2>2, <2>3, <2>4, <2>5, <2>6
  <1>15. CASE Snapshot(p)
    <2>1. {<<r, active[r]>> : r \in Booked} \in SUBSET (Robot \X Lease)
      BY DEF Booked
    <2>2. todo' \in [Plan -> SUBSET (Robot \X Lease)]
      BY <1>15, <2>1 DEF Snapshot
    <2>3. QED
      BY <1>15, <2>2 DEF Snapshot, Label, SweepsOwed, RobotChosen
  <1>16. CASE Sweep(p)
    <2>1. CASE todo[p] = {}
      BY <1>16, <2>1 DEF Sweep, Label, SweepsOwed, RobotChosen
    <2>2. CASE todo[p] # {}
      <3>1. PICK e \in todo[p] :
               /\ rid' = [rid EXCEPT ![p] = e[1]]
               /\ ticket' = [ticket EXCEPT ![p] = e[2]]
               /\ todo' = [todo EXCEPT ![p] = @ \ {e}]
               /\ Goto(p, "compare")
        BY <1>16, <2>2 DEF Sweep
      <3>2. e[1] \in Robot /\ e[2] \in Lease
        OBVIOUS
      <3>3. todo' \in [Plan -> SUBSET (Robot \X Lease)]
        BY <3>1
      <3>4. QED
        BY <1>16, <3>1, <3>2, <3>3 DEF Sweep, Label, SweepsOwed, RobotChosen
    <2>3. QED
      BY <2>1, <2>2
  <1>17. CASE Wipe(p)
    <2>1. sweeps[p] \in 1 .. 2 /\ sweeps' = [sweeps EXCEPT ![p] = sweeps[p] - 1]
      BY <1>17 DEF Wipe, SweepsOwed
    <2>2. /\ active' \in [Robot -> Lease \cup {NoLease}]
          /\ sweeps' \in [Plan -> 0 .. 2]
          /\ pc' \in [Plan -> Label]
      BY <1>17, <2>1 DEF Wipe, Label
    <2>3. SweepsOwed' /\ RobotChosen'
      BY <1>17, <2>1 DEF Wipe, SweepsOwed, RobotChosen
    <2>4. QED
      BY <1>17, <2>2, <2>3 DEF Wipe
  <1>18. QED
    BY <1>1, <1>2, <1>3, <1>4, <1>5, <1>6, <1>7, <1>8, <1>9, <1>10, <1>11,
       <1>12, <1>13, <1>14, <1>15, <1>16, <1>17, <1>19 DEF Thread

(* The strengthened types are an invariant of the threads of execute_plan. *)
LEMMA TypeInvariant == Spec => []TypeInv
  <1>1. TypeInv /\ [Next]_vars => TypeInv'
    <2> SUFFICES ASSUME TypeInv, [Next]_vars PROVE TypeInv'
      OBVIOUS
    <2>1. CASE FleetStep
      BY <2>1, TypeFleet
    <2>2. CASE \E p \in Plan : Thread(p)
      BY <2>2, TypeThread
    <2>3. CASE UNCHANGED vars
      BY <2>3 DEF vars, fleetVars, engineVars, threadVars, TypeInv, TypeOK,
                  FleetTypeOK, SweepsOwed, RobotChosen
    <2>4. QED
      BY <2>1, <2>2, <2>3 DEF Next
  <1>2. QED
    BY TypeInit, <1>1, PTL DEF Spec

(* The engine's state, the threads of execute_plan and the leases they take*)
(* keep their types: in particular no thread runs past the end of its plan.*)
THEOREM TypeCorrect == Spec => []TypeOK
  <1>1. TypeInv => TypeOK
    BY DEF TypeInv
  <1>2. QED
    BY TypeInvariant, <1>1, PTL

-----------------------------------------------------------------------------
(***************************************************************************)
(* The emergency stop.  EStopBound alone is not inductive: a thread that   *)
(* has been cleared but has not sent yet must not have sent since the      *)
(* stop was set, and late is zero as long as the stop is off.              *)
(***************************************************************************)
LateInv ==
    /\ ~estop => \A p \in Plan : late[p] = 0
    /\ \A p \in Plan : late[p] <= 1 /\ (pc[p] = "dispatch" => late[p] = 0)

(* No command was sent before the first step.                              *)
LEMMA LateInit == Init => LateInv
  BY DEF Init, FleetInit, EngineInit, LateInv

(* Only the gate clears a thread for a command, and only while the stop is *)
(* off; sending the command uses the clearance up.                         *)
LEMMA LateStep == TypeInv /\ LateInv /\ [Next]_vars => LateInv'
  <1> SUFFICES ASSUME TypeInv, LateInv, [Next]_vars PROVE LateInv'
    OBVIOUS
  <1> USE DEF TypeInv, TypeOK, FleetTypeOK, LateInv
  <1>1. CASE FleetStep
    BY <1>1 DEF FleetStep, threadVars
  <1>2. ASSUME NEW p \in Plan, Thread(p)
        PROVE  LateInv'
    <2>1. CASE Gate(p)
      BY <2>1 DEF Gate, Safe, Goto, fleetVars
    <2>2. CASE Dispatch(p)
      BY <2>2 DEF Dispatch, Goto, fleetVars
    <2>3. CASE ~Gate(p) /\ ~Dispatch(p)
      <3>1. late' = late /\ estop' = estop
        BY <1>2, <2>3 DEF Thread, Begin, Select, Check, Grant, MarkBusy, Book,
           Perform, Pop, Compare, Clear, Settle, MarkIdle, Advance, Snapshot, Sweep,
           Wipe, fleetVars
      <3>2. \A q \in Plan : pc'[q] = "dispatch" => pc[q] = "dispatch"
        BY <1>2, <2>3 DEF Thread, Begin, Select, Check, Grant, MarkBusy, Book,
           Perform, Pop, Compare, Clear, Settle, MarkIdle, Advance, NextStep, Retry,
           Finish, Snapshot, Sweep, Wipe, Goto, Caller
      <3>3. QED
        BY <3>1, <3>2
    <2>4. QED
      BY <2>1, <2>2, <2>3
  <1>3. CASE UNCHANGED vars
    BY <1>3 DEF vars, fleetVars, engineVars, threadVars
  <1>4. QED
    BY <1>1, <1>2, <1>3 DEF Next

(* However many plans overlap, each sends at most one command after the    *)
(* emergency stop is set.                                                  *)
THEOREM EStopBounded == Spec => []EStopBound
  <1>1. LateInv => EStopBound
    BY DEF LateInv, EStopBound
  <1>2. QED
    BY LateInit, LateStep, TypeInvariant, <1>1, PTL DEF Spec

-----------------------------------------------------------------------------
(***************************************************************************)
(* The booking table.  BookingsInUse is inductive once types are known.    *)
(***************************************************************************)
(* The table starts empty.                                                 *)
LEMMA BookingsInit == Init => BookingsInUse
  <1>1. Init => Booked = {}
    BY DEF Init, EngineInit, Booked
  <1>2. QED
    BY <1>1 DEF BookingsInUse

(* Where a thread's robot is booked.                                       *)
InUse == {"gate", "dispatch", "perform", "pop"}

(* A step keeps the bookings in use when it leaves the table alone and, for*)
(* a plan that works on a booked robot, its robot, step and attempt.       *)
LEMMA BookingsKept ==
    ASSUME TypeInv, BookingsInUse, UNCHANGED active,
           \A q \in Plan : pc[q] \in InUse =>
              /\ pc'[q] \in InUse
              /\ UNCHANGED <<rid[q], at[q], attempt[q]>>
    PROVE  BookingsInUse'
  <1>1. \A r \in Booked : HolderOf(active[r]) \in Plan
    BY DEF TypeInv, TypeOK, Booked, Lease, HolderOf
  <1>2. QED
    BY <1>1 DEF BookingsInUse, Booked, InUse, LeaseOf

(* Book enters the thread's own lease, Pop removes the booking before the  *)
(* thread leaves the robot, Wipe removes all; the rest touches neither.    *)
LEMMA BookingsStep == TypeInv /\ BookingsInUse /\ [Next]_vars => BookingsInUse'
  <1> SUFFICES ASSUME TypeInv, BookingsInUse, [Next]_vars PROVE BookingsInUse'
    OBVIOUS
  <1>0. \A r \in Booked : HolderOf(active[r]) \in Plan
    BY DEF TypeInv, TypeOK, Booked, Lease, HolderOf
  <1>1. CASE FleetStep
    BY <1>1, BookingsKept DEF FleetStep, threadVars
  <1>2. ASSUME NEW p \in Plan, Thread(p)
        PROVE  BookingsInUse'
    <2>1. CASE Book(p)
      <3>1. /\ rid[p] \in Robot
            /\ active' = [active EXCEPT ![rid[p]] = LeaseOf(p)]
            /\ pc[p] = "book" /\ pc' = [pc EXCEPT ![p] = "gate"]
            /\ UNCHANGED <<rid, at, attempt>>
        BY <2>1 DEF Book, Goto, TypeInv, RobotChosen
      <3> DEFINE Fine(r) == LET q == HolderOf(active[r]) IN
                            /\ pc[q] \in InUse
                            /\ rid[q] = r
                            /\ active[r] = LeaseOf(q)
      <3>2. Fine(rid[p])'
        BY <3>1, LeaseOfType DEF LeaseOf, InUse, HolderOf, TypeInv, TypeOK
      <3>3. ASSUME NEW r \in Booked', r # rid[p]
            PROVE  Fine(r)'
        <4>1. r \in Booked /\ active'[r] = active[r]
          BY <3>1, <3>3 DEF Booked, TypeInv, TypeOK
        <4>2. Fine(r) /\ HolderOf(active[r]) # p
          BY <3>1, <4>1 DEF BookingsInUse, InUse
        <4>3. QED
          BY <1>0, <3>1, <4>1, <4>2 DEF LeaseOf, TypeInv, TypeOK
      <3>4. \A r \in Booked' : Fine(r)'
        BY <3>1, <3>2, <3>3
      <3>5. QED
        BY <3>4 DEF BookingsInUse, InUse
    <2>2. CASE Pop(p)
      BY <1>0, <2>2
      DEF Pop, Goto, BookingsInUse, Booked, LeaseOf, TypeInv, TypeOK, RobotChosen
    <2>3. CASE Wipe(p)
      BY <2>3 DEF Wipe, BookingsInUse, Booked
    <2>4. CASE ~Book(p) /\ ~Pop(p) /\ ~Wipe(p)
      BY <1>2, <2>4, BookingsKept
      DEF Thread, Begin, Select, Check, Grant, MarkBusy, Gate, Dispatch, Perform,
          Compare, Clear, Settle, MarkIdle, Advance, NextStep, Retry, Finish, Snapshot,
          Sweep, Goto, Caller, InUse, TypeInv, TypeOK
    <2>5. QED
      BY <2>1, <2>2, <2>3, <2>4
  <1>3. CASE UNCHANGED vars
    BY <1>3, BookingsKept DEF vars, engineVars, threadVars
  <1>4. QED
    BY <1>1, <1>2, <1>3 DEF Next

(* Every booking belongs to a plan at work on that robot, whether plans    *)
(* overlap or not.                                                         *)
THEOREM BookingsAlwaysInUse == Spec => []BookingsInUse
  BY BookingsInit, BookingsStep, TypeInvariant, PTL DEF Spec
=============================================================================
