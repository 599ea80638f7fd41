---------------------- MODULE SkillEngineSerialProofs ----------------------
(***************************************************************************)
(* What holds of the skill engine when plans are served one at a time, as  *)
(* the demos, the tests and the standalone launcher serve them: nothing is *)
(* left behind, and who is commanded is leased.                            *)
(***************************************************************************)
EXTENDS SkillEngineProofs

(***************************************************************************)
(* The inductive invariant.                                                *)
(***************************************************************************)
(* Only one plan runs.                                                     *)
OneRunning == \A p, q \in Running : p = q

(* Objects are numbered in the order of registration, each is registered   *)
(* under one robot, and one not yet registered is untouched.               *)
Numbered ==
    /\ \A r \in Robot : registry[r] <= made
    /\ \A r, s \in Robot : registry[r] = registry[s] /\ registry[r] # 0 => r = s
    /\ \A b \in Body : b > made => lease[b] = NoLease /\ status[b] = "IDLE"

Clean(b) == lease[b] = NoLease /\ status[b] # "BUSY"

(* From the selection of a robot to the end of its release.                *)
Chosen == {"check", "grant", "busy", "book", "gate", "dispatch", "perform",
           "pop", "compare", "clear", "settle", "free"}
Aiming == {"grant", "busy", "clear", "settle", "free"}
Leasing == {"book", "gate", "dispatch", "perform", "pop", "compare"}
Releasing == {"snapshot", "sweep", "wipe"}

(* The object that a plan may have left dirty: the one it looked up, or    *)
(* else the one that its robot is registered as.                           *)
Touched(p) ==
    IF pc[p] \in {"busy", "clear", "settle", "free"} THEN target[p]
    ELSE IF pc[p] \in Leasing THEN registry[rid[p]] ELSE 0

OnlyTouched ==
    \A r \in Registered :
        Clean(registry[r]) \/ \E p \in Running : Touched(p) = registry[r]

Mine(p, b) == lease[b] = LeaseOf(p) /\ status[b] # "IDLE"

(* What a running plan knows of its robot, by where it is.                 *)
Knows(p) ==
    /\ todo[p] = {}
    /\ pc[p] \notin Releasing => sweeps[p] = 0
    /\ pc[p] \in Chosen => registry[rid[p]] \in Body
    /\ body[p] <= made
    /\ pc[p] \in Aiming =>
          /\ target[p] \in 1 .. made
          /\ \A r \in Robot : registry[r] = target[p] => r = rid[p]
    /\ pc[p] \in {"grant", "busy"} /\ registry[rid[p]] = body[p] => target[p] = body[p]
    /\ pc[p] = "busy" => lease[target[p]] = LeaseOf(p)
    /\ pc[p] \in Leasing => Mine(p, registry[rid[p]]) \/ Clean(registry[rid[p]])
    /\ pc[p] \in Leasing \ {"pop", "compare"} /\ registry[rid[p]] = body[p] =>
          Mine(p, body[p])
    /\ pc[p] \in InUse => active[rid[p]] = LeaseOf(p)
    /\ pc[p] = "compare" => ticket[p] = LeaseOf(p)
    /\ pc[p] \in {"settle", "free"} => lease[target[p]] = NoLease

(* A plan that has not begun has done nothing.                             *)
Untouched(p) == pc[p] = "ready" => todo[p] = {} /\ sweeps[p] = 0 /\ body[p] = 0

SerialInv ==
    /\ OneRunning
    /\ Numbered
    /\ OnlyTouched
    /\ \A p \in Running : Knows(p)
    /\ \A p \in Plan : Untouched(p)

(* The empty registry is clean and nobody runs.                            *)
LEMMA SerialInit == Init => SerialInv
  <1> SUFFICES ASSUME Init PROVE SerialInv
    OBVIOUS
  <1> USE FleetAssumption, EngineAssumption DEF Init, FleetInit, EngineInit
  <1>1. Running = {} /\ Registered = {}
    BY DEF Running, Registered
  <1>2. Numbered
    BY DEF Numbered, Body
  <1>3. QED
    BY <1>1, <1>2 DEF SerialInv, OneRunning, OnlyTouched, Untouched

-----------------------------------------------------------------------------
(***************************************************************************)
(* The fleet                                                               *)
(***************************************************************************)
(* What the fleet may do to the objects: nothing to their leases, and to a *)
(* status no more than put the robot out of service; a new object takes    *)
(* the place of an old one.                                                *)
LEMMA FleetEffect ==
    ASSUME TypeInv, Numbered, FleetStep
    PROVE  /\ lease' = lease /\ made <= made'
           /\ \A b \in Body : \/ status'[b] = status[b]
                              \/ b <= made /\ status'[b] \notin {"IDLE", "BUSY"}
           /\ \/ registry' = registry /\ made' = made
              \/ \E r \in Robot : /\ made' = made + 1
                                  /\ registry' = [registry EXCEPT ![r] = made + 1]
                                  /\ status' = status
  <1> USE FleetAssumption DEF TypeInv, TypeOK, FleetTypeOK, Numbered, Body
  <1>1. CASE \E r \in Robot : Register(r)
    <2>1. PICK r \in Robot : Register(r)
      BY <1>1
    <2>2. made <= made'
      BY <2>1 DEF Register
    <2>3. QED
      BY <2>1, <2>2 DEF Register
  <1>2. CASE \E r \in Robot, f \in Flag, level \in Level : Telemetry(r, f, level)
    <2>1. PICK r \in Robot, f \in Flag, level \in Level : Telemetry(r, f, level)
      BY <1>2
    <2>2. f # "clear" => FlagStatus[f] \in {"E_STOPPED", "FAULT"}
      BY DEF FlagStatus, PacketFlag
    <2>3. QED
      BY <2>1, <2>2 DEF Telemetry
  <1>3. CASE \E r \in Robot : Watchdog(r)
    BY <1>3 DEF Watchdog
  <1>4. CASE TriggerEStop \/ ClearEStop
    BY <1>4 DEF TriggerEStop, ClearEStop
  <1>5. QED
    BY <1>1, <1>2, <1>3, <1>4 DEF FleetStep, FleetNext

(* A new registration is clean, a packet or the watchdog leaves the leases *)
(* and never makes a robot BUSY or IDLE.                                   *)
LEMMA SerialFleet ==
    ASSUME TypeInv, TypeInv', SerialInv, FleetStep
    PROVE  SerialInv'
  <1> USE FleetAssumption
  <1>1. /\ lease' = lease /\ made <= made' /\ made \in Nat /\ made' \in Nat
        /\ \A b \in Body : \/ status'[b] = status[b]
                           \/ b <= made /\ status'[b] \notin {"IDLE", "BUSY"}
        /\ \/ registry' = registry /\ made' = made
           \/ \E r \in Robot : /\ made' = made + 1
                               /\ registry' = [registry EXCEPT ![r] = made + 1]
                               /\ status' = status
    BY FleetEffect DEF SerialInv, TypeInv, TypeOK, FleetTypeOK
  <1>2. /\ UNCHANGED <<active, pc, at, attempt, rid, body, target, ticket, todo,
                       sweeps>>
        /\ Running' = Running
        /\ \A p \in Plan : LeaseOf(p)' = LeaseOf(p)
    BY DEF FleetStep, threadVars, Running, LeaseOf
  <1>3. /\ registry \in [Robot -> 0 .. MaxBody]
        /\ registry' \in [Robot -> 0 .. MaxBody]
        /\ \A p \in Plan : pc[p] \in Chosen => rid[p] \in Robot
        /\ \A p \in Plan : body[p] \in Nat
    BY DEF TypeInv, TypeOK, FleetTypeOK, RobotChosen, Chosen
  <1>4. /\ \A r \in Robot : registry'[r] = registry[r] \/ registry'[r] = made + 1
        /\ \A r \in Robot : registry'[r] # registry[r] =>
              made' = made + 1 /\ status' = status
        /\ \A r \in Robot : registry[r] <= made
    BY <1>1, <1>3 DEF SerialInv, Numbered
  <1>5. Numbered'
    <2>1. \A r \in Robot : registry'[r] <= made'
      BY <1>1, <1>3, <1>4
    <2>2. ASSUME NEW r \in Robot, NEW s \in Robot, registry'[r] = registry'[s],
                 registry'[r] # 0
          PROVE  r = s
      <3>1. CASE registry' = registry
        BY <2>2, <3>1 DEF SerialInv, Numbered
      <3>2. CASE registry' # registry
        <4>1. PICK q \in Robot : registry' = [registry EXCEPT ![q] = made + 1]
          BY <1>1, <3>2
        <4>2. \A t \in Robot : t # q => registry'[t] = registry[t] /\ registry'[t] # made + 1
          BY <1>1, <1>3, <1>4, <4>1
        <4>3. registry'[q] = made + 1
          BY <1>3, <4>1
        <4>4. QED
          BY <2>2, <4>2, <4>3 DEF SerialInv, Numbered
      <3>3. QED
        BY <3>1, <3>2
    <2>3. \A b \in Body : b > made' => lease'[b] = NoLease /\ status'[b] = "IDLE"
      BY <1>1 DEF SerialInv, Numbered, Body
    <2>4. QED
      BY <2>1, <2>2, <2>3 DEF Numbered
  <1>6. \A b \in Body : Clean(b) => Clean(b)'
    BY <1>1 DEF Clean
  <1>7. \A b \in Body, p \in Plan : Mine(p, b) => Mine(p, b)'
    BY <1>1, <1>2 DEF Mine
  <1>8. \A r \in Robot : registry'[r] # registry[r] => Clean(registry[r])'
    <2> SUFFICES ASSUME NEW r \in Robot, registry'[r] # registry[r]
                 PROVE  Clean(registry[r])'
      OBVIOUS
    <2>1. registry'[r] = made + 1 /\ made + 1 \in Body /\ status' = status
      BY <1>1, <1>3, <1>4 DEF Body
    <2>2. Clean(made + 1)
      BY <1>1, <2>1 DEF SerialInv, Numbered, Clean, Body
    <2>3. QED
      BY <1>6, <2>1, <2>2 DEF Clean
  <1>9. OnlyTouched'
    <2> SUFFICES ASSUME NEW r \in Registered', ~Clean(registry[r])'
                 PROVE  \E p \in Running : Touched(p)' = registry'[r]
      BY <1>2 DEF OnlyTouched
    <2>1. r \in Robot /\ registry'[r] = registry[r] /\ registry[r] \in Body
      BY <1>3, <1>8 DEF Registered, Body
    <2>2. ~Clean(registry[r])
      BY <1>6, <2>1 DEF Clean
    <2>3. PICK p \in Running : Touched(p) = registry[r]
      BY <2>1, <2>2 DEF SerialInv, OnlyTouched, Registered, Body
    <2>4. CASE pc[p] \in {"busy", "clear", "settle", "free"}
      BY <1>2, <2>1, <2>3, <2>4 DEF Touched
    <2>5. CASE pc[p] \in Leasing
      <3>1. rid[p] \in Robot /\ registry[rid[p]] = registry[r]
        BY <1>3, <2>3, <2>5 DEF Touched, Leasing, Chosen, Running
      <3>2. rid[p] = r
        BY <2>1, <3>1 DEF SerialInv, Numbered, Body
      <3>3. QED
        BY <1>2, <2>1, <2>5, <3>2 DEF Touched, Leasing
    <2>6. QED
      BY <2>1, <2>3, <2>4, <2>5 DEF Touched, Body
  <1>10. ASSUME NEW p \in Running
         PROVE  Knows(p)'
    <2> USE <1>2
    <2>0. p \in Plan /\ Knows(p)
      BY DEF SerialInv, Running
    <2>1. pc[p] \in Chosen =>
             /\ registry[rid[p]] \in Body
             /\ registry'[rid[p]] \in Body
             /\ registry'[rid[p]] = registry[rid[p]] \/ registry'[rid[p]] = made + 1
      BY <1>1, <1>3, <1>4, <2>0 DEF Knows, Body
    <2>2. body[p] <= made'
      BY <1>1, <1>3, <2>0 DEF Knows
    <2>3. pc[p] \in Aiming =>
             /\ target[p] \in 1 .. made'
             /\ \A r \in Robot : registry'[r] = target[p] => r = rid[p]
      BY <1>1, <1>4, <2>0 DEF Knows
    <2>4. pc[p] \in Chosen /\ registry'[rid[p]] = body[p] => registry[rid[p]] = body[p]
      BY <1>1, <1>3, <2>0, <2>1 DEF Knows
    <2>5. pc[p] \in Leasing =>
             (Mine(p, registry[rid[p]]) \/ Clean(registry[rid[p]]))'
      <3>1. pc[p] \in Leasing => pc[p] \in Chosen /\ rid[p] \in Robot
        BY <1>3, <2>0 DEF Leasing, Chosen
      <3>2. CASE pc[p] \in Leasing /\ registry'[rid[p]] = registry[rid[p]]
        BY <1>6, <1>7, <2>0, <2>1, <3>1, <3>2 DEF Knows, Mine, Clean
      <3>3. CASE pc[p] \in Leasing /\ registry'[rid[p]] # registry[rid[p]]
        BY <1>8, <3>1, <3>3 DEF Clean
      <3>4. QED
        BY <3>2, <3>3
    <2>6. pc[p] \in Leasing \ {"pop", "compare"} /\ registry'[rid[p]] = body[p] =>
             Mine(p, body[p])'
      BY <1>7, <2>0, <2>1, <2>4 DEF Knows, Leasing, Chosen
    <2>7. QED
      BY <1>1, <2>0, <2>1, <2>2, <2>3, <2>4, <2>5, <2>6
      DEF Knows, Chosen, Clean, Mine
  <1>11. QED
    BY <1>2, <1>5, <1>9, <1>10 DEF SerialInv, OneRunning, Untouched
-----------------------------------------------------------------------------
(***************************************************************************)
(* The threads                                                             *)
(***************************************************************************)
(* A running plan is alone, and no object but its own is dirty.            *)
LEMMA Alone ==
    ASSUME SerialInv, NEW p \in Running
    PROVE  /\ Running = {p}
           /\ Knows(p)
           /\ \A r \in Registered : Clean(registry[r]) \/ Touched(p) = registry[r]
  <1>1. Running = {p}
    BY DEF SerialInv, OneRunning
  <1>2. QED
    BY <1>1 DEF SerialInv, OnlyTouched

(* The bookings are those of the running plan.                             *)
LEMMA OwnBookings ==
    ASSUME TypeInv, SerialInv, BookingsInUse, NEW p \in Running
    PROVE  Booked # {} => pc[p] \in InUse
  <1>1. \A r \in Booked : HolderOf(active[r]) \in Plan
    BY DEF TypeInv, TypeOK, Booked, Lease, HolderOf
  <1>2. \A r \in Booked : HolderOf(active[r]) \in Running
    BY <1>1 DEF BookingsInUse, Running
  <1>3. QED
    BY <1>2, Alone DEF BookingsInUse, InUse

(* What has to be shown of a step of the plan that runs.                   *)
LEMMA SerialFrame ==
    ASSUME TypeInv, SerialInv, NEW p \in Plan, Running \subseteq {p},
           pc' = [pc EXCEPT ![p] = pc'[p]], pc'[p] # "ready",
           \A q \in Plan : q # p =>
              UNCHANGED <<todo[q], sweeps[q], body[q]>>,
           Numbered',
           \A r \in Registered' :
              \/ lease'[registry'[r]] = NoLease /\ status'[registry'[r]] # "BUSY"
              \/ p \in Running' /\ Touched(p)' = registry'[r],
           p \in Running' => Knows(p)'
    PROVE  SerialInv'
  <1>1. Running' \subseteq {p}
    BY DEF Running, TypeInv, TypeOK
  <1>2. OnlyTouched'
    BY DEF OnlyTouched, Clean
  <1>3. \A q \in Plan : Untouched(q)'
    BY DEF SerialInv, Untouched, TypeInv, TypeOK
  <1>4. QED
    BY <1>1, <1>2, <1>3 DEF SerialInv, OneRunning

(* An object already registered may be changed without touching the rest.  *)
LEMMA StillNumbered ==
    ASSUME TypeInv, Numbered, UNCHANGED <<registry, made>>, NEW b \in Nat, b <= made,
           \A c \in Body : c # b => UNCHANGED <<lease[c], status[c]>>
    PROVE  Numbered'
  BY DEF TypeInv, TypeOK, FleetTypeOK, Numbered, Body

(* A step that leaves the objects and the registry alone.                  *)
LEMMA SerialQuiet ==
    ASSUME TypeInv, SerialInv, NEW p \in Plan, Running \subseteq {p},
           pc' = [pc EXCEPT ![p] = pc'[p]], pc'[p] # "ready",
           \A q \in Plan : q # p =>
              UNCHANGED <<todo[q], sweeps[q], body[q]>>,
           UNCHANGED <<registry, made, lease, status>>,
           \A r \in Registered :
              Clean(registry[r]) \/ (p \in Running' /\ Touched(p)' = registry[r]),
           p \in Running' => Knows(p)'
    PROVE  SerialInv'
  <1>1. Numbered'
    BY DEF SerialInv, Numbered
  <1>2. Registered' = Registered
    BY DEF Registered
  <1>3. QED
    BY <1>1, <1>2, SerialFrame DEF Clean

(* A plan begins when nobody runs, and has touched nothing yet.            *)
LEMMA SerialBegin ==
    ASSUME ~Overlap, TypeInv, SerialInv, NEW p \in Plan, Begin(p)
    PROVE  SerialInv'
  <1>1. /\ Running = {} /\ pc[p] = "ready"
        /\ pc'[p] \in {"select", "done"} /\ pc' = [pc EXCEPT ![p] = pc'[p]]
        /\ UNCHANGED <<registry, made, lease, status, rid, body, todo, sweeps>>
    BY DEF Begin, Goto, fleetVars, TypeInv, TypeOK
  <1>2. \A r \in Registered : Clean(registry[r])
    BY <1>1 DEF SerialInv, OnlyTouched
  <1>3. todo[p] = {} /\ sweeps[p] = 0 /\ body[p] = 0 /\ made \in Nat
    BY <1>1 DEF SerialInv, Untouched, TypeInv, TypeOK, FleetTypeOK
  <1>4. p \in Running' => Knows(p)'
    BY <1>1, <1>3 DEF Running, Knows, Releasing, Chosen, Aiming, Leasing, InUse
  <1>5. QED
    BY <1>1, <1>2, <1>4, SerialQuiet

(* The steps that bring a running plan to a robot and its lease.           *)
LEMMA SerialLease ==
    ASSUME TypeInv, TypeInv', SerialInv, NEW p \in Running,
           Select(p) \/ Check(p) \/ Grant(p) \/ MarkBusy(p)
    PROVE  SerialInv'
  <1>0. /\ p \in Plan /\ Running = {p} /\ Knows(p)
        /\ \A r \in Registered : Clean(registry[r]) \/ Touched(p) = registry[r]
        /\ made \in Nat /\ registry \in [Robot -> 0 .. MaxBody]
        /\ \A r \in Robot : registry[r] <= made
        /\ pc[p] \in Chosen => rid[p] \in Robot
    BY Alone DEF Running, SerialInv, Numbered, TypeInv, TypeOK, FleetTypeOK,
                 RobotChosen, Chosen
  <1>1. CASE Select(p)
    <2>1. /\ pc[p] = "select" /\ pc'[p] \in {"check", "advance"}
          /\ pc' = [pc EXCEPT ![p] = pc'[p]]
          /\ UNCHANGED <<registry, made, lease, status, todo, sweeps>>
          /\ \A q \in Plan : q # p => body'[q] = body[q]
      BY <1>0, <1>1 DEF Select, Goto, fleetVars, TypeInv, TypeOK
    <2>2. \A s : Choice(s) \subseteq Registered
      BY DEF Choice, Candidates, Fit, IdleRobots, Registered
    <2>3. pc'[p] = "check" =>
             /\ registry[rid'[p]] \in Body
             /\ body'[p] = registry[rid'[p]]
      BY <1>0, <1>1, <2>1, <2>2
      DEF Select, Goto, Registered, Body, TypeInv, TypeOK
    <2>4. body'[p] <= made
      BY <1>0, <1>1, <2>1, <2>2
      DEF Select, Goto, Registered, Knows, TypeInv, TypeOK
    <2>5. Knows(p)'
      BY <1>0, <2>1, <2>3, <2>4
      DEF Knows, Releasing, Chosen, Aiming, Leasing, InUse
    <2>6. \A r \in Registered : Clean(registry[r])
      BY <1>0, <2>1 DEF Touched, Leasing, Registered
    <2>7. QED
      BY <1>0, <2>1, <2>5, <2>6, SerialQuiet
  <1>2. CASE Check(p)
    <2>1. /\ pc[p] = "check" /\ pc'[p] \in {"grant", "select"}
          /\ pc' = [pc EXCEPT ![p] = pc'[p]]
          /\ UNCHANGED <<registry, made, lease, status, rid, body, todo, sweeps>>
          /\ pc'[p] = "grant" => target'[p] = registry[rid[p]]
      BY <1>0, <1>2 DEF Check, Goto, fleetVars, TypeInv, TypeOK
    <2>2. rid[p] \in Robot /\ registry[rid[p]] \in 1 .. made
      BY <1>0, <2>1 DEF Knows, Chosen, Body
    <2>3. \A r \in Robot : registry[r] = registry[rid[p]] => r = rid[p]
      BY <2>2 DEF SerialInv, Numbered
    <2>4. Knows(p)'
      BY <1>0, <2>1, <2>2, <2>3
      DEF Knows, Releasing, Chosen, Aiming, Leasing, InUse
    <2>5. \A r \in Registered : Clean(registry[r])
      BY <1>0, <2>1 DEF Touched, Leasing, Registered
    <2>6. QED
      BY <1>0, <2>1, <2>4, <2>5, SerialQuiet
  <1>3. CASE Grant(p)
    <2>1. /\ pc[p] = "grant" /\ pc'[p] = "busy" /\ pc' = [pc EXCEPT ![p] = "busy"]
          /\ lease' = [lease EXCEPT ![target[p]] = LeaseOf(p)]
          /\ UNCHANGED <<registry, made, status, rid, body, target, todo, sweeps,
                         at, attempt>>
      BY <1>0, <1>3 DEF Grant, Goto, TypeInv, TypeOK
    <2>2. target[p] \in 1 .. made /\ target[p] \in Body
      BY <1>0, <2>1 DEF Knows, Aiming, Body, TypeInv, TypeOK
    <2>3. lease'[target[p]] = LeaseOf(p)' /\ \A b \in Body : b # target[p] => lease'[b] = lease[b]
      BY <2>1, <2>2 DEF TypeInv, TypeOK, LeaseOf
    <2>4. Numbered'
      BY <1>0, <2>1, <2>2, <2>3, StillNumbered DEF SerialInv
    <2>5. Knows(p)'
      BY <1>0, <2>1, <2>2, <2>3
      DEF Knows, Releasing, Chosen, Aiming, Leasing, InUse
    <2>6. Touched(p)' = target[p] /\ p \in Running'
      BY <1>0, <2>1 DEF Touched, Running
    <2>7. \A r \in Registered' :
             \/ lease'[registry'[r]] = NoLease /\ status'[registry'[r]] # "BUSY"
             \/ Touched(p)' = registry'[r]
      BY <1>0, <2>1, <2>3, <2>6 DEF Touched, Leasing, Registered, Clean, Body
    <2>8. QED
      BY <1>0, <2>1, <2>4, <2>5, <2>6, <2>7, SerialFrame
  <1>4. CASE MarkBusy(p)
    <2>1. /\ pc[p] = "busy" /\ pc'[p] = "book" /\ pc' = [pc EXCEPT ![p] = "book"]
          /\ status' = [status EXCEPT ![target[p]] = "BUSY"]
          /\ UNCHANGED <<registry, made, lease, rid, body, todo, sweeps, at, attempt>>
      BY <1>0, <1>4 DEF MarkBusy, Goto, TypeInv, TypeOK
    <2>2. target[p] \in 1 .. made /\ target[p] \in Body
      BY <1>0, <2>1 DEF Knows, Aiming, Body, TypeInv, TypeOK
    <2>3. status'[target[p]] = "BUSY" /\ \A b \in Body : b # target[p] => status'[b] = status[b]
      BY <2>1, <2>2 DEF TypeInv, TypeOK, FleetTypeOK
    <2>4. Numbered'
      BY <1>0, <2>1, <2>2, <2>3, StillNumbered DEF SerialInv
    <2>5. /\ rid[p] \in Robot /\ registry[rid[p]] \in Body
          /\ lease[target[p]] = LeaseOf(p) /\ LeaseOf(p)' = LeaseOf(p)
          /\ \A r \in Robot : registry[r] = target[p] => r = rid[p]
      BY <1>0, <2>1 DEF Knows, Chosen, Aiming, LeaseOf
    <2>6. \/ registry[rid[p]] = target[p]
          \/ Clean(registry[rid[p]]) /\ registry[rid[p]] # target[p]
      BY <1>0, <2>1, <2>5 DEF Touched, Registered, Body
    <2>7. (Mine(p, registry[rid[p]]) \/ Clean(registry[rid[p]]))'
      BY <2>1, <2>3, <2>5, <2>6 DEF Mine, Clean
    <2>8. registry[rid[p]] = body[p] => Mine(p, body[p])'
      BY <1>0, <2>1, <2>3, <2>5 DEF Knows, Mine
    <2>9. Knows(p)'
      BY <1>0, <2>1, <2>5, <2>7, <2>8
      DEF Knows, Releasing, Chosen, Aiming, Leasing, InUse
    <2>10. Touched(p)' = registry[rid[p]] /\ p \in Running'
      BY <1>0, <2>1 DEF Touched, Leasing, Running
    <2>11. \A r \in Registered' :
              \/ lease'[registry'[r]] = NoLease /\ status'[registry'[r]] # "BUSY"
              \/ Touched(p)' = registry'[r]
      BY <1>0, <2>1, <2>3, <2>5, <2>10 DEF Touched, Registered, Clean, Body
    <2>12. QED
      BY <1>0, <2>1, <2>4, <2>9, <2>10, <2>11, SerialFrame
  <1>5. QED
    BY <1>1, <1>2, <1>3, <1>4

(* The steps of an attempt: they leave the objects alone.                  *)
LEMMA SerialAttempt ==
    ASSUME TypeInv, TypeInv', SerialInv, NEW p \in Running,
           Book(p) \/ Gate(p) \/ Dispatch(p) \/ Perform(p) \/ Pop(p)
    PROVE  SerialInv'
  <1>0. /\ p \in Plan /\ Running = {p} /\ Knows(p)
        /\ \A r \in Registered : Clean(registry[r]) \/ Touched(p) = registry[r]
        /\ pc[p] \in Chosen => rid[p] \in Robot
        /\ made \in Nat
    BY Alone DEF Running, TypeInv, TypeOK, FleetTypeOK, RobotChosen, Chosen
  <1>1. /\ pc[p] \in InUse \cup {"book"}
        /\ pc'[p] \in InUse \cup {"advance", "compare"}
        /\ pc' = [pc EXCEPT ![p] = pc'[p]]
        /\ UNCHANGED <<registry, made, lease, status, rid, todo, sweeps, at, attempt>>
        /\ \A q \in Plan : q # p => body'[q] = body[q]
        /\ body'[p] \in {0, body[p]}
        /\ pc'[p] \in InUse => body'[p] = body[p]
    BY <1>0 DEF Book, Gate, Dispatch, Perform, Pop, Goto, fleetVars, InUse,
                TypeInv, TypeOK
  <1>2. rid[p] \in Robot /\ registry[rid[p]] \in Body /\ LeaseOf(p)' = LeaseOf(p)
    BY <1>0, <1>1 DEF Knows, Chosen, InUse, LeaseOf
  <1>3. /\ Mine(p, registry[rid[p]]) \/ Clean(registry[rid[p]])
        /\ pc[p] # "pop" /\ registry[rid[p]] = body[p] => Mine(p, body[p])
    BY <1>0, <1>1 DEF Knows, Leasing, InUse
  <1>4. pc'[p] # "advance"
    <2>1. pc[p] = "pop" => active[rid[p]] # NoLease
      BY <1>0, LeaseOfType DEF Knows, InUse, TypeInv
    <2>2. QED
      BY <1>0, <2>1 DEF Book, Gate, Dispatch, Perform, Pop, Goto, TypeInv, TypeOK
  <1>5. pc'[p] \in InUse => active'[rid[p]] = LeaseOf(p)
    <2>1. CASE Book(p)
      BY <1>0, <1>2, <2>1 DEF Book, TypeInv, TypeOK
    <2>2. CASE ~Book(p)
      <3>1. pc'[p] \in InUse => active' = active /\ pc[p] \in InUse
        BY <1>0, <1>1, <2>2
        DEF Gate, Dispatch, Perform, Pop, Goto, InUse, TypeInv, TypeOK
      <3>2. QED
        BY <1>0, <3>1 DEF Knows
    <2>3. QED
      BY <2>1, <2>2
  <1>6. pc'[p] = "compare" => ticket'[p] = LeaseOf(p)
    <2>1. pc'[p] = "compare" => pc[p] = "pop" /\ ticket'[p] = active[rid[p]]
      BY <1>0 DEF Book, Gate, Dispatch, Perform, Pop, Goto, TypeInv, TypeOK
    <2>2. QED
      BY <1>0, <2>1 DEF Knows, InUse
  <1>7. (Mine(p, registry[rid[p]]) \/ Clean(registry[rid[p]]))'
    BY <1>1, <1>2, <1>3 DEF Mine, Clean
  <1>8. pc'[p] \in Leasing \ {"pop", "compare"} /\ registry'[rid'[p]] = body'[p] =>
           Mine(p, body[p])'
    <2>1. pc'[p] \in Leasing \ {"pop", "compare"} => pc[p] # "pop" /\ body'[p] = body[p]
      BY <1>0, <1>1 DEF Book, Gate, Dispatch, Perform, Pop, Goto, InUse, Leasing,
                        TypeInv, TypeOK
    <2>2. QED
      BY <1>1, <1>2, <1>3, <2>1 DEF Mine
  <1>9. Knows(p)'
    BY <1>0, <1>1, <1>2, <1>4, <1>5, <1>6, <1>7, <1>8
    DEF Knows, Releasing, Chosen, Aiming, InUse, Leasing
  <1>10. \A r \in Registered : Clean(registry[r]) \/ Touched(p)' = registry[r]
    BY <1>0, <1>1, <1>4 DEF Touched, Leasing, InUse
  <1>11. p \in Running' /\ pc'[p] # "ready"
    BY <1>0, <1>1 DEF Running, InUse
  <1>12. \A q \in Plan : q # p => UNCHANGED <<todo[q], sweeps[q], body[q]>>
    BY <1>1
  <1>13. QED
    BY <1>0, <1>1, <1>9, <1>10, <1>11, <1>12, SerialQuiet

(* The steps of a release: the lease is found where it was taken, or the   *)
(* object that replaces it is clean.                                       *)
LEMMA SerialRelease ==
    ASSUME TypeInv, TypeInv', SerialInv, NEW p \in Running,
           Compare(p) \/ Clear(p) \/ Settle(p) \/ MarkIdle(p)
    PROVE  SerialInv'
  <1>0. /\ p \in Plan /\ Running = {p} /\ Knows(p)
        /\ \A r \in Registered : Clean(registry[r]) \/ Touched(p) = registry[r]
        /\ made \in Nat /\ registry \in [Robot -> 0 .. MaxBody]
        /\ \A r \in Robot : registry[r] <= made
        /\ pc[p] \in Chosen => rid[p] \in Robot
    BY Alone DEF Running, SerialInv, Numbered, TypeInv, TypeOK, FleetTypeOK,
                 RobotChosen, Chosen
  <1>1. CASE Compare(p)
    <2>1. sweeps[p] = 0 /\ rid[p] \in Robot /\ registry[rid[p]] \in 1 .. made
      BY <1>0, <1>1 DEF Compare, Knows, Chosen, Releasing, Body
    <2>2. /\ pc[p] = "compare" /\ pc'[p] \in {"clear", "advance"}
          /\ pc' = [pc EXCEPT ![p] = pc'[p]]
          /\ UNCHANGED <<registry, made, lease, status, rid, body, todo, sweeps>>
          /\ pc'[p] = "clear" => target'[p] = registry[rid[p]]
          /\ pc'[p] = "advance" => lease[registry[rid[p]]] # ticket[p]
      BY <1>0, <1>1, <2>1 DEF Compare, Caller, Goto, fleetVars, TypeInv, TypeOK
    <2>3. pc'[p] = "advance" => Clean(registry[rid[p]])
      BY <1>0, <2>2 DEF Knows, Leasing, Mine
    <2>4. \A r \in Robot : registry[r] = registry[rid[p]] => r = rid[p]
      BY <2>1 DEF SerialInv, Numbered
    <2>5. Knows(p)'
      BY <1>0, <2>1, <2>2, <2>4
      DEF Knows, Releasing, Chosen, Aiming, Leasing, InUse, Body
    <2>6. p \in Running' /\ (pc'[p] = "clear" => Touched(p)' = registry[rid[p]])
      BY <1>0, <2>2 DEF Running, Touched
    <2>7. \A r \in Registered : Clean(registry[r]) \/ registry[r] = registry[rid[p]]
      BY <1>0, <2>2 DEF Touched, Leasing
    <2>8. \A r \in Registered : Clean(registry[r]) \/ Touched(p)' = registry[r]
      BY <2>2, <2>3, <2>6, <2>7
    <2>9. QED
      BY <1>0, <2>2, <2>5, <2>6, <2>8, SerialQuiet
  <1>2. CASE Clear(p)
    <2>1. /\ pc[p] = "clear" /\ pc'[p] = "settle" /\ pc' = [pc EXCEPT ![p] = "settle"]
          /\ lease' = [lease EXCEPT ![target[p]] = NoLease]
          /\ UNCHANGED <<registry, made, status, rid, body, target, todo, sweeps>>
      BY <1>0, <1>2 DEF Clear, Goto, TypeInv, TypeOK
    <2>2. target[p] \in 1 .. made /\ target[p] \in Body
      BY <1>0, <2>1 DEF Knows, Aiming, Body, TypeInv, TypeOK
    <2>3. lease'[target[p]] = NoLease /\ \A b \in Body : b # target[p] => lease'[b] = lease[b]
      BY <2>1, <2>2 DEF TypeInv, TypeOK
    <2>4. Numbered'
      BY <1>0, <2>1, <2>2, <2>3, StillNumbered DEF SerialInv
    <2>5. Knows(p)'
      BY <1>0, <2>1, <2>2, <2>3
      DEF Knows, Releasing, Chosen, Aiming, Leasing, InUse
    <2>6. Touched(p)' = target[p] /\ p \in Running'
      BY <1>0, <2>1 DEF Touched, Running
    <2>7. \A r \in Registered' :
             \/ lease'[registry'[r]] = NoLease /\ status'[registry'[r]] # "BUSY"
             \/ Touched(p)' = registry'[r]
      BY <1>0, <2>1, <2>3, <2>6 DEF Touched, Registered, Clean, Body
    <2>8. QED
      BY <1>0, <2>1, <2>4, <2>5, <2>6, <2>7, SerialFrame
  <1>3. CASE Settle(p)
    <2>1. /\ sweeps[p] = 0 /\ lease[target[p]] = NoLease /\ pc[p] = "settle"
          /\ target[p] \in 1 .. made /\ target[p] \in Body
      BY <1>0, <1>3 DEF Settle, Knows, Releasing, Aiming, Body, TypeInv, TypeOK
    <2>2. /\ pc'[p] \in {"free", "advance"}
          /\ pc' = [pc EXCEPT ![p] = pc'[p]]
          /\ UNCHANGED <<registry, made, lease, status, rid, body, todo, sweeps>>
          /\ pc'[p] = "free" => target'[p] = target[p]
          /\ pc'[p] = "advance" => status[target[p]] # "BUSY"
      BY <1>0, <1>3, <2>1 DEF Settle, Caller, Goto, fleetVars, TypeInv, TypeOK
    <2>3. pc'[p] = "advance" => Clean(target[p])
      BY <2>1, <2>2 DEF Clean
    <2>4. Knows(p)'
      BY <1>0, <2>1, <2>2 DEF Knows, Releasing, Chosen, Aiming, Leasing, InUse
    <2>5. p \in Running' /\ (pc'[p] = "free" => Touched(p)' = target[p])
      BY <1>0, <2>2 DEF Running, Touched
    <2>6. \A r \in Registered : Clean(registry[r]) \/ registry[r] = target[p]
      BY <1>0, <2>1 DEF Touched
    <2>7. \A r \in Registered : Clean(registry[r]) \/ Touched(p)' = registry[r]
      BY <2>2, <2>3, <2>5, <2>6
    <2>8. QED
      BY <1>0, <2>2, <2>4, <2>5, <2>7, SerialQuiet
  <1>4. CASE MarkIdle(p)
    <2>1. sweeps[p] = 0 /\ lease[target[p]] = NoLease /\ pc[p] = "free"
      BY <1>0, <1>4 DEF MarkIdle, Knows, Releasing
    <2>2. /\ pc'[p] = "advance" /\ pc' = [pc EXCEPT ![p] = "advance"]
          /\ status' = [status EXCEPT ![target[p]] = "IDLE"]
          /\ UNCHANGED <<registry, made, lease, rid, body, todo, sweeps>>
      BY <1>0, <1>4, <2>1 DEF MarkIdle, Caller, Goto, TypeInv, TypeOK
    <2>3. target[p] \in 1 .. made /\ target[p] \in Body
      BY <1>0, <2>1 DEF Knows, Aiming, Body, TypeInv, TypeOK
    <2>4. status'[target[p]] # "BUSY" /\ \A b \in Body : b # target[p] => status'[b] = status[b]
      BY <2>2, <2>3 DEF TypeInv, TypeOK, FleetTypeOK
    <2>5. Numbered'
      BY <1>0, <2>2, <2>3, <2>4, StillNumbered DEF SerialInv
    <2>6. Knows(p)'
      BY <1>0, <2>1, <2>2 DEF Knows, Releasing, Chosen, Aiming, Leasing, InUse
    <2>7. \A r \in Registered' :
             lease'[registry'[r]] = NoLease /\ status'[registry'[r]] # "BUSY"
      BY <1>0, <2>1, <2>2, <2>4 DEF Touched, Registered, Clean, Body
    <2>8. QED
      BY <1>0, <2>2, <2>5, <2>6, <2>7, SerialFrame
  <1>5. QED
    BY <1>1, <1>2, <1>3, <1>4

(* The steps at the end of an attempt and of a plan.  Nothing is booked,   *)
(* so there is nothing to sweep.                                           *)
LEMMA SerialEnd ==
    ASSUME TypeInv, TypeInv', SerialInv, BookingsInUse, NEW p \in Running,
           Advance(p) \/ Snapshot(p) \/ Sweep(p) \/ Wipe(p)
    PROVE  SerialInv'
  <1>0. /\ p \in Plan /\ Running = {p} /\ Knows(p)
        /\ \A r \in Registered : Clean(registry[r]) \/ Touched(p) = registry[r]
        /\ made \in Nat
    BY Alone DEF Running, TypeInv, TypeOK, FleetTypeOK
  <1>1. /\ pc[p] \in {"advance"} \cup Releasing
        /\ pc'[p] \in {"select", "done"} \cup Releasing
        /\ pc' = [pc EXCEPT ![p] = pc'[p]]
        /\ UNCHANGED <<registry, made, lease, status, body>>
        /\ \A q \in Plan : q # p => UNCHANGED <<todo[q], sweeps[q]>>
    <2>1. pc[p] = "sweep" => todo[p] = {}
      BY <1>0 DEF Knows
    <2>2. QED
      BY <1>0, <2>1 DEF Advance, NextStep, Retry, Finish, Snapshot, Sweep, Wipe,
                        Goto, fleetVars, Releasing, TypeInv, TypeOK
  <1>2. todo'[p] = {}
    <2>1. CASE Snapshot(p)
      <3>1. Booked = {}
        BY <2>1, OwnBookings DEF Snapshot, InUse
      <3>2. QED
        BY <1>0, <2>1, <3>1 DEF Snapshot, TypeInv, TypeOK
    <2>2. CASE ~Snapshot(p)
      BY <1>0, <2>2 DEF Knows, Advance, Sweep, Wipe, TypeInv, TypeOK
    <2>3. QED
      BY <2>1, <2>2
  <1>3. pc'[p] = "select" => sweeps'[p] = 0
    BY <1>0, <1>1 DEF Knows, Releasing, Advance, NextStep, Retry, Finish, Snapshot,
                      Sweep, Wipe, Goto, TypeInv, TypeOK
  <1>4. p \in Running' => Knows(p)'
    BY <1>0, <1>1, <1>2, <1>3
    DEF Knows, Running, Releasing, Chosen, Aiming, Leasing, InUse
  <1>5. \A r \in Registered : Clean(registry[r])
    BY <1>0, <1>1 DEF Touched, Leasing, Registered, Releasing
  <1>6. pc'[p] # "ready"
    BY <1>1 DEF Releasing
  <1>7. QED
    BY <1>0, <1>1, <1>4, <1>5, <1>6, SerialQuiet

(* With plans served one at a time, the invariant holds.                   *)
LEMMA SerialStep ==
    ASSUME ~Overlap
    PROVE  TypeInv /\ TypeInv' /\ SerialInv /\ BookingsInUse /\ [Next]_vars => SerialInv'
  <1> SUFFICES ASSUME TypeInv, TypeInv', SerialInv, BookingsInUse, [Next]_vars
               PROVE  SerialInv'
    OBVIOUS
  <1>1. CASE FleetStep
    BY <1>1, SerialFleet
  <1>2. ASSUME NEW p \in Plan, Thread(p)
        PROVE  SerialInv'
    <2>1. CASE Begin(p)
      BY <2>1, SerialBegin
    <2>2. CASE ~Begin(p)
      <3>1. p \in Running
        BY <1>2, <2>2
        DEF Thread, Select, Check, Grant, MarkBusy, Book, Gate, Dispatch, Perform,
            Pop, Compare, Clear, Settle, MarkIdle, Advance, Snapshot, Sweep, Wipe, Running
      <3>2. QED
        BY <1>2, <2>2, <3>1, SerialLease, SerialAttempt, SerialRelease, SerialEnd
        DEF Thread
    <2>3. QED
      BY <2>1, <2>2
  <1>3. CASE UNCHANGED vars
    BY <1>3
    DEF vars, fleetVars, engineVars, threadVars, SerialInv, OneRunning, Running,
        Numbered, OnlyTouched, Registered, Clean, Touched, Knows, Mine, LeaseOf,
        Untouched
  <1>4. QED
    BY <1>1, <1>2, <1>3 DEF Next

(* So it is an invariant of every behaviour.                               *)
LEMMA SerialInvariant ==
    ASSUME ~Overlap
    PROVE  Spec => [](TypeInv /\ BookingsInUse /\ SerialInv)
  <1>1. Spec => []TypeInv
    BY TypeInvariant
  <1>2. Spec => []BookingsInUse
    BY BookingsAlwaysInUse
  <1>3. Init => SerialInv
    BY SerialInit
  <1>4. TypeInv /\ TypeInv' /\ SerialInv /\ BookingsInUse /\ [Next]_vars => SerialInv'
    BY SerialStep
  <1> HIDE DEF TypeInv, BookingsInUse, SerialInv, Init, Next, vars
  <1>5. QED
    BY <1>1, <1>2, <1>3, <1>4, PTL DEF Spec

-----------------------------------------------------------------------------
(* Plans served one at a time leave no booking, no lease and no BUSY robot *)
(* behind, however their steps ended and whatever the fleet did.           *)
THEOREM QuiescentAlwaysFree ==
    ASSUME ~Overlap
    PROVE  Spec => []QuiescentFree
  <1>1. TypeInv /\ BookingsInUse /\ SerialInv => QuiescentFree
    <2> SUFFICES ASSUME TypeInv, BookingsInUse, SerialInv, Running = {}
                 PROVE  /\ Booked = {}
                        /\ \A r \in Registered : Clean(registry[r])
      BY DEF QuiescentFree, Clean
    <2>1. \A r \in Booked : HolderOf(active[r]) \in Plan
      BY DEF TypeInv, TypeOK, Booked, Lease, HolderOf
    <2>2. \A r \in Booked : HolderOf(active[r]) \in Running
      BY <2>1 DEF BookingsInUse, Running
    <2>3. QED
      BY <2>2 DEF SerialInv, OnlyTouched
  <1>2. QED
    BY SerialInvariant, <1>1, PTL

(* A robot under command stays booked for the plan that commands it, and   *)
(* what is registered as that robot is leased to the plan and not on offer,*)
(* or has replaced the object the plan chose and is free of any lease.     *)
THEOREM CommandedAlwaysLeased ==
    ASSUME ~Overlap
    PROVE  Spec => []CommandedIsLeased
  <1>1. SerialInv => CommandedIsLeased
    <2> SUFFICES ASSUME SerialInv, NEW p \in Plan, pc[p] \in {"dispatch", "perform"}
                 PROVE  /\ active[rid[p]] = LeaseOf(p)
                        /\ \/ Mine(p, registry[rid[p]])
                           \/ registry[rid[p]] # body[p] /\ Clean(registry[rid[p]])
      BY DEF CommandedIsLeased, Mine, Clean
    <2>1. Knows(p)
      BY DEF SerialInv, Running
    <2>2. pc[p] \in InUse /\ pc[p] \in Leasing \ {"pop", "compare"}
      BY DEF InUse, Leasing
    <2>3. QED
      BY <2>1, <2>2 DEF Knows
  <1>2. QED
    BY SerialInvariant, <1>1, PTL

(* The engine does not try a step more often than its skill allows.        *)
Counted == \A p \in Plan : attempt[p] <= Retries[skillOf(p)]

LEMMA CountedInit == Init => Counted
  <1> SUFFICES ASSUME Init, NEW p \in Plan PROVE attempt[p] <= Retries[skillOf(p)]
    BY DEF Counted
  <1>1. attempt[p] = 0 /\ at[p] = 1
    BY DEF Init, EngineInit
  <1>2. Script[p] \in Seq(Skill) /\ Len(Script[p]) > 0
    BY EngineAssumption
  <1>3. skillOf(p) \in Skill
    BY <1>1, <1>2 DEF skillOf
  <1>4. QED
    BY <1>1, <1>3, EngineAssumption

(* Only the end of an attempt counts it, and it asks MayRetry first.       *)
LEMMA CountedStep == TypeInv /\ TypeInv' /\ Counted /\ [Next]_vars => Counted'
  <1> SUFFICES ASSUME TypeInv, TypeInv', Counted, [Next]_vars, NEW q \in Plan
               PROVE  attempt'[q] <= Retries[skillOf(q)']
    BY DEF Counted
  <1>1. /\ at \in [Plan -> Nat \ {0}] /\ attempt \in [Plan -> Nat]
        /\ attempt[q] <= Retries[skillOf(q)]
    BY DEF TypeInv, TypeOK, Counted
  <1>2. skillOf(q) \in Skill /\ skillOf(q)' \in Skill
    <2>1. Script[q] \in Seq(Skill)
      BY EngineAssumption
    <2>2. at[q] \in 1 .. Len(Script[q]) /\ at'[q] \in 1 .. Len(Script[q])
      BY <2>1 DEF TypeInv, TypeOK
    <2>3. QED
      BY <2>1, <2>2 DEF skillOf
  <1>3. Retries[skillOf(q)] \in Nat /\ Retries[skillOf(q)'] \in Nat
    BY <1>2, EngineAssumption
  <1>4. CASE UNCHANGED <<at, attempt>>
    BY <1>1, <1>4 DEF skillOf
  <1>5. ASSUME NEW p \in Plan, Advance(p)
        PROVE  attempt'[q] <= Retries[skillOf(q)']
    <2>1. CASE UNCHANGED <<at, attempt>>
      BY <1>4, <2>1
    <2>2. CASE NextStep(p)
      BY <1>1, <1>3, <2>2 DEF NextStep, skillOf
    <2>3. CASE Retry(p)
      BY <1>1, <1>3, <2>3 DEF Retry, MayRetry, skillOf
    <2>4. QED
      BY <1>5, <2>1, <2>2, <2>3 DEF Advance, Finish
  <1>6. CASE FleetStep \/ UNCHANGED vars
    BY <1>4, <1>6 DEF FleetStep, vars, engineVars, threadVars
  <1>7. ASSUME NEW p \in Plan, Thread(p), ~Advance(p)
        PROVE  attempt'[q] <= Retries[skillOf(q)']
    <2>1. UNCHANGED <<at, attempt>>
      BY <1>7
      DEF Thread, Begin, Select, Check, Grant, MarkBusy, Book, Gate, Dispatch,
          Perform, Pop, Compare, Clear, Settle, MarkIdle, Snapshot, Sweep, Wipe
    <2>2. QED
      BY <1>4, <2>1
  <1>8. QED
    BY <1>5, <1>6, <1>7 DEF Next

(* With plans served one at a time no plan meets a lease, so every turn of *)
(* the loop of _execute_step_with_retry is an attempt that counts, and a   *)
(* step takes at most max_retries + 1 of them (l. 163, 203-207).           *)
THEOREM TurnsAlwaysCount ==
    ASSUME ~Overlap
    PROVE  Spec => []TurnsCount
  <1>1. TypeInv /\ SerialInv /\ Counted => TurnsCount
    <2> SUFFICES ASSUME TypeInv, SerialInv, Counted, NEW p \in Plan, pc[p] = "check"
                 PROVE  lease[registry[rid[p]]] = NoLease
      BY DEF TurnsCount, Counted
    <2>1. p \in Running
      BY DEF Running
    <2>2. registry[rid[p]] \in Body /\ rid[p] \in Robot
      BY <2>1 DEF SerialInv, Knows, Chosen, TypeInv, RobotChosen
    <2>3. rid[p] \in Registered
      BY <2>2, FleetAssumption DEF Registered, Body
    <2>4. Touched(p) = 0
      BY DEF Touched, Leasing
    <2>5. QED
      BY <2>1, <2>2, <2>3, <2>4, Alone, FleetAssumption DEF Clean, Body
  <1>2. Spec => []TypeInv
    BY TypeInvariant
  <1> HIDE DEF TypeInv, BookingsInUse, SerialInv, Counted, TurnsCount, Init, Next, vars
  <1>3. QED
    BY SerialInvariant, CountedInit, CountedStep, <1>1, <1>2, PTL DEF Spec
=============================================================================
