----------------------------- MODULE SimBridge -----------------------------
(***************************************************************************)
(* SimulationBridge with its pure-Python bodies: the deadman timer that    *)
(* puts a body without a brain heartbeat into safe state, the heartbeat    *)
(* thread, and the skills that the main thread dispatches.                 *)
(*                                                                         *)
(* Time is the simulator's own (_time).  It advances only in tick(), which *)
(* both threads call: the heartbeat thread once per beat, the main thread  *)
(* from within its skills, as fast as it can.  A tick is three steps -     *)
(* _time is advanced outside the lock, the deadman check and the motion    *)
(* each hold it - and the other thread may run between them.  All times    *)
(* count one unit.                                                         *)
(***************************************************************************)
EXTENDS Integers

CONSTANTS
    Robot,      \* ids of the simulated bodies
    Deadman,    \* HEARTBEAT_DEADMAN_S
    Beat,       \* interval of the heartbeat thread, and its tick
    Fresh,      \* age of a heartbeat that dispatch_skill accepts (0.4 s)
    Step,       \* dt of the navigation loop
    MaxNav,     \* max_sim_t of the navigation loop
    Settle,     \* the tick that ends a navigation (0.01 s)
    Look,       \* the tick of an inspection that turns the body (0.1 s)
    Waits,      \* durations a wait skill may ask for
    Cut,        \* the tick of simulate_network_disconnect (0.1 s)
    Outage,     \* how long it ticks
    Far,        \* most strides a navigation target is away
    MaxAge      \* bound on the ages below

VARIABLES
    age,        \* robot -> time since its expiry was renewed
    stale,      \* time since _last_brain_heartbeat_at
    safe,       \* robot -> safe_state
    moving,     \* robot -> whether v or w is not zero
    dist,       \* robot -> strides to its navigation target
    pc,         \* thread -> its next step
    owing,      \* thread -> robots whose expiry it still has to renew
    dt,         \* length of the main thread's tick
    back,       \* where the main thread continues after it
    job,        \* robot of the skill that the main thread executes
    elapsed,    \* time it spent in its loop
    answer,     \* success of the last skill: "none", "ok" or "failed"
    stopEvent,  \* _stop_evt of the heartbeat thread
    cut,        \* whether the network is disconnected
    tripped     \* whether safe state met the navigation before its end

bodyVars == <<age, stale, safe, moving, dist>>
mainVars == <<dt, back, job, elapsed, answer>>
linkVars == <<stopEvent, cut>>
simVars == <<bodyVars, pc, owing, mainVars, linkVars, tripped>>

Thread == {"beat", "main"}
Label == {"stamp", "renew", "advance", "check", "move", "wait", "dead", "idle",
          "refresh", "enter", "steer", "finish", "join", "outage", "restart"}
ReturnLabel == {"idle", "enter", "steer", "finish", "outage", "restart"}
Duration == {Beat, Step, Settle, Look, Cut} \cup Waits

ASSUME SimAssumption ==
    /\ Deadman \in Nat /\ Fresh \in Nat /\ Far \in Nat
    /\ MaxNav \in Nat \ {0} /\ Outage \in Nat \ {0}
    /\ Duration \subseteq Nat \ {0}
    /\ MaxAge \in Nat
    /\ Deadman + Beat < MaxAge /\ Deadman + Step < MaxAge /\ Fresh < MaxAge

Smaller(a, b) == IF a < b THEN a ELSE b
Goto(t, label) == pc' = [pc EXCEPT ![t] = label]

(* After seed_demo_factory and start: the bodies were added with an expiry *)
(* in the past and a tick put them into safe state before the heartbeat.   *)
SimInit ==
    /\ age = [r \in Robot |-> 0]
    /\ stale = 0
    /\ safe = [r \in Robot |-> TRUE]
    /\ moving = [r \in Robot |-> FALSE]
    /\ dist = [r \in Robot |-> 0]
    /\ pc = [t \in Thread |-> IF t = "beat" THEN "stamp" ELSE "idle"]
    /\ owing = [t \in Thread |-> {}]
    /\ dt = Step /\ back = "idle" /\ elapsed = 0 /\ answer = "none"
    /\ job \in Robot
    /\ stopEvent = FALSE /\ cut = FALSE /\ tripped = FALSE

-----------------------------------------------------------------------------
(* publish_brain_heartbeat: the time of the heartbeat (Stamp), then the    *)
(* expiry of one body after the other (Renew).  It takes no lock.          *)
Stamp(t) ==
    /\ pc[t] = "stamp"
    /\ stale' = 0
    /\ owing' = [owing EXCEPT ![t] = Robot]
    /\ Goto(t, "renew")
    /\ UNCHANGED <<age, safe, moving, dist, mainVars, linkVars, tripped>>

AfterRenew(t) == IF t = "beat" THEN "advance" ELSE back

(* Mutant: the heartbeat renews nothing. *)
RenewNot(t) ==
    /\ pc[t] = "renew"
    /\ owing' = [owing EXCEPT ![t] = {}]
    /\ Goto(t, AfterRenew(t))
    /\ UNCHANGED <<bodyVars, mainVars, linkVars, tripped>>

Renew(t) ==
    /\ pc[t] = "renew"
    /\ \/ \E r \in owing[t] :
             /\ age' = [age EXCEPT ![r] = 0]
             /\ owing' = [owing EXCEPT ![t] = @ \ {r}]
             /\ UNCHANGED pc
       \/ /\ owing[t] = {}
          /\ Goto(t, AfterRenew(t))
          /\ UNCHANGED <<age, owing>>
    /\ UNCHANGED <<stale, safe, moving, dist, mainVars, linkVars, tripped>>

(***************************************************************************)
(* tick.  No skill ever sets active_skill, so the deceleration at the end  *)
(* of the code never happens.  A body that moves comes a stride nearer to  *)
(* its target, or none yet while it turns.                                 *)
(***************************************************************************)
TickOf(t) == IF t = "beat" THEN Beat ELSE dt
AfterMove(t) == IF t = "beat" THEN "wait" ELSE back

Advance(t) ==
    /\ pc[t] = "advance"
    /\ age' = [r \in Robot |-> Smaller(age[r] + TickOf(t), MaxAge)]
    /\ stale' = Smaller(stale + TickOf(t), MaxAge)
    /\ Goto(t, "check")
    /\ UNCHANGED <<safe, moving, dist, owing, mainVars, linkVars, tripped>>

Expired(r) == age[r] > Deadman

(* check_deadman_safe_state *)
Deadmen ==
    /\ safe' = [r \in Robot |-> Expired(r)]
    /\ moving' = [r \in Robot |-> moving[r] /\ (safe[r] \/ ~Expired(r))]

(* Mutant: the check looks only at bodies that stand still. *)
CheckIdle(t) ==
    /\ pc[t] = "check"
    /\ safe' = [r \in Robot |-> Expired(r) /\ ~moving[r]]
    /\ Goto(t, "move")
    /\ UNCHANGED <<age, stale, moving, dist, owing, mainVars, linkVars, tripped>>

Navigating ==
    \/ pc["main"] = "steer"
    \/ pc["main"] \in {"advance", "check", "move"} /\ back = "steer"

Check(t) ==
    /\ pc[t] = "check"
    /\ Deadmen
    /\ tripped' = (tripped \/ (/\ Navigating /\ dist[job] > 0
                              /\ Expired(job) /\ ~safe[job]))
    /\ Goto(t, "move")
    /\ UNCHANGED <<age, stale, dist, owing, mainVars, linkVars>>

Move(t) ==
    LET driving == {r \in Robot : moving[r] /\ ~safe[r]} IN
    /\ pc[t] = "move"
    /\ moving' = [r \in Robot |-> r \in driving]
    /\ \E near \in SUBSET {r \in driving : dist[r] > 0} :
          dist' = [r \in Robot |-> IF r \in near THEN dist[r] - 1 ELSE dist[r]]
    /\ Goto(t, AfterMove(t))
    /\ UNCHANGED <<age, stale, safe, owing, mainVars, linkVars, tripped>>

(* The loop of the heartbeat thread. *)
Wait ==
    /\ pc["beat"] = "wait"
    /\ Goto("beat", IF stopEvent THEN "dead" ELSE "stamp")
    /\ UNCHANGED <<bodyVars, owing, mainVars, linkVars, tripped>>

-----------------------------------------------------------------------------
(* dispatch_skill: the main thread publishes a heartbeat of its own when   *)
(* the last one is old, whether the network is connected or not.           *)
Call(r) ==
    /\ pc["main"] = "idle"
    /\ job' = r
    /\ answer' = "none"
    /\ elapsed' = 0
    /\ tripped' = FALSE
    /\ Goto("main", "refresh")
    /\ UNCHANGED <<bodyVars, owing, dt, back, linkVars>>

Refresh ==
    /\ pc["main"] = "refresh"
    /\ back' = "enter"
    /\ Goto("main", IF stale > Fresh THEN "stamp" ELSE "enter")
    /\ UNCHANGED <<bodyVars, owing, dt, job, elapsed, answer, linkVars, tripped>>

CallTick(duration, label) ==
    /\ dt' = duration
    /\ back' = label
    /\ Goto("main", "advance")

Return(verdict) ==
    /\ answer' = verdict
    /\ Goto("main", "idle")

(* Mutant: safe state does not keep a skill from starting. *)
RefuseNever == FALSE

Refuse == safe[job]

(* skill_dispatch refuses in safe state (Refuse); else it navigates - the  *)
(* standoff of find_object is a navigation too -, waits, inspects, which   *)
(* may turn the body first, or does what needs no time.                    *)
Enter ==
    /\ pc["main"] = "enter"
    /\ \/ /\ Refuse
          /\ Return("failed")
          /\ UNCHANGED <<dist, dt, back>>
       \/ /\ ~Refuse
          /\ \E d \in 0 .. Far : dist' = [dist EXCEPT ![job] = d]
          /\ Goto("main", "steer")
          /\ UNCHANGED <<dt, back, answer>>
       \/ /\ ~Refuse
          /\ \E d \in Waits \cup {Look} : CallTick(d, "finish")
          /\ UNCHANGED <<dist, answer>>
       \/ /\ ~Refuse
          /\ \E verdict \in {"ok", "failed"} : Return(verdict)
          /\ UNCHANGED <<dist, dt, back>>
    /\ UNCHANGED <<age, stale, safe, moving, owing, job, elapsed,
                   linkVars, tripped>>

(* Mutant: the loop forgets to count its time. *)
SteerUncounted ==
    /\ pc["main"] = "steer"
    /\ \/ /\ dist[job] > 0 /\ elapsed < MaxNav
          /\ moving' = [moving EXCEPT ![job] = TRUE]
          /\ CallTick(Step, "steer")
       \/ /\ ~(dist[job] > 0 /\ elapsed < MaxNav)
          /\ moving' = [moving EXCEPT ![job] = FALSE]
          /\ CallTick(Settle, "finish")
    /\ UNCHANGED <<age, stale, safe, dist, owing, job, elapsed, answer,
                   linkVars, tripped>>

(* Mutant: the loop may start at its time limit. *)
SteerLonger ==
    /\ pc["main"] = "steer"
    /\ \/ /\ dist[job] > 0 /\ elapsed <= MaxNav
          /\ moving' = [moving EXCEPT ![job] = TRUE]
          /\ elapsed' = elapsed + Step
          /\ CallTick(Step, "steer")
       \/ /\ ~(dist[job] > 0 /\ elapsed <= MaxNav)
          /\ moving' = [moving EXCEPT ![job] = FALSE]
          /\ CallTick(Settle, "finish")
          /\ UNCHANGED elapsed
    /\ UNCHANGED <<age, stale, safe, dist, owing, job, answer, linkVars,
                   tripped>>

(* One turn of the navigation loop, or its end, which aligns the body with *)
(* the target and stops it.  The loop does not look at safe state.         *)
Steer ==
    /\ pc["main"] = "steer"
    /\ \/ /\ dist[job] > 0 /\ elapsed < MaxNav
          /\ moving' = [moving EXCEPT ![job] = TRUE]
          /\ elapsed' = elapsed + Step
          /\ CallTick(Step, "steer")
       \/ /\ ~(dist[job] > 0 /\ elapsed < MaxNav)
          /\ moving' = [moving EXCEPT ![job] = FALSE]
          /\ CallTick(Settle, "finish")
          /\ UNCHANGED elapsed
    /\ UNCHANGED <<age, stale, safe, dist, owing, job, answer, linkVars,
                   tripped>>

Finish ==
    /\ pc["main"] = "finish"
    /\ Return("ok")
    /\ UNCHANGED <<bodyVars, owing, dt, back, job, elapsed, linkVars, tripped>>

-----------------------------------------------------------------------------
(***************************************************************************)
(* simulate_network_disconnect: stop the heartbeat thread and wait for its *)
(* end, put every expiry into the past, and tick until the outage is over. *)
(* restore_network: a heartbeat, a check, and a new heartbeat thread.      *)
(***************************************************************************)
Disconnect ==
    /\ pc["main"] = "idle" /\ ~cut
    /\ stopEvent' = TRUE
    /\ elapsed' = 0
    /\ Goto("main", "join")
    /\ UNCHANGED <<bodyVars, owing, dt, back, job, answer, cut, tripped>>

Join ==
    /\ pc["main"] = "join" /\ pc["beat"] = "dead"
    /\ age' = [r \in Robot |-> MaxAge]
    /\ Goto("main", "outage")
    /\ UNCHANGED <<stale, safe, moving, dist, owing, mainVars, linkVars,
                   tripped>>

OutageTurn ==
    /\ pc["main"] = "outage"
    /\ \/ /\ elapsed < Outage
          /\ Deadmen
          /\ elapsed' = elapsed + Cut
          /\ CallTick(Cut, "outage")
          /\ UNCHANGED cut
       \/ /\ elapsed >= Outage
          /\ cut' = TRUE
          /\ Goto("main", "idle")
          /\ UNCHANGED <<safe, moving, elapsed, dt, back>>
    /\ UNCHANGED <<age, stale, dist, owing, job, answer, stopEvent, tripped>>

Restore ==
    /\ pc["main"] = "idle" /\ cut
    /\ cut' = FALSE
    /\ back' = "restart"
    /\ Goto("main", "stamp")
    /\ UNCHANGED <<bodyVars, owing, dt, job, elapsed, answer, stopEvent, tripped>>

Restart ==
    /\ pc["main"] = "restart"
    /\ Deadmen
    /\ stopEvent' = FALSE
    /\ pc' = [pc EXCEPT !["beat"] = "stamp", !["main"] = "idle"]
    /\ UNCHANGED <<age, stale, dist, owing, mainVars, cut, tripped>>

Publish(t) == Stamp(t) \/ Renew(t)
DoTick(t) == Advance(t) \/ Check(t) \/ Move(t)
Skills == Refresh \/ Enter \/ Steer \/ Finish
Link == Join \/ OutageTurn \/ Restart

BeatStep == Publish("beat") \/ DoTick("beat") \/ Wait
MainStep == Publish("main") \/ DoTick("main") \/ Skills \/ Link

Next ==
    \/ BeatStep
    \/ MainStep
    \/ \E r \in Robot : Call(r)
    \/ Disconnect
    \/ Restore

Spec == SimInit /\ [][Next]_simVars

(* Both threads are scheduled; nobody has to call anything.                *)
FairSpec == Spec /\ WF_simVars(BeatStep) /\ WF_simVars(MainStep)

-----------------------------------------------------------------------------
Larger(a, b) == IF a < b THEN b ELSE a

TypeOK ==
    /\ age \in [Robot -> 0 .. MaxAge]
    /\ stale \in 0 .. MaxAge
    /\ safe \in [Robot -> BOOLEAN]
    /\ moving \in [Robot -> BOOLEAN]
    /\ dist \in [Robot -> 0 .. Far]
    /\ pc \in [Thread -> Label]
    /\ owing \in [Thread -> SUBSET Robot]
    /\ dt \in Duration
    /\ back \in ReturnLabel
    /\ job \in Robot
    /\ elapsed \in 0 .. Larger(MaxNav + Step, Outage + Cut) - 1
    /\ answer \in {"none", "ok", "failed"}
    /\ stopEvent \in BOOLEAN /\ cut \in BOOLEAN /\ tripped \in BOOLEAN

(* A body moves only while it is connected: however the two threads        *)
(* interleave, its last heartbeat is at most Deadman old when it moves,    *)
(* plus the one tick the other thread can slip in between the deadman      *)
(* check and the motion (l. 133-189).                                      *)
MovesOnlyAlive ==
    \A t \in Thread, r \in Robot :
        pc[t] = "move" /\ moving[r] /\ ~safe[r] =>
            age[r] <= Deadman + Larger(Beat, Step)

(* After the network was cut every body stays in safe state until it is    *)
(* restored, although each skill dispatched meanwhile publishes a          *)
(* heartbeat of its own (l. 196-198, 534-538, 547-576).                    *)
OutageHolds == cut => \A r \in Robot : safe[r]

(* Once the main thread dispatches nothing more and the heartbeat thread   *)
(* runs, every body leaves safe state for good, whatever skill had carried *)
(* the clock past the deadman before (l. 133-151, 459-467).                *)
Reconnects ==
    <>[](pc["main"] = "idle" /\ ~stopEvent) => <>[](\A r \in Robot : ~safe[r])

(* Every call returns, in safe state too, and the outage ends (l. 211-228, *)
(* 547-576).                                                               *)
CallsReturn == pc["main"] # "idle" ~> pc["main"] = "idle"

(* l. 17-20: in safe state "cancel active navigation / manipulation".  A   *)
(* navigation that safe state met does not end with success.               *)
SafeStateCancels == tripped => answer # "ok"
=============================================================================
