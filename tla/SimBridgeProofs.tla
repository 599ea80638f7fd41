-------------------------- MODULE SimBridgeProofs --------------------------
(***************************************************************************)
(* Theorems about SimBridge, for every set of bodies and every choice of   *)
(* intervals, limits and waits.                                            *)
(***************************************************************************)
EXTENDS SimBridge, TLAPS

(* The steps of both threads.                                              *)
LEMMA SimCases ==
    ASSUME [Next]_simVars
    PROVE  \/ \E t \in Thread : \/ Stamp(t) \/ Renew(t)
                                \/ Advance(t) \/ Check(t) \/ Move(t)
           \/ Wait \/ Refresh \/ Enter \/ Steer \/ Finish
           \/ \E r \in Robot : Call(r)
           \/ Disconnect \/ Join \/ OutageTurn \/ Restore \/ Restart
           \/ UNCHANGED simVars
  BY DEF Next, BeatStep, MainStep, Publish, DoTick, Skills, Link, Thread

(* Every tick has a length.                                                *)
LEMMA DurationType == Duration \subseteq Nat \ {0}
  BY SimAssumption

(* The tick of either thread has a length.                                 *)
LEMMA TickType == TypeOK => \A t \in Thread : TickOf(t) \in Nat \ {0}
  BY SimAssumption DEF TypeOK, TickOf, Duration

(* The deadman check keeps the types of what it writes.                    *)
LEMMA DeadmenType ==
    Deadmen => safe' \in [Robot -> BOOLEAN] /\ moving' \in [Robot -> BOOLEAN]
  BY DEF Deadmen, Expired

-----------------------------------------------------------------------------
(* The threads start within their types.                                   *)
LEMMA SimTypeInit == SimInit => TypeOK
  <1>1. Step \in Duration
    BY DEF Duration
  <1>2. 0 \in 0 .. Larger(MaxNav + Step, Outage + Cut) - 1
    BY SimAssumption DEF Larger, Duration
  <1>3. 0 \in 0 .. MaxAge /\ 0 \in 0 .. Far
    BY SimAssumption
  <1> QED
    BY <1>1, <1>2, <1>3 DEF SimInit, TypeOK, Thread, Label, ReturnLabel

(* Every step of either thread keeps the types.                            *)
LEMMA SimTypeStep == TypeOK /\ [Next]_simVars => TypeOK'
  <1> SUFFICES ASSUME TypeOK, [Next]_simVars PROVE TypeOK'
    OBVIOUS
  <1> DEFINE Bound == Larger(MaxNav + Step, Outage + Cut) - 1
  <1>a. Step \in Duration /\ Settle \in Duration /\ Look \in Duration
        /\ Cut \in Duration /\ Waits \subseteq Duration
    BY DEF Duration
  <1>b. Duration \subseteq Nat \ {0}
    BY DurationType
  <1>c. 0 \in 0 .. Bound
    BY <1>a, <1>b, SimAssumption DEF Larger
  <1>d. 0 \in 0 .. MaxAge /\ MaxAge \in 0 .. MaxAge
    BY SimAssumption
  <1>e. back \in Label
    BY DEF TypeOK, ReturnLabel, Label
  <1>1. ASSUME NEW t \in Thread, Stamp(t) PROVE TypeOK'
    BY <1>1, <1>d DEF Stamp, Goto, TypeOK, Label, mainVars, linkVars
  <1>2. ASSUME NEW t \in Thread, Renew(t) PROVE TypeOK'
    BY <1>2, <1>d, <1>e
    DEF Renew, AfterRenew, Goto, TypeOK, Label, mainVars, linkVars
  <1>3. ASSUME NEW t \in Thread, Advance(t) PROVE TypeOK'
    <2>1. \A n \in 0 .. MaxAge : Smaller(n + TickOf(t), MaxAge) \in 0 .. MaxAge
      BY TickType, SimAssumption DEF Smaller
    <2> QED
      BY <1>3, <2>1 DEF Advance, Goto, TypeOK, Label, mainVars, linkVars
  <1>4. ASSUME NEW t \in Thread, Check(t) PROVE TypeOK'
    BY <1>4, DeadmenType
    DEF Check, Navigating, Goto, TypeOK, Label, mainVars, linkVars
  <1>5. ASSUME NEW t \in Thread, Move(t) PROVE TypeOK'
    <2> DEFINE driving == {r \in Robot : moving[r] /\ ~safe[r]}
    <2>1. PICK near \in SUBSET {r \in driving : dist[r] > 0} :
            dist' = [r \in Robot |-> IF r \in near THEN dist[r] - 1 ELSE dist[r]]
      BY <1>5 DEF Move
    <2>2. dist' \in [Robot -> 0 .. Far]
      BY <2>1, SimAssumption DEF TypeOK
    <2> QED
      BY <1>5, <1>e, <2>1, <2>2
      DEF Move, AfterMove, Goto, TypeOK, Label, mainVars, linkVars
  <1>6. CASE Wait
    BY <1>6 DEF Wait, Goto, TypeOK, Label, bodyVars, mainVars, linkVars
  <1>7. CASE Refresh
    BY <1>7 DEF Refresh, Goto, TypeOK, Label, ReturnLabel, bodyVars, linkVars
  <1>8. CASE Enter
    BY <1>8, <1>a, SimAssumption
    DEF Enter, CallTick, Return, Goto, TypeOK, Label, ReturnLabel, linkVars
  <1>9. CASE Steer
    <2>1. elapsed' \in 0 .. Bound
      BY <1>9, <1>a, <1>b, SimAssumption DEF Steer, Larger, TypeOK
    <2> QED
      BY <1>9, <1>a, <2>1
      DEF Steer, CallTick, Goto, TypeOK, Label, ReturnLabel, linkVars
  <1>10. CASE Finish
    BY <1>10 DEF Finish, Return, Goto, TypeOK, Label, bodyVars, linkVars
  <1>11. ASSUME NEW r \in Robot, Call(r) PROVE TypeOK'
    BY <1>11, <1>c DEF Call, Goto, TypeOK, Label, bodyVars, linkVars
  <1>12. CASE Disconnect
    BY <1>12, <1>c DEF Disconnect, Goto, TypeOK, Label, bodyVars
  <1>13. CASE Join
    BY <1>13, <1>d DEF Join, Goto, TypeOK, Label, mainVars, linkVars
  <1>14. CASE OutageTurn
    <2>1. elapsed' \in 0 .. Bound
      BY <1>14, <1>a, <1>b, SimAssumption DEF OutageTurn, Larger, TypeOK
    <2> QED
      BY <1>14, <1>a, <2>1, DeadmenType
      DEF OutageTurn, CallTick, Goto, TypeOK, Label, ReturnLabel
  <1>15. CASE Restore
    BY <1>15 DEF Restore, Goto, TypeOK, Label, ReturnLabel, bodyVars
  <1>16. CASE Restart
    BY <1>16, DeadmenType DEF Restart, TypeOK, Label, mainVars
  <1>17. CASE UNCHANGED simVars
    BY <1>17 DEF simVars, bodyVars, mainVars, linkVars, TypeOK
  <1> QED
    BY <1>1, <1>2, <1>3, <1>4, <1>5, <1>6, <1>7, <1>8, <1>9, <1>10, <1>11,
       <1>12, <1>13, <1>14, <1>15, <1>16, <1>17, SimCases

(* The simulator keeps its types; in particular neither the navigation nor *)
(* the outage runs longer than its limit allows.                           *)
THEOREM SimTypeCorrect == Spec => []TypeOK
  BY SimTypeInit, SimTypeStep, PTL DEF Spec


-----------------------------------------------------------------------------
(***************************************************************************)
(* A body moves only while it is connected.  Between a thread's deadman    *)
(* check and its motion the other thread can add one tick to the ages, and *)
(* only before its own check (AliveInv).  Which tick that can be is known  *)
(* from DriveInv: while a body moves, the main thread is in the navigation *)
(* loop of that body.                                                      *)
(***************************************************************************)
Other(t) == IF t = "beat" THEN "main" ELSE "beat"

AliveInv ==
    \A t \in Thread, r \in Robot :
        pc[t] = "move" /\ ~safe[r] =>
            age[r] <= Deadman + (IF pc[Other(t)] = "check"
                                 THEN TickOf(Other(t)) ELSE 0)

DriveInv ==
    \A r \in Robot : moving[r] =>
        /\ r = job /\ back = "steer" /\ dt = Step
        /\ pc["main"] \in {"advance", "check", "move", "steer"}

(* The deadman check starts no motion, and a body it leaves out of safe    *)
(* state has a heartbeat.                                                  *)
LEMMA DeadmenFacts ==
    ASSUME Deadmen
    PROVE  \A r \in Robot : /\ moving'[r] => moving[r]
                            /\ safe'[r] <=> age[r] > Deadman
  BY DEF Deadmen, Expired

(* Nothing moves at the start.                                             *)
LEMMA DriveInit == SimInit => DriveInv
  BY DEF SimInit, DriveInv

(* Only the navigation loop starts a motion, and it stops it at its end.   *)
LEMMA DriveStep == TypeOK /\ DriveInv /\ [Next]_simVars => DriveInv'
  <1> SUFFICES ASSUME TypeOK, DriveInv, [Next]_simVars PROVE DriveInv'
    OBVIOUS
  <1> USE DEF DriveInv, Goto
  <1>1. ASSUME NEW t \in Thread, Stamp(t) PROVE DriveInv'
    BY <1>1 DEF Stamp, TypeOK, Thread, mainVars
  <1>2. ASSUME NEW t \in Thread, Renew(t) PROVE DriveInv'
    BY <1>2 DEF Renew, TypeOK, Thread, mainVars
  <1>3. ASSUME NEW t \in Thread, Advance(t) PROVE DriveInv'
    BY <1>3 DEF Advance, TypeOK, Thread, mainVars
  <1>4. ASSUME NEW t \in Thread, Check(t) PROVE DriveInv'
    BY <1>4, DeadmenFacts DEF Check, TypeOK, Thread, mainVars
  <1>5. ASSUME NEW t \in Thread, Move(t) PROVE DriveInv'
    <2>1. \A r \in Robot : moving'[r] => moving[r]
      BY <1>5 DEF Move
    <2> QED
      BY <1>5, <2>1 DEF Move, AfterMove, TypeOK, Thread, mainVars
  <1>6. CASE Wait
    BY <1>6 DEF Wait, TypeOK, Thread, bodyVars, mainVars
  <1>7. CASE Refresh
    BY <1>7 DEF Refresh, bodyVars
  <1>8. CASE Enter
    BY <1>8 DEF Enter
  <1>9. CASE Steer
    BY <1>9 DEF Steer, CallTick, TypeOK, Thread
  <1>10. CASE Finish
    BY <1>10 DEF Finish, bodyVars
  <1>11. ASSUME NEW r \in Robot, Call(r) PROVE DriveInv'
    BY <1>11 DEF Call, bodyVars
  <1>12. CASE Disconnect
    BY <1>12 DEF Disconnect, bodyVars
  <1>13. CASE Join
    BY <1>13 DEF Join
  <1>14. CASE OutageTurn
    BY <1>14, DeadmenFacts DEF OutageTurn
  <1>15. CASE Restore
    BY <1>15 DEF Restore, bodyVars
  <1>16. CASE Restart
    BY <1>16, DeadmenFacts DEF Restart
  <1>17. CASE UNCHANGED simVars
    BY <1>17 DEF simVars, bodyVars, mainVars
  <1> QED
    BY <1>1, <1>2, <1>3, <1>4, <1>5, <1>6, <1>7, <1>8, <1>9, <1>10, <1>11,
       <1>12, <1>13, <1>14, <1>15, <1>16, <1>17, SimCases

(* No thread is about to move a body at the start.                         *)
LEMMA AliveInit == SimInit => AliveInv
  BY DEF SimInit, AliveInv, Thread

(* The ages grow only in Advance, which leads to that thread's own check.  *)
LEMMA AliveStep == TypeOK /\ AliveInv /\ [Next]_simVars => AliveInv'
  <1> SUFFICES ASSUME TypeOK, AliveInv, [Next]_simVars PROVE AliveInv'
    OBVIOUS
  <1> USE DEF AliveInv, Goto, Other, TickOf
  <1>a. /\ Deadman \in Nat /\ Beat \in Nat /\ dt \in Nat /\ MaxAge \in Nat
        /\ \A r \in Robot : age[r] \in Nat
    BY SimAssumption, DurationType DEF TypeOK, Duration
  <1>1. ASSUME NEW t \in Thread, Stamp(t) PROVE AliveInv'
    BY <1>1, <1>a DEF Stamp, TypeOK, Thread, mainVars
  <1>2. ASSUME NEW t \in Thread, Renew(t) PROVE AliveInv'
    <2>1. /\ \A r \in Robot : age'[r] = age[r] \/ age'[r] = 0
          /\ safe' = safe /\ dt' = dt
      BY <1>2 DEF Renew, TypeOK, mainVars
    <2>2. pc[t] = "renew" /\ \A u \in Thread : u # t => pc'[u] = pc[u]
      BY <1>2 DEF Renew, TypeOK
    <2>3. pc'[t] \notin {"check", "move"}
      BY <1>2 DEF Renew, AfterRenew, ReturnLabel, TypeOK
    <2> QED
      BY <1>a, <2>1, <2>2, <2>3 DEF Thread
  <1>3. ASSUME NEW t \in Thread, Advance(t) PROVE AliveInv'
    <2>1. /\ \A r \in Robot : age'[r] <= age[r] + TickOf(t) /\ age'[r] \in Nat
          /\ safe' = safe /\ dt' = dt
      BY <1>3, <1>a DEF Advance, Smaller, TypeOK, mainVars
    <2>2. /\ pc[t] = "advance" /\ pc'[t] = "check"
          /\ \A u \in Thread : u # t => pc'[u] = pc[u]
      BY <1>3 DEF Advance, TypeOK
    <2> QED
      BY <1>a, <2>1, <2>2 DEF Thread
  <1>4. ASSUME NEW t \in Thread, Check(t) PROVE AliveInv'
    <2>1. /\ \A r \in Robot : ~safe'[r] => age[r] <= Deadman
          /\ age' = age /\ dt' = dt
      BY <1>4, <1>a, DeadmenFacts DEF Check, mainVars
    <2> QED
      BY <1>a, <2>1
  <1>5. ASSUME NEW t \in Thread, Move(t) PROVE AliveInv'
    BY <1>5, <1>a DEF Move, AfterMove, TypeOK, Thread, ReturnLabel, mainVars
  <1>6. CASE Wait
    BY <1>6, <1>a DEF Wait, TypeOK, Thread, bodyVars, mainVars
  <1>7. CASE Refresh
    BY <1>7, <1>a DEF Refresh, TypeOK, Thread, bodyVars
  <1>8. CASE Enter
    BY <1>8, <1>a DEF Enter, Return, CallTick, TypeOK, Thread
  <1>9. CASE Steer
    BY <1>9, <1>a DEF Steer, CallTick, TypeOK, Thread
  <1>10. CASE Finish
    BY <1>10, <1>a DEF Finish, Return, TypeOK, Thread, bodyVars
  <1>11. ASSUME NEW r \in Robot, Call(r) PROVE AliveInv'
    BY <1>11, <1>a DEF Call, TypeOK, Thread, bodyVars
  <1>12. CASE Disconnect
    BY <1>12, <1>a DEF Disconnect, TypeOK, Thread, bodyVars
  <1>13. CASE Join
    BY <1>13 DEF Join, TypeOK, Thread, mainVars
  <1>14. CASE OutageTurn
    <2>1. CASE elapsed < Outage
      <3>1. \A r \in Robot : ~safe'[r] => age[r] <= Deadman
        BY <1>14, <2>1, <1>a, SimAssumption, DeadmenFacts DEF OutageTurn, TypeOK
      <3> QED
        BY <1>14, <1>a, <3>1, DurationType
        DEF OutageTurn, CallTick, TypeOK, Thread, Duration
    <2>2. CASE ~(elapsed < Outage)
      BY <1>14, <1>a, <2>2 DEF OutageTurn, TypeOK, Thread
    <2> QED  BY <2>1, <2>2
  <1>15. CASE Restore
    BY <1>15, <1>a DEF Restore, TypeOK, Thread, bodyVars
  <1>16. CASE Restart
    BY <1>16 DEF Restart, TypeOK, Thread
  <1>17. CASE UNCHANGED simVars
    BY <1>17 DEF simVars, bodyVars, mainVars
  <1> QED
    BY <1>1, <1>2, <1>3, <1>4, <1>5, <1>6, <1>7, <1>8, <1>9, <1>10, <1>11,
       <1>12, <1>13, <1>14, <1>15, <1>16, <1>17, SimCases

(* When a body moves, the tick that another thread may have slipped in is  *)
(* a beat or a step of the navigation.                                     *)
LEMMA AliveImplies == TypeOK /\ AliveInv /\ DriveInv => MovesOnlyAlive
  <1>1. Deadman \in Nat /\ Beat \in Nat /\ Step \in Nat
    BY SimAssumption, DurationType DEF Duration
  <1> QED
    BY <1>1
    DEF AliveInv, DriveInv, MovesOnlyAlive, TypeOK, Thread, Other, TickOf, Larger

(* However the heartbeat thread and a skill interleave, no body moves on a *)
(* heartbeat older than the deadman time and one tick.                     *)
THEOREM AlwaysMovesAlive == Spec => []MovesOnlyAlive
  <1>1. SimInit => TypeOK /\ AliveInv /\ DriveInv
    BY SimTypeInit, AliveInit, DriveInit
  <1>2. TypeOK /\ AliveInv /\ DriveInv /\ [Next]_simVars
        => TypeOK' /\ AliveInv' /\ DriveInv'
    BY SimTypeStep, AliveStep, DriveStep
  <1> QED
    BY <1>1, <1>2, AliveImplies, PTL DEF Spec

-----------------------------------------------------------------------------
(***************************************************************************)
(* An outage holds.  While simulate_network_disconnect ticks, the          *)
(* heartbeat thread is gone and every heartbeat has expired, so its first  *)
(* turn puts every body into safe state (OutageInv); afterwards the main   *)
(* thread may publish a heartbeat before a skill, but nobody ticks until   *)
(* the network is restored, and only a tick looks at heartbeats (CutInv).  *)
(***************************************************************************)
InOutage ==
    \/ pc["main"] = "outage"
    \/ pc["main"] \in {"advance", "check", "move"} /\ back = "outage"

OutageInv ==
    /\ pc["main"] \in {"stamp", "renew"} => back \in {"enter", "restart"}
    /\ pc["main"] = "join" => elapsed = 0
    /\ InOutage =>
        /\ pc["beat"] = "dead"
        /\ \A r \in Robot : age[r] = MaxAge
        /\ \/ pc["main"] = "outage" /\ elapsed = 0
           \/ \A r \in Robot : safe[r]

CutInv ==
    cut =>
        /\ pc["beat"] = "dead"
        /\ pc["main"] \in {"idle", "refresh", "stamp", "renew", "enter"}
        /\ pc["main"] \in {"stamp", "renew"} => back = "enter"
        /\ \A r \in Robot : safe[r]

(* The network is up at the start.                                         *)
LEMMA CutInit == SimInit => OutageInv /\ CutInv
  BY DEF SimInit, OutageInv, InOutage, CutInv, Thread

(* The outage loop begins with expired heartbeats and keeps them so.       *)
LEMMA OutageStep == TypeOK /\ OutageInv /\ [Next]_simVars => OutageInv'
  <1> SUFFICES ASSUME TypeOK, OutageInv, [Next]_simVars PROVE OutageInv'
    OBVIOUS
  <1> USE DEF OutageInv, InOutage, Goto
  <1>a. elapsed \in Int /\ Outage \in Nat \ {0}
    BY SimAssumption DEF TypeOK
  <1>1. ASSUME NEW t \in Thread, Stamp(t) PROVE OutageInv'
    BY <1>1 DEF Stamp, TypeOK, Thread, mainVars
  <1>2. ASSUME NEW t \in Thread, Renew(t) PROVE OutageInv'
    <2>1. CASE t = "beat"
      <3>1. /\ pc["beat"] # "dead" /\ pc'["main"] = pc["main"]
            /\ back' = back /\ elapsed' = elapsed
        BY <1>2, <2>1 DEF Renew, TypeOK, Thread, mainVars
      <3> QED  BY <3>1
    <2>2. CASE t = "main"
      BY <1>2, <2>2 DEF Renew, AfterRenew, TypeOK, Thread, mainVars
    <2> QED  BY <2>1, <2>2 DEF Thread
  <1>3. ASSUME NEW t \in Thread, Advance(t) PROVE OutageInv'
    <2>1. \A r \in Robot : age[r] = MaxAge => age'[r] = MaxAge
      BY <1>3, TickType, SimAssumption DEF Advance, Smaller, TypeOK
    <2> QED
      BY <1>3, <2>1 DEF Advance, TypeOK, Thread, mainVars
  <1>4. ASSUME NEW t \in Thread, Check(t) PROVE OutageInv'
    BY <1>4, DeadmenFacts, SimAssumption, DurationType
    DEF Check, TypeOK, Thread, mainVars, Duration
  <1>5. ASSUME NEW t \in Thread, Move(t) PROVE OutageInv'
    BY <1>5 DEF Move, AfterMove, TypeOK, Thread, mainVars, ReturnLabel
  <1>6. CASE Wait
    BY <1>6 DEF Wait, TypeOK, Thread, bodyVars, mainVars
  <1>7. CASE Refresh
    BY <1>7 DEF Refresh, TypeOK, Thread
  <1>8. CASE Enter
    BY <1>8 DEF Enter, Return, CallTick, TypeOK, Thread
  <1>9. CASE Steer
    BY <1>9 DEF Steer, CallTick, TypeOK, Thread
  <1>10. CASE Finish
    BY <1>10 DEF Finish, Return, TypeOK, Thread
  <1>11. ASSUME NEW r \in Robot, Call(r) PROVE OutageInv'
    BY <1>11 DEF Call, TypeOK, Thread
  <1>12. CASE Disconnect
    BY <1>12 DEF Disconnect, TypeOK, Thread
  <1>13. CASE Join
    BY <1>13 DEF Join, TypeOK, Thread, mainVars
  <1>14. CASE OutageTurn
    <2>1. CASE elapsed < Outage
      <3>1. MaxAge > Deadman
        BY SimAssumption, DurationType DEF Duration
      <3>2. \A r \in Robot : age'[r] = MaxAge /\ safe'[r]
        BY <1>14, <1>a, <2>1, <3>1, DeadmenFacts DEF OutageTurn
      <3> QED
        BY <1>14, <2>1, <3>2 DEF OutageTurn, CallTick, TypeOK, Thread
    <2>2. CASE ~(elapsed < Outage)
      BY <1>14, <2>2 DEF OutageTurn, TypeOK, Thread
    <2> QED  BY <2>1, <2>2
  <1>15. CASE Restore
    BY <1>15 DEF Restore, TypeOK, Thread
  <1>16. CASE Restart
    BY <1>16 DEF Restart, TypeOK, Thread
  <1>17. CASE UNCHANGED simVars
    BY <1>17 DEF simVars, bodyVars, mainVars
  <1> QED
    BY <1>1, <1>2, <1>3, <1>4, <1>5, <1>6, <1>7, <1>8, <1>9, <1>10, <1>11,
       <1>12, <1>13, <1>14, <1>15, <1>16, <1>17, SimCases

(* While the network is cut every skill is refused and nobody ticks.       *)
LEMMA CutStep == TypeOK /\ OutageInv /\ CutInv /\ [Next]_simVars => CutInv'
  <1> SUFFICES ASSUME TypeOK, OutageInv, CutInv, [Next]_simVars PROVE CutInv'
    OBVIOUS
  <1> USE DEF CutInv, Goto
  <1>a. elapsed \in Int /\ Outage \in Nat \ {0}
    BY SimAssumption DEF TypeOK
  <1>1. ASSUME NEW t \in Thread, Stamp(t) PROVE CutInv'
    BY <1>1 DEF Stamp, TypeOK, Thread, mainVars, linkVars
  <1>2. ASSUME NEW t \in Thread, Renew(t) PROVE CutInv'
    BY <1>2 DEF Renew, AfterRenew, TypeOK, Thread, mainVars, linkVars
  <1>3. ASSUME NEW t \in Thread, Advance(t) PROVE CutInv'
    BY <1>3 DEF Advance, TypeOK, Thread, linkVars
  <1>4. ASSUME NEW t \in Thread, Check(t) PROVE CutInv'
    BY <1>4 DEF Check, TypeOK, Thread, linkVars
  <1>5. ASSUME NEW t \in Thread, Move(t) PROVE CutInv'
    BY <1>5 DEF Move, TypeOK, Thread, linkVars
  <1>6. CASE Wait
    BY <1>6 DEF Wait, TypeOK, Thread, linkVars
  <1>7. CASE Refresh
    BY <1>7 DEF Refresh, TypeOK, Thread, bodyVars, linkVars
  <1>8. CASE Enter
    BY <1>8 DEF Enter, Refuse, Return, TypeOK, Thread, linkVars
  <1>9. CASE Steer
    BY <1>9 DEF Steer, linkVars
  <1>10. CASE Finish
    BY <1>10 DEF Finish, linkVars
  <1>11. ASSUME NEW r \in Robot, Call(r) PROVE CutInv'
    BY <1>11 DEF Call, TypeOK, Thread, bodyVars, linkVars
  <1>12. CASE Disconnect
    BY <1>12 DEF Disconnect
  <1>13. CASE Join
    BY <1>13 DEF Join, linkVars
  <1>14. CASE OutageTurn
    <2>1. CASE elapsed < Outage
      <3>1. ~cut
        BY <1>14 DEF OutageTurn
      <3>2. cut' = cut
        BY <1>14, <1>a, <2>1 DEF OutageTurn
      <3> QED  BY <3>1, <3>2
    <2>2. CASE ~(elapsed < Outage)
      <3>1. elapsed # 0
        BY <1>a, <2>2
      <3>2. pc["beat"] = "dead" /\ \A r \in Robot : safe[r]
        BY <1>14, <3>1 DEF OutageTurn, OutageInv, InOutage
      <3> QED
        BY <1>14, <2>2, <3>2 DEF OutageTurn, TypeOK, Thread
    <2> QED  BY <2>1, <2>2
  <1>15. CASE Restore
    BY <1>15 DEF Restore
  <1>16. CASE Restart
    BY <1>16 DEF Restart
  <1>17. CASE UNCHANGED simVars
    BY <1>17 DEF simVars, bodyVars, mainVars, linkVars
  <1> QED
    BY <1>1, <1>2, <1>3, <1>4, <1>5, <1>6, <1>7, <1>8, <1>9, <1>10, <1>11,
       <1>12, <1>13, <1>14, <1>15, <1>16, <1>17, SimCases

(* From the end of the outage until the network is restored every body     *)
(* stays in safe state, whatever is dispatched.                            *)
THEOREM OutageAlwaysHolds == Spec => []OutageHolds
  <1>1. SimInit => TypeOK /\ OutageInv /\ CutInv
    BY SimTypeInit, CutInit
  <1>2. TypeOK /\ OutageInv /\ CutInv /\ [Next]_simVars
        => TypeOK' /\ OutageInv' /\ CutInv'
    BY SimTypeStep, OutageStep, CutStep
  <1>3. CutInv => OutageHolds
    BY DEF CutInv, OutageHolds
  <1> QED
    BY <1>1, <1>2, <1>3, PTL DEF Spec
=============================================================================
