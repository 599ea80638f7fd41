-------------------------- MODULE RobotAgentProofs --------------------------
(***************************************************************************)
(* Theorems about the robot agent, for every number of commands and every  *)
(* depth of its queues: types, the flag that the heartbeat publishes, and  *)
(* how many goals follow a stop.                                           *)
(***************************************************************************)
EXTENDS RobotAgent, TLAPS

(* A full queue drops its oldest message and keeps its depth.              *)
LEMMA KeepLastKeeps ==
    ASSUME NEW S, NEW queue \in Seq(S), NEW m \in S, NEW depth \in Nat \ {0},
           Len(queue) <= depth
    PROVE  LET new == KeepLast(queue, m, depth) IN
           /\ new \in Seq(S)
           /\ Len(new) \in 1 .. depth
           /\ new[Len(new)] = m
           /\ Len(queue) < depth =>
                 /\ Len(new) = Len(queue) + 1
                 /\ \A i \in 1 .. Len(queue) : new[i] = queue[i]
           /\ Len(queue) = depth =>
                 /\ Len(new) = Len(queue)
                 /\ \A i \in 1 .. Len(queue) - 1 : new[i] = queue[i + 1]
  <1>1. CASE Len(queue) < depth
    BY <1>1 DEF KeepLast
  <1>2. CASE ~(Len(queue) < depth)
    <2>1. Len(queue) = depth /\ queue # <<>>
      BY <1>2
    <2>2. /\ Tail(queue) \in Seq(S)
          /\ Len(Tail(queue)) = Len(queue) - 1
          /\ \A i \in 1 .. Len(queue) - 1 : Tail(queue)[i] = queue[i + 1]
      BY <2>1
    <2>3. KeepLast(queue, m, depth) = Append(Tail(queue), m)
      BY <1>2 DEF KeepLast
    <2> HIDE DEF KeepLast
    <2> QED
      BY <2>1, <2>2, <2>3
  <1> QED
    BY <1>1, <1>2

(* Commands wait in the queue once each, and nobody else looks at them.    *)
QueueInv ==
    /\ \A i \in 1 .. Len(commands) : fate[commands[i]] = "queued"
    /\ \A i, j \in 1 .. Len(commands) : i # j => commands[i] # commands[j]
    /\ planning # 0 => fate[planning] = "planning"

(* A callback that is due has a message to take, and a command that is     *)
(* being planned is the one of this round.                                 *)
RoundInv ==
    /\ "command" \in due => commands # <<>> /\ planning = 0
    /\ "health" \in due => reports # <<>>

AgentTypeInv == TypeOK /\ QueueInv /\ RoundInv

(* So does a queue that is read.                                           *)
LEMMA TailKeeps ==
    ASSUME NEW S, NEW queue \in Seq(S), queue # <<>>
    PROVE  /\ Head(queue) \in S /\ Head(queue) = queue[1]
           /\ Len(queue) \in Nat \ {0}
           /\ Tail(queue) \in Seq(S)
           /\ Len(Tail(queue)) = Len(queue) - 1
           /\ \A i \in 1 .. Len(queue) - 1 : Tail(queue)[i] = queue[i + 1]
  OBVIOUS

(* Initially.                                                              *)
LEMMA AgentTypeInit == AgentInit => AgentTypeInv
  <1> SUFFICES ASSUME AgentInit PROVE AgentTypeInv
    OBVIOUS
  <1>1. /\ fate \in [Command -> Fate]
        /\ commands \in Seq(Command) /\ Len(commands) <= CommandDepth
        /\ reports \in Seq(Health) /\ Len(reports) <= HealthDepth
    BY AgentAssumption DEF AgentInit, Fate
  <1>2. QueueInv /\ RoundInv
    BY DEF AgentInit, QueueInv, RoundInv
  <1>3. TypeOK
    BY <1>1 DEF AgentInit, TypeOK
  <1> QED
    BY <1>2, <1>3 DEF AgentTypeInv

(* A new command takes the place of the oldest at most, and was not there. *)
LEMMA OrderKeeps ==
    ASSUME AgentTypeInv, NEW c \in Command, Order(c)
    PROVE  AgentTypeInv'
  <1> USE AgentAssumption DEF AgentTypeInv
  <1>1. /\ commands \in Seq(Command) /\ Len(commands) <= CommandDepth
        /\ CommandDepth \in Nat \ {0}
    BY DEF TypeOK
  <1> DEFINE new == KeepLast(commands, c, CommandDepth)
  <1>2. /\ new \in Seq(Command)
        /\ Len(new) \in 1 .. CommandDepth
        /\ new[Len(new)] = c
        /\ Len(commands) < CommandDepth =>
              /\ Len(new) = Len(commands) + 1
              /\ \A i \in 1 .. Len(commands) : new[i] = commands[i]
        /\ Len(commands) = CommandDepth =>
              /\ Len(new) = Len(commands)
              /\ \A i \in 1 .. Len(commands) - 1 : new[i] = commands[i + 1]
    BY <1>1, KeepLastKeeps
  <1> HIDE DEF new
  <1>3. commands' = new /\ fate[c] = "unsent"
    BY DEF Order, new
  <1>4. \A i \in 1 .. Len(commands) : commands[i] \in Command /\ commands[i] # c
    BY <1>1, <1>3 DEF QueueInv
  <1>5. Len(commands) = CommandDepth => Head(commands) = commands[1]
    BY <1>1
  <1>6. /\ fate' \in [Command -> Fate]
        /\ fate'[c] = "queued"
        /\ \A d \in Command \ {c} : fate'[d] = IF Len(commands) = CommandDepth /\ d = commands[1]
                                     THEN "dropped" ELSE fate[d]
    BY <1>5 DEF Order, TypeOK, Fate
  <1>7. TypeOK'
    BY <1>2, <1>3, <1>6 DEF Order, TypeOK
  <1>8. QueueInv'
    <2>1. \A i \in 1 .. Len(new) :
             \/ i = Len(new) /\ new[i] = c
             \/ /\ Len(commands) < CommandDepth
                /\ i \in 1 .. Len(commands) /\ new[i] = commands[i]
             \/ /\ Len(commands) = CommandDepth
                /\ i + 1 \in 2 .. Len(commands) /\ new[i] = commands[i + 1]
      BY <1>1, <1>2
    <2>2. \A i \in 1 .. Len(new) : fate'[new[i]] = "queued"
      BY <2>1, <1>1, <1>4, <1>6 DEF QueueInv
    <2>3. \A i, j \in 1 .. Len(new) : i # j => new[i] # new[j]
      BY <2>1, <1>1, <1>2, <1>4 DEF QueueInv
    <2>4. planning' # 0 => fate'[planning'] = "planning"
      <3> SUFFICES ASSUME planning # 0 PROVE fate'[planning] = "planning"
        BY DEF Order
      <3>1. planning \in Command /\ fate[planning] = "planning"
        BY DEF TypeOK, QueueInv
      <3>2. CommandDepth = Len(commands) => fate[commands[1]] = "queued"
        BY <1>1 DEF QueueInv
      <3> QED
        BY <3>1, <3>2, <1>3, <1>6
    <2> QED
      BY <1>3, <2>2, <2>3, <2>4 DEF QueueInv
  <1>9. RoundInv'
    BY <1>2, <1>3 DEF Order, RoundInv
  <1> QED
    BY <1>7, <1>8, <1>9

(* A command that leaves the queue leaves the others as they were.         *)
LEMMA OnCommandKeeps ==
    ASSUME AgentTypeInv, OnCommand
    PROVE  AgentTypeInv'
  <1> USE DEF AgentTypeInv
  <1>1. commands \in Seq(Command) /\ commands # <<>>
    BY DEF TypeOK, RoundInv, OnCommand
  <1> DEFINE c == Head(commands)
  <1>2. /\ c \in Command /\ c = commands[1]
        /\ Len(commands) \in Nat \ {0}
        /\ commands' \in Seq(Command)
        /\ Len(commands') = Len(commands) - 1
        /\ \A i \in 1 .. Len(commands) - 1 : commands'[i] = commands[i + 1]
    BY <1>1, TailKeeps DEF OnCommand
  <1>3. /\ \E f \in {"ignored", "answered", "planning"} :
              /\ fate' = [fate EXCEPT ![c] = f]
              /\ f = "planning" => planning' = c
              /\ f # "planning" => planning' = planning
        /\ planning = 0
    BY DEF OnCommand, Free
  <1> HIDE DEF c
  <1>4. TypeOK'
    BY <1>2, <1>3, AgentAssumption DEF OnCommand, TypeOK, Fate
  <1>5. \A i \in 1 .. Len(commands') : commands'[i] \in Command /\ commands'[i] # c
    BY <1>2 DEF QueueInv
  <1>6. QueueInv'
    <2>1. \A i \in 1 .. Len(commands') : fate'[commands'[i]] = "queued"
      BY <1>2, <1>3, <1>5 DEF QueueInv, TypeOK
    <2>2. \A i, j \in 1 .. Len(commands') : i # j => commands'[i] # commands'[j]
      BY <1>2 DEF QueueInv
    <2>3. planning' # 0 => fate'[planning'] = "planning"
      BY <1>2, <1>3 DEF TypeOK
    <2> QED
      BY <2>1, <2>2, <2>3 DEF QueueInv
  <1>7. RoundInv'
    BY <1>2 DEF OnCommand, RoundInv
  <1> QED
    BY <1>4, <1>6, <1>7

(* The other steps leave the queue of commands alone.                      *)
LEMMA QueueKept ==
    ASSUME AgentTypeInv, NEW d \in Command, fate[d] # "queued"
    PROVE  /\ commands' = commands
           /\ \A x \in Command : x # d => fate'[x] = fate[x]
           /\ planning' = 0 \/ (planning' = planning /\ d # planning)
           => QueueInv'
  <1>1. \A i \in 1 .. Len(commands) : commands[i] \in Command
    BY DEF AgentTypeInv, TypeOK
  <1> QED
    BY <1>1 DEF AgentTypeInv, TypeOK, QueueInv

(* Every callback keeps the types.                                         *)
LEMMA AgentTypeStep == AgentTypeInv /\ [AgentNext]_agentVars => AgentTypeInv'
  <1> SUFFICES ASSUME AgentTypeInv, [AgentNext]_agentVars PROVE AgentTypeInv'
    OBVIOUS
  <1>1. ASSUME NEW c \in Command, Order(c) PROVE AgentTypeInv'
    BY <1>1, OrderKeeps
  <1>2. ASSUME NEW h \in Health, Report(h) PROVE AgentTypeInv'
    <2>1. /\ reports \in Seq(Health) /\ Len(reports) <= HealthDepth
          /\ HealthDepth \in Nat \ {0}
      BY AgentAssumption DEF AgentTypeInv, TypeOK
    <2>2. /\ reports' \in Seq(Health)
          /\ Len(reports') \in 1 .. HealthDepth
      BY <1>2, <2>1, KeepLastKeeps DEF Report
    <2> QED
      BY <1>2, <2>2 DEF Report, AgentTypeInv, TypeOK, QueueInv, RoundInv
  <1>3. CASE Round
    BY <1>3 DEF Round, Ready, Free, Subscription, AgentTypeInv, TypeOK, QueueInv, RoundInv
  <1>4. CASE OnHealth
    <2>1. reports \in Seq(Health) /\ reports # <<>>
      BY <1>4 DEF OnHealth, AgentTypeInv, TypeOK, RoundInv
    <2>2. /\ seen' \in Health
          /\ reports' \in Seq(Health)
          /\ Len(reports') = Len(reports) - 1
      BY <1>4, <2>1, TailKeeps DEF OnHealth
    <2> QED
      BY <1>4, <2>1, <2>2, AgentAssumption
      DEF OnHealth, AgentTypeInv, TypeOK, QueueInv, RoundInv
  <1>5. CASE OnCommand
    BY <1>5, OnCommandKeeps
  <1>6. CASE Unplanned
    <2>1. planning \in Command /\ fate[planning] = "planning"
      BY <1>6 DEF Unplanned, AgentTypeInv, TypeOK, QueueInv
    <2>2. QueueInv' /\ fate' \in [Command -> Fate]
      <3>1. fate[planning] # "queued" /\ fate' \in [Command -> Fate]
        BY <1>6, <2>1 DEF Unplanned, Fate, AgentTypeInv, TypeOK
      <3>2. commands' = commands /\ \A x \in Command : x # planning => fate'[x] = fate[x]
        BY <1>6 DEF Unplanned, AgentTypeInv, TypeOK
      <3>3. planning' = 0
        BY <1>6 DEF Unplanned
      <3> QED
        BY <2>1, <3>1, <3>2, <3>3, QueueKept
    <2>3. executing' \in BOOLEAN /\ alive' \in BOOLEAN
      BY <1>6 DEF Unplanned, AgentTypeInv, TypeOK
    <2>4. TypeOK'
      BY <1>6, <2>2, <2>3 DEF Unplanned, AgentTypeInv, TypeOK
    <2> QED
      BY <1>6, <2>2, <2>4 DEF Unplanned, AgentTypeInv, RoundInv
  <1>7. CASE Crash
    BY <1>7 DEF Crash, AgentTypeInv, TypeOK, QueueInv, RoundInv
  <1>8. CASE Dispatch
    <2>1. planning \in Command /\ fate[planning] = "planning"
      BY <1>8 DEF Dispatch, AgentTypeInv, TypeOK, QueueInv
    <2>2. QueueInv' /\ fate' \in [Command -> Fate]
      <3>1. fate[planning] # "queued" /\ fate' \in [Command -> Fate]
        BY <1>8, <2>1 DEF Dispatch, Fate, AgentTypeInv, TypeOK
      <3>2. commands' = commands /\ \A x \in Command : x # planning => fate'[x] = fate[x]
        BY <1>8 DEF Dispatch, AgentTypeInv, TypeOK
      <3>3. planning' = 0
        BY <1>8 DEF Dispatch
      <3> QED
        BY <2>1, <3>1, <3>2, <3>3, QueueKept
    <2>3. late' \in Nat
      BY <1>8 DEF Dispatch, AgentTypeInv, TypeOK
    <2>4. executing' \in BOOLEAN /\ alive' \in BOOLEAN
      BY <1>8 DEF Dispatch, AgentTypeInv, TypeOK
    <2>6. rivals' \subseteq Command
      BY <1>8 DEF Dispatch, Open
    <2>5. TypeOK'
      BY <1>8, <2>1, <2>2, <2>3, <2>4, <2>6 DEF Dispatch, AgentTypeInv, TypeOK
    <2> QED
      BY <1>8, <2>2, <2>5 DEF Dispatch, AgentTypeInv, RoundInv
  <1>9. ASSUME NEW c \in Command, OnGoalAccepted(c) PROVE AgentTypeInv'
    <2>1. QueueInv' /\ fate' \in [Command -> Fate]
      <3>1. fate[c] # "queued" /\ fate' \in [Command -> Fate]
        BY <1>9 DEF OnGoalAccepted, Fate, AgentTypeInv, TypeOK
      <3>2. commands' = commands /\ \A x \in Command : x # c => fate'[x] = fate[x]
        BY <1>9 DEF OnGoalAccepted, AgentTypeInv, TypeOK
      <3>3. planning = 0 /\ planning' = 0
        BY <1>9 DEF OnGoalAccepted, Free
      <3> QED
        BY <3>1, <3>2, <3>3, QueueKept
    <2>2. executing' \in BOOLEAN /\ alive' \in BOOLEAN
      BY <1>9 DEF OnGoalAccepted, AgentTypeInv, TypeOK
    <2>3. TypeOK'
      BY <1>9, <2>1, <2>2 DEF OnGoalAccepted, AgentTypeInv, TypeOK
    <2> QED
      BY <1>9, <2>1, <2>3 DEF OnGoalAccepted, AgentTypeInv, RoundInv
  <1>10. ASSUME NEW c \in Command, OnGoalRejected(c) PROVE AgentTypeInv'
    <2>1. QueueInv' /\ fate' \in [Command -> Fate]
      <3>1. fate[c] # "queued" /\ fate' \in [Command -> Fate]
        BY <1>10 DEF OnGoalRejected, Fate, AgentTypeInv, TypeOK
      <3>2. commands' = commands /\ \A x \in Command : x # c => fate'[x] = fate[x]
        BY <1>10 DEF OnGoalRejected, AgentTypeInv, TypeOK
      <3>3. planning = 0 /\ planning' = 0
        BY <1>10 DEF OnGoalRejected, Free
      <3> QED
        BY <3>1, <3>2, <3>3, QueueKept
    <2>2. executing' \in BOOLEAN /\ alive' \in BOOLEAN
      BY <1>10 DEF OnGoalRejected, AgentTypeInv, TypeOK
    <2>3. TypeOK'
      BY <1>10, <2>1, <2>2 DEF OnGoalRejected, AgentTypeInv, TypeOK
    <2> QED
      BY <1>10, <2>1, <2>3 DEF OnGoalRejected, AgentTypeInv, RoundInv
  <1>11. ASSUME NEW c \in Command, OnTaskResult(c) PROVE AgentTypeInv'
    <2>1. QueueInv' /\ fate' \in [Command -> Fate]
      <3>1. fate[c] # "queued" /\ fate' \in [Command -> Fate]
        BY <1>11 DEF OnTaskResult, Fate, AgentTypeInv, TypeOK
      <3>2. commands' = commands /\ \A x \in Command : x # c => fate'[x] = fate[x]
        BY <1>11 DEF OnTaskResult, AgentTypeInv, TypeOK
      <3>3. planning = 0 /\ planning' = 0
        BY <1>11 DEF OnTaskResult, Free
      <3> QED
        BY <3>1, <3>2, <3>3, QueueKept
    <2>2. executing' \in BOOLEAN /\ alive' \in BOOLEAN
      BY <1>11 DEF OnTaskResult, AgentTypeInv, TypeOK
    <2>3. TypeOK'
      BY <1>11, <2>1, <2>2 DEF OnTaskResult, AgentTypeInv, TypeOK
    <2> QED
      BY <1>11, <2>1, <2>3 DEF OnTaskResult, AgentTypeInv, RoundInv
  <1>12. CASE UNCHANGED agentVars
    BY <1>12 DEF agentVars, AgentTypeInv, TypeOK, QueueInv, RoundInv
  <1> QED
    BY <1>1, <1>2, <1>3, <1>4, <1>5, <1>6, <1>7, <1>8, <1>9, <1>10, <1>11, <1>12
    DEF AgentNext

(* The agent keeps its types (agent_node.py), whatever arrives in whatever *)
(* order.                                                                  *)
THEOREM AgentTypeCorrect == AgentSpec => []TypeOK
  <1>1. AgentTypeInv => TypeOK
    BY DEF AgentTypeInv
  <1> QED
    BY <1>1, AgentTypeInit, AgentTypeStep, PTL DEF AgentSpec

(***************************************************************************)
(* The shared flag.  It is exact because every open goal is the current    *)
(* one or one of those it was sent beside, and all of these were sent: so  *)
(* whichever goal ends, it is one that the property speaks of, and none of *)
(* them comes back.                                                        *)
(***************************************************************************)
Gone == {c \in Command : fate[c] \in {"sent", "running", "answered", "rejected"}}

GoalInv ==
    /\ Open \subseteq rivals \cup {current}
    /\ rivals \subseteq Gone
    /\ current \in Gone \cup {0}
    /\ ExecutingIsExact

(* Steps that neither send a goal nor end one.                             *)
LEMMA GoalsKept ==
    ASSUME GoalInv, UNCHANGED <<current, executing, rivals>>,
           \A c \in Command : /\ c \in Open <=> c \in Open'
                              /\ c \in Gone => c \in Gone'
    PROVE  GoalInv'
  <1>1. Open \subseteq Command /\ Open' \subseteq Command /\ Gone \subseteq Command
    BY DEF Open, Gone
  <1>2. Open' = Open /\ Gone \subseteq Gone'
    BY <1>1
  <1>3. QED
    BY <1>2 DEF GoalInv, ExecutingIsExact

(* A goal that ends is one of those the flag speaks of.                    *)
LEMMA GoalEnds ==
    ASSUME AgentTypeInv, GoalInv, NEW c \in Command,
           OnGoalRejected(c) \/ OnTaskResult(c)
    PROVE  GoalInv'
  <1>1. \E f \in {"answered", "rejected"} : fate' = [fate EXCEPT ![c] = f]
    BY DEF OnGoalRejected, OnTaskResult
  <1>2. /\ c \in Open /\ executing' = FALSE
        /\ UNCHANGED <<current, rivals>>
    BY DEF OnGoalRejected, OnTaskResult, Open
  <1>3. fate \in [Command -> Fate]
    BY DEF AgentTypeInv, TypeOK
  <1>4. Open' = Open \ {c} /\ Gone \subseteq Gone'
    BY <1>1, <1>3 DEF Open, Gone
  <1>5. c \in rivals \cup {current}
    BY <1>2 DEF GoalInv
  <1>6. ExecutingIsExact'
    BY <1>2, <1>4, <1>5 DEF ExecutingIsExact
  <1>7. QED
    BY <1>2, <1>4, <1>6 DEF GoalInv

(* A goal that is sent is open, beside those that were.                    *)
LEMMA GoalSent ==
    ASSUME AgentTypeInv, GoalInv, Dispatch
    PROVE  GoalInv'
  <1>1. planning \in Command /\ fate \in [Command -> Fate]
    BY DEF AgentTypeInv, TypeOK, Dispatch
  <1>2. /\ fate' = [fate EXCEPT ![planning] = "sent"]
        /\ current' = planning /\ executing' = TRUE /\ rivals' = Open
    BY DEF Dispatch
  <1>3. Open' = Open \cup {planning} /\ Open' \subseteq Gone'
    BY <1>1, <1>2 DEF Open, Gone
  <1>4. ExecutingIsExact'
    BY <1>2, <1>3 DEF ExecutingIsExact
  <1>5. QED
    BY <1>2, <1>3, <1>4 DEF GoalInv

(* The other callbacks move on a command that is no goal yet, or a goal    *)
(* that stays open.                                                        *)
LEMMA GoalStep == AgentTypeInv /\ GoalInv /\ [AgentNext]_agentVars => GoalInv'
  <1> SUFFICES ASSUME AgentTypeInv, GoalInv, [AgentNext]_agentVars
               PROVE  GoalInv'
    OBVIOUS
  <1>1. /\ fate \in [Command -> Fate] /\ planning \in Command \cup {0}
        /\ commands \in Seq(Command)
        /\ planning # 0 => fate[planning] = "planning"
    BY DEF AgentTypeInv, TypeOK, QueueInv
  <1>2. commands # <<>> => /\ Head(commands) \in Command
                           /\ fate[Head(commands)] = "queued"
    BY <1>1 DEF AgentTypeInv, QueueInv
  <1>3. ASSUME NEW d \in Command, fate[d] \in {"unsent", "queued", "planning"},
               \A c \in Command : c # d => fate'[c] = fate[c],
               fate'[d] \notin {"sent", "running"},
               UNCHANGED <<current, executing, rivals>>
        PROVE  GoalInv'
    <2>1. \A c \in Command : (c \in Open <=> c \in Open') /\ (c \in Gone => c \in Gone')
      BY <1>3 DEF Open, Gone
    <2>2. QED
      BY <1>3, <2>1, GoalsKept
  <1>4. ASSUME NEW d \in Command, Order(d) PROVE GoalInv'
    <2>1. /\ UNCHANGED <<current, executing, rivals>>
          /\ \A c \in Command : fate'[c] = fate[c]
                \/ (fate[c] \in {"unsent", "queued"} /\ fate'[c] \in {"queued", "dropped"})
      <3>1. \A c \in Command : Len(commands) = CommandDepth /\ c = Head(commands)
                                  => fate[c] = "queued"
        BY <1>1, <1>2, AgentAssumption
      <3>2. QED
        BY <1>4, <3>1 DEF Order
    <2>2. \A c \in Command : (c \in Open <=> c \in Open') /\ (c \in Gone => c \in Gone')
      BY <2>1 DEF Open, Gone
    <2>3. QED
      BY <2>1, <2>2, GoalsKept
  <1>5. CASE OnCommand
    <2>1. commands # <<>>
      BY <1>5 DEF OnCommand, AgentTypeInv, RoundInv
    <2>2. Head(commands) \in Command /\ fate[Head(commands)] = "queued"
      BY <1>2, <2>1
    <2>3. /\ \E f \in {"ignored", "answered", "planning"} :
                fate' = [fate EXCEPT ![Head(commands)] = f]
          /\ UNCHANGED <<current, executing, rivals>>
      BY <1>5 DEF OnCommand
    <2>4. /\ \A c \in Command : c # Head(commands) => fate'[c] = fate[c]
          /\ fate'[Head(commands)] \notin {"sent", "running"}
      BY <1>1, <2>2, <2>3
    <2>5. QED
      BY <1>3, <2>2, <2>3, <2>4
  <1>6. CASE Unplanned
    <2>1. /\ planning \in Command /\ fate[planning] = "planning"
          /\ fate' = [fate EXCEPT ![planning] = "answered"]
          /\ UNCHANGED <<current, executing, rivals>>
      BY <1>1, <1>6 DEF Unplanned
    <2>2. /\ \A c \in Command : c # planning => fate'[c] = fate[c]
          /\ fate'[planning] = "answered"
      BY <1>1, <2>1
    <2>3. QED
      BY <1>3, <2>1, <2>2
  <1>7. CASE Dispatch
    BY <1>7, GoalSent
  <1>8. ASSUME NEW c \in Command, OnGoalAccepted(c) PROVE GoalInv'
    <2>1. /\ fate[c] = "sent" /\ fate' = [fate EXCEPT ![c] = "running"]
          /\ UNCHANGED <<current, executing, rivals>>
      BY <1>8 DEF OnGoalAccepted
    <2>2. \A d \in Command : (d \in Open <=> d \in Open') /\ (d \in Gone => d \in Gone')
      BY <1>1, <2>1 DEF Open, Gone
    <2>3. QED
      BY <2>1, <2>2, GoalsKept
  <1>9. ASSUME NEW c \in Command, OnGoalRejected(c) \/ OnTaskResult(c) PROVE GoalInv'
    BY <1>9, GoalEnds
  <1>10. CASE (\E h \in Health : Report(h)) \/ Round \/ OnHealth \/ Crash
              \/ UNCHANGED agentVars
    <2>1. UNCHANGED <<fate, current, executing, rivals>>
      BY <1>10 DEF Report, Round, OnHealth, Crash, agentVars
    <2>2. QED
      BY <2>1, GoalsKept DEF Open, Gone
  <1>11. QED
    BY <1>4, <1>5, <1>6, <1>7, <1>8, <1>9, <1>10 DEF AgentNext

(* The heartbeat says executing exactly as long as the goal sent last and  *)
(* those it was sent beside are all open (l. 448, 460, 474).               *)
THEOREM ExecutingAlwaysExact == AgentSpec => []ExecutingIsExact
  <1>1. AgentInit => GoalInv
    BY AgentAssumption DEF AgentInit, GoalInv, ExecutingIsExact, Open, Gone, Command
  <1>2. GoalInv => ExecutingIsExact
    BY DEF GoalInv
  <1> QED
    BY <1>1, <1>2, AgentTypeInit, AgentTypeStep, GoalStep, PTL DEF AgentSpec

(***************************************************************************)
(* How many goals follow a stop.  While a stop is the newest report, it    *)
(* has a place in the queue, 0 once it is read, and each further goal that *)
(* passes the gate does so before the stop moves up one place: a round     *)
(* runs one command and one report.                                        *)
(***************************************************************************)
Place(k) ==
    /\ k \in 0 .. Len(reports)
    /\ \A i \in 1 .. Len(reports) : i >= k => reports[i] = "stop"
    /\ k = 0 => seen = "stop"

(* The goals that may still be sent when the stop is at place k: the one   *)
(* being planned, and one in each round until the stop is read.            *)
Planned == IF planning = 0 THEN 0 ELSE 1

Rounds(k) ==
    IF k = 0 THEN 0
    ELSE IF "command" \in due /\ "health" \notin due THEN k + 1
    ELSE IF "health" \in due /\ "command" \notin due THEN k - 1
    ELSE k

LateInv ==
    /\ Newest # "stop" => late = 0
    /\ Newest = "stop" =>
          \E k \in Nat : Place(k) /\ late + Planned + Rounds(k) <= HealthDepth + 1

(* Between two reports only the counts change.                             *)
LEMMA LateKept ==
    ASSUME AgentTypeInv, LateInv,
           reports' = reports, seen' = seen, late' \in Nat,
           Newest # "stop" => late' = 0,
           \A k \in Nat : Newest = "stop" /\ Place(k) =>
               late' + Planned' + Rounds(k)' <= late + Planned + Rounds(k)
    PROVE  LateInv'
  <1>1. Newest' = Newest
    BY DEF Newest
  <1>2. \A k \in Nat : /\ Place(k) => Place(k)'
                       /\ Rounds(k) \in Nat /\ Rounds(k)' \in Nat
    BY DEF Place, Rounds
  <1>3. late \in Nat /\ Planned \in Nat /\ Planned' \in Nat /\ HealthDepth \in Nat
    BY AgentAssumption DEF AgentTypeInv, TypeOK, Planned
  <1>4. CASE Newest = "stop"
    <2>1. PICK k \in Nat : Place(k) /\ late + Planned + Rounds(k) <= HealthDepth + 1
      BY <1>4 DEF LateInv
    <2>2. late' + Planned' + Rounds(k)' <= late + Planned + Rounds(k)
      BY <1>4, <2>1
    <2>3. late' + Planned' + Rounds(k)' <= HealthDepth + 1
      BY <1>2, <1>3, <2>1, <2>2
    <2> QED
      BY <1>1, <1>2, <1>4, <2>1, <2>3 DEF LateInv
  <1>5. CASE Newest # "stop"
    BY <1>1, <1>5 DEF LateInv
  <1> QED
    BY <1>4, <1>5

(* A report that arrives is the newest; a stop that arrives after another  *)
(* leaves that one at its place or moves it up.                            *)
LEMMA LateReport ==
    ASSUME AgentTypeInv, LateInv, NEW h \in Health, Report(h)
    PROVE  LateInv'
  <1>1. /\ reports \in Seq(Health) /\ Len(reports) <= HealthDepth
        /\ HealthDepth \in Nat \ {0} /\ late \in Nat /\ Len(reports) \in Nat
    BY AgentAssumption DEF AgentTypeInv, TypeOK
  <1> DEFINE n == Len(reports)
             new == KeepLast(reports, h, HealthDepth)
  <1>2. /\ new \in Seq(Health)
        /\ Len(new) \in 1 .. HealthDepth
        /\ new[Len(new)] = h
        /\ n < HealthDepth =>
              /\ Len(new) = n + 1
              /\ \A i \in 1 .. n : new[i] = reports[i]
        /\ n = HealthDepth =>
              /\ Len(new) = n
              /\ \A i \in 1 .. n - 1 : new[i] = reports[i + 1]
    BY <1>1, KeepLastKeeps
  <1> HIDE DEF new
  <1>3. /\ reports' = new /\ seen' = seen /\ due' = due /\ planning' = planning
        /\ late' = IF h = "ok" THEN 0 ELSE late
    BY DEF Report, new
  <1>4. Newest' = h /\ new # <<>>
    BY <1>2, <1>3 DEF Newest
  <1>5. CASE h = "ok"
    BY <1>3, <1>4, <1>5 DEF LateInv
  <1>6. CASE h = "stop" /\ Newest # "stop"
    <2>1. late' = 0
      BY <1>3, <1>6 DEF LateInv
    <2>2. PICK k \in 1 .. HealthDepth : k = Len(new)
      BY <1>2
    <2>3. Place(k)'
      BY <1>2, <1>3, <1>6, <2>2 DEF Place
    <2>4. /\ Planned' \in {0, 1} /\ Rounds(k)' \in {k - 1, k, k + 1}
          /\ Planned' = 1 => Rounds(k)' # k + 1
      BY <1>1, <1>3, <2>2 DEF Planned, Rounds, AgentTypeInv, RoundInv
    <2>5. late' + Planned' + Rounds(k)' <= HealthDepth + 1
      BY <1>1, <2>1, <2>2, <2>4
    <2> QED
      BY <1>1, <1>4, <1>6, <2>2, <2>3, <2>5 DEF LateInv
  <1>7. CASE h = "stop" /\ Newest = "stop"
    <2>1. PICK k \in Nat : Place(k) /\ late + Planned + Rounds(k) <= HealthDepth + 1
      BY <1>7 DEF LateInv
    <2>2. late' = late /\ Planned' = Planned
      BY <1>3, <1>7 DEF Planned
    <2>3. CASE n < HealthDepth \/ k <= 1
      <3>1. Place(k)'
        <4>1. \A i \in 1 .. Len(new) :
                 \/ i = Len(new) /\ new[i] = "stop"
                 \/ i \in 1 .. n /\ n < HealthDepth /\ new[i] = reports[i]
                 \/ i + 1 \in 1 .. n /\ n = HealthDepth /\ new[i] = reports[i + 1]
          BY <1>1, <1>2, <1>7
        <4>2. \A i \in 1 .. Len(new) : i >= k => new[i] = "stop"
          BY <4>1, <2>1, <1>1 DEF Place
        <4>3. k \in 0 .. Len(new)
          BY <1>1, <1>2, <2>1, <2>3 DEF Place
        <4> QED
          BY <1>3, <2>1, <4>2, <4>3 DEF Place
      <3>2. Rounds(k)' = Rounds(k)
        BY <1>3 DEF Rounds
      <3> QED
        BY <1>4, <1>7, <2>1, <2>2, <3>1, <3>2 DEF LateInv
    <2>4. CASE ~(n < HealthDepth \/ k <= 1)
      <3>1. n = HealthDepth /\ k \in 2 .. n
        BY <1>1, <2>1, <2>4 DEF Place
      <3>2. Place(k - 1)'
        <4>1. \A i \in 1 .. Len(new) :
                 \/ i = Len(new) /\ new[i] = "stop"
                 \/ i + 1 \in 1 .. n /\ new[i] = reports[i + 1]
          BY <1>1, <1>2, <1>7, <3>1
        <4>2. \A i \in 1 .. Len(new) : i >= k - 1 => new[i] = "stop"
          BY <4>1, <2>1, <3>1, <1>1 DEF Place
        <4> QED
          BY <1>2, <1>3, <3>1, <4>2 DEF Place
      <3>3. Rounds(k - 1)' <= Rounds(k)
        BY <1>3, <3>1 DEF Rounds
      <3>4. /\ k - 1 \in Nat /\ Rounds(k - 1)' \in Nat /\ Rounds(k) \in Nat
            /\ Planned \in Nat
        BY <3>1 DEF Rounds, Planned
      <3>5. late' + Planned' + Rounds(k - 1)' <= HealthDepth + 1
        BY <1>1, <2>1, <2>2, <3>3, <3>4
      <3> QED
        BY <1>4, <1>7, <3>2, <3>4, <3>5 DEF LateInv
    <2> QED
      BY <2>3, <2>4
  <1> QED
    BY <1>5, <1>6, <1>7 DEF Health

(* The callback of a report moves the stop up one place, and makes room    *)
(* for one more command only when this round's was still to come.          *)
LEMMA LateOnHealth ==
    ASSUME AgentTypeInv, LateInv, OnHealth
    PROVE  LateInv'
  <1>1. /\ reports \in Seq(Health) /\ reports # <<>> /\ Len(reports) \in Nat
        /\ late \in Nat /\ HealthDepth \in Nat
    BY AgentAssumption DEF OnHealth, AgentTypeInv, TypeOK, RoundInv
  <1>2. /\ seen' = reports[1]
        /\ Len(reports) \in Nat \ {0}
        /\ reports' \in Seq(Health)
        /\ Len(reports') = Len(reports) - 1
        /\ \A i \in 1 .. Len(reports) - 1 : reports'[i] = reports[i + 1]
    BY <1>1, TailKeeps DEF OnHealth
  <1>3. Newest' = Newest
    <2>1. CASE Len(reports) = 1
      BY <1>1, <1>2, <2>1 DEF Newest
    <2>2. CASE Len(reports) > 1
      <3>1. Len(reports) - 1 \in 1 .. Len(reports) - 1 /\ reports' # <<>>
        BY <1>2, <2>2
      <3>2. reports'[Len(reports')] = reports[Len(reports)]
        BY <1>2, <3>1
      <3> QED
        BY <1>1, <3>1, <3>2 DEF Newest
    <2> QED
      BY <1>2, <2>1, <2>2
  <1>4. /\ late' = late /\ Planned' = Planned /\ "health" \in due
        /\ due' = due \ {"health"}
    BY DEF OnHealth, Planned
  <1>5. CASE Newest = "stop"
    <2>1. PICK k \in Nat : Place(k) /\ late + Planned + Rounds(k) <= HealthDepth + 1
      BY <1>5 DEF LateInv
    <2> DEFINE j == IF k = 0 THEN 0 ELSE k - 1
    <2>2. j \in Nat /\ j <= k /\ j \in 0 .. Len(reports')
      BY <1>2, <2>1 DEF Place
    <2>3. Place(j)'
      <3>1. \A i \in 1 .. Len(reports') : i >= j => reports'[i] = "stop"
        BY <1>1, <1>2, <2>1 DEF Place
      <3>2. j = 0 => seen' = "stop"
        BY <1>2, <2>1 DEF Place
      <3> QED
        BY <2>2, <3>1, <3>2 DEF Place
    <2>4. Rounds(j)' <= Rounds(k) /\ Rounds(j)' \in Nat /\ Rounds(k) \in Nat
      BY <1>4, <2>1, <2>2 DEF Rounds
    <2>5. late' + Planned' + Rounds(j)' <= HealthDepth + 1
      BY <1>1, <1>4, <2>1, <2>4 DEF Planned
    <2> QED
      BY <1>3, <1>5, <2>2, <2>3, <2>5 DEF LateInv
  <1>6. CASE Newest # "stop"
    BY <1>3, <1>4, <1>6 DEF LateInv
  <1> QED
    BY <1>5, <1>6

(* Every callback keeps the count of the goals after a stop.               *)
LEMMA LateStep == AgentTypeInv /\ LateInv /\ [AgentNext]_agentVars => LateInv'
  <1> SUFFICES ASSUME AgentTypeInv, LateInv, [AgentNext]_agentVars PROVE LateInv'
    OBVIOUS
  <1>1. late \in Nat /\ planning \in Command \cup {0}
    BY DEF AgentTypeInv, TypeOK
  <1>2. ASSUME NEW h \in Health, Report(h) PROVE LateInv'
    BY <1>2, LateReport
  <1>3. CASE OnHealth
    BY <1>3, LateOnHealth
  <1>4. CASE Round
    <2>1. ASSUME NEW k \in Nat, Place(k) PROVE Rounds(k)' <= Rounds(k)
      <3>1. k # 0 => "health" \in due'
        BY <1>4, <2>1 DEF Round, Ready, Place, Subscription
      <3> QED
        BY <1>4, <3>1 DEF Round, Rounds
    <2>2. Planned' = Planned /\ late' = late /\ reports' = reports /\ seen' = seen
      BY <1>4 DEF Round, Planned
    <2>3. \A k \in Nat : Rounds(k) \in Nat /\ Rounds(k)' \in Nat
      BY DEF Rounds
    <2>4. \A k \in Nat : Newest = "stop" /\ Place(k) =>
              late' + Planned' + Rounds(k)' <= late + Planned + Rounds(k)
      BY <1>1, <2>1, <2>2, <2>3 DEF Planned
    <2>5. Newest # "stop" => late' = 0
      BY <2>2 DEF LateInv
    <2> HIDE DEF Rounds
    <2> QED
      BY <1>1, <2>2, <2>4, <2>5, LateKept
  <1>5. CASE OnCommand
    <2>1. ASSUME NEW k \in Nat, Place(k)
          PROVE  Planned' + Rounds(k)' <= Planned + Rounds(k)
      <3>1. planning = 0 /\ "command" \in due /\ due' = due \ {"command"}
        BY <1>5 DEF OnCommand, Free
      <3>2. k = 0 => planning' = 0
        BY <1>5, <2>1, <3>1 DEF OnCommand, Gate, Place
      <3> QED
        BY <3>1, <3>2 DEF Planned, Rounds
    <2>2. late' = late /\ reports' = reports /\ seen' = seen
      BY <1>5 DEF OnCommand
    <2>3. \A k \in Nat : Rounds(k) \in Nat /\ Rounds(k)' \in Nat
      BY DEF Rounds
    <2>4. \A k \in Nat : Newest = "stop" /\ Place(k) =>
              late' + Planned' + Rounds(k)' <= late + Planned + Rounds(k)
      BY <1>1, <2>1, <2>2, <2>3 DEF Planned
    <2>5. Newest # "stop" => late' = 0
      BY <2>2 DEF LateInv
    <2> QED
      BY <1>1, <2>2, <2>4, <2>5, LateKept
  <1>6. CASE Unplanned \/ Dispatch
    <2>1. /\ planning # 0 /\ planning' = 0 /\ due' = due
          /\ reports' = reports /\ seen' = seen
          /\ late' = late \/ late' = IF Newest = "stop" THEN late + 1 ELSE late
      BY <1>6 DEF Unplanned, Dispatch
    <2>2. \A k \in Nat : Rounds(k) \in Nat /\ Rounds(k)' \in Nat
      BY DEF Rounds
    <2>3. \A k \in Nat : Rounds(k)' = Rounds(k)
      BY <2>1 DEF Rounds
    <2>4. \A k \in Nat : Newest = "stop" /\ Place(k) =>
              late' + Planned' + Rounds(k)' <= late + Planned + Rounds(k)
      BY <1>1, <2>1, <2>2, <2>3 DEF Planned
    <2>5. Newest # "stop" => late' = 0
      BY <2>1 DEF LateInv
    <2>6. late' \in Nat /\ reports' = reports /\ seen' = seen
      BY <1>1, <2>1
    <2> HIDE DEF Rounds, Planned
    <2> QED
      BY <2>4, <2>5, <2>6, LateKept
  <1>7. ASSUME \/ \E c \in Command :
                     \/ Order(c) \/ OnGoalAccepted(c)
                     \/ OnGoalRejected(c) \/ OnTaskResult(c)
               \/ Crash \/ UNCHANGED agentVars
        PROVE  LateInv'
    <2>1. UNCHANGED <<reports, seen, due, planning, late>>
      BY <1>7 DEF Order, OnGoalAccepted, OnGoalRejected, OnTaskResult, Crash, agentVars
    <2> QED
      BY <2>1 DEF LateInv, Place, Planned, Rounds, Newest
  <1> QED
    BY <1>2, <1>3, <1>4, <1>5, <1>6, <1>7 DEF AgentNext

(* Once a stop has reached the agent and is not taken back, at most as     *)
(* many goals follow as reports fit into the queue, and one (l. 289-306),  *)
(* for every number of commands and every depth of the queues.             *)
THEOREM StopBounded == AgentSpec => []StopBound
  <1>1. AgentInit => LateInv
    BY DEF AgentInit, LateInv, Newest
  <1>2. AgentTypeInv /\ LateInv => StopBound
    <2> SUFFICES ASSUME AgentTypeInv, LateInv PROVE StopBound
      OBVIOUS
    <2>1. late \in Nat /\ HealthDepth \in Nat
      BY AgentAssumption DEF AgentTypeInv, TypeOK
    <2>2. \A k \in Nat : Planned \in Nat /\ Rounds(k) \in Nat
      BY DEF Planned, Rounds
    <2> HIDE DEF Planned, Rounds
    <2> QED
      BY <2>1, <2>2 DEF LateInv, StopBound
  <1> QED
    BY <1>1, <1>2, AgentTypeInit, AgentTypeStep, LateStep, PTL DEF AgentSpec

(***************************************************************************)
(* One answer                                                              *)
(***************************************************************************)
Settled == {"answered", "rejected", "ignored", "dropped"}

(* A step moves on a command that is new, in the queue, being planned or   *)
(* at work as a goal, and none of the others.                              *)
LEMMA SettledStays ==
    ASSUME AgentTypeInv, [AgentNext]_agentVars, NEW c \in Command, fate[c] \in Settled
    PROVE  fate'[c] = fate[c]
  <1>1. /\ fate \in [Command -> Fate] /\ planning \in Command \cup {0}
        /\ commands \in Seq(Command)
        /\ planning # 0 => fate[planning] = "planning"
    BY DEF AgentTypeInv, TypeOK, QueueInv
  <1>2. commands # <<>> => /\ Head(commands) \in Command
                           /\ fate[Head(commands)] = "queued"
    BY <1>1 DEF AgentTypeInv, QueueInv
  <1>3. \A d \in Command : \A f : fate' = [fate EXCEPT ![d] = f] /\ d # c
                                 => fate'[c] = fate[c]
    BY <1>1
  <1>4. ASSUME NEW d \in Command, Order(d) PROVE fate'[c] = fate[c]
    <2>1. c # d
      BY <1>4 DEF Order, Settled
    <2>2. ~(Len(commands) = CommandDepth /\ c = Head(commands))
      BY <1>1, <1>2, AgentAssumption DEF Settled
    <2>3. QED
      BY <1>4, <2>1, <2>2 DEF Order
  <1>5. CASE OnCommand
    <2>1. commands # <<>>
      BY <1>5 DEF OnCommand, AgentTypeInv, RoundInv
    <2>2. Head(commands) \in Command /\ Head(commands) # c
      BY <1>2, <2>1 DEF Settled
    <2>3. \E f : fate' = [fate EXCEPT ![Head(commands)] = f]
      BY <1>5 DEF OnCommand
    <2>4. QED
      BY <1>3, <2>2, <2>3
  <1>6. CASE Unplanned \/ Dispatch
    <2>1. planning \in Command /\ planning # c
      BY <1>1, <1>6 DEF Unplanned, Dispatch, Settled
    <2>2. \E f : fate' = [fate EXCEPT ![planning] = f]
      BY <1>6 DEF Unplanned, Dispatch
    <2>3. QED
      BY <1>3, <2>1, <2>2
  <1>7. ASSUME NEW d \in Command,
               OnGoalAccepted(d) \/ OnGoalRejected(d) \/ OnTaskResult(d)
        PROVE  fate'[c] = fate[c]
    <2>1. /\ c # d
          /\ \E f : fate' = [fate EXCEPT ![d] = f]
      BY <1>7 DEF OnGoalAccepted, OnGoalRejected, OnTaskResult, Settled
    <2>2. QED
      BY <1>3, <2>1
  <1>8. CASE (\E h \in Health : Report(h)) \/ Round \/ OnHealth \/ Crash
             \/ UNCHANGED agentVars
    BY <1>8 DEF Report, Round, OnHealth, Crash, agentVars
  <1>9. QED
    BY <1>4, <1>5, <1>6, <1>7, <1>8 DEF AgentNext

(* No command is answered twice, and no goal is sent for one that was      *)
(* refused or pushed out of the queue, for every number of commands and    *)
(* every depth of the queues.                                              *)
THEOREM AlwaysSettledOnce == AgentSpec => SettledOnce
  <1> DEFINE Same == \A c \in Command : fate[c] \in Settled => fate'[c] = fate[c]
  <1>1. AgentTypeInv /\ [AgentNext]_agentVars => [Same]_agentVars
    BY SettledStays
  <1>2. [][Same]_agentVars => SettledOnce
    BY DEF SettledOnce, Settled
  <1> HIDE DEF Same, AgentTypeInv
  <1>3. QED
    BY <1>1, <1>2, AgentTypeInit, AgentTypeStep, PTL DEF AgentSpec
=============================================================================
