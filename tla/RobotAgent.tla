----------------------------- MODULE RobotAgent -----------------------------
(***************************************************************************)
(* FrontierXAgentNode, the agent on a robot body: it turns commands into   *)
(* goals of the action server ExecuteTaskPlan, asking a language model for *)
(* the plan.  rclpy.spin runs its callbacks one at a time, in rounds: a    *)
(* round takes at most one message from each subscription that had one     *)
(* when the round began, in any order.  The callback of a command blocks   *)
(* the node while the model answers and while it looks for the server, so  *)
(* it is two actions, and messages arrive between them.                    *)
(*                                                                         *)
(* Commands are numbered in the order in which they are sent.  The health  *)
(* reports come from the safety monitor of the same body, by best effort:  *)
(* one that is lost is a Report that does not happen.                      *)
(***************************************************************************)
EXTENDS Naturals, Sequences

CONSTANTS
    MaxCommand,     \* bound on the number of commands
    Blank,          \* the commands that are empty once stripped
    CommandDepth,   \* QoS depth of /agent/command
    HealthDepth,    \* QoS depth of /robot_health
    LlmAvailable    \* whether the ollama package could be imported

VARIABLES
    fate,       \* what became of each command
    commands,   \* the subscription queue of /agent/command
    reports,    \* the subscription queue of /robot_health
    seen,       \* _robot_health: "ok" or "stop", or "none" before the first
    due,        \* subscriptions whose callback is still to run in this round
    planning,   \* the command the node is blocked on, 0 when it is not
    current,    \* _current_task_id, as the number of its command, 0 for None
    executing,  \* _is_executing
    alive,      \* whether the node still spins
    late,       \* history: goals sent since a stop is the newest report
    rivals      \* history: goals that were open when the current one was sent

agentVars == <<fate, commands, reports, seen, due, planning, current,
               executing, alive, late, rivals>>

Command == 1 .. MaxCommand
Subscription == {"command", "health"}
Health == {"ok", "stop"}
Fate == {"unsent", "queued", "dropped", "ignored", "planning", "sent",
         "running", "answered", "rejected"}
Open == {c \in Command : fate[c] \in {"sent", "running"}}

ASSUME AgentAssumption ==
    /\ MaxCommand \in Nat
    /\ Blank \subseteq Command
    /\ CommandDepth \in Nat \ {0}
    /\ HealthDepth \in Nat \ {0}
    /\ LlmAvailable \in BOOLEAN

AgentInit ==
    /\ fate = [c \in Command |-> "unsent"]
    /\ commands = <<>>
    /\ reports = <<>>
    /\ seen = "none"
    /\ due = {}
    /\ planning = 0
    /\ current = 0
    /\ executing = FALSE
    /\ alive = TRUE
    /\ late = 0
    /\ rivals = {}

(* Mutant: the queue keeps everything. *)
KeepAll(queue, m, depth) == Append(queue, m)

(* A queue of QoS history KEEP_LAST: a message too many drops the oldest.  *)
KeepLast(queue, m, depth) ==
    IF Len(queue) < depth THEN Append(queue, m) ELSE Append(Tail(queue), m)

(***************************************************************************)
(* What arrives                                                            *)
(***************************************************************************)
(* A command is published on /agent/command.                               *)
Order(c) ==
    /\ fate[c] = "unsent"
    /\ \A d \in 1 .. c - 1 : fate[d] # "unsent"
    /\ commands' = KeepLast(commands, c, CommandDepth)
    /\ fate' = [d \in Command |->
                  IF d = c THEN "queued"
                  ELSE IF Len(commands) = CommandDepth /\ d = Head(commands)
                  THEN "dropped" ELSE fate[d]]
    /\ UNCHANGED <<reports, seen, due, planning, current, executing, alive,
                   late, rivals>>

(* The newest report that has reached the body's agent, read or not.       *)
Newest == IF reports = <<>> THEN seen ELSE reports[Len(reports)]

(* The safety monitor publishes on /robot_health.                          *)
Report(h) ==
    /\ reports' = KeepLast(reports, h, HealthDepth)
    /\ late' = IF h = "ok" THEN 0 ELSE late
    /\ UNCHANGED <<fate, commands, seen, due, planning, current, executing,
                   alive, rivals>>

(***************************************************************************)
(* The executor of rclpy                                                   *)
(***************************************************************************)
Free == alive /\ planning = 0

Ready == {s \in Subscription :
             (IF s = "command" THEN commands ELSE reports) # <<>>}

Round ==
    /\ Free
    /\ due = {}
    /\ Ready # {}
    /\ due' = Ready
    /\ UNCHANGED <<fate, commands, reports, seen, planning, current, executing,
                   alive, late, rivals>>

(***************************************************************************)
(* The callbacks                                                           *)
(***************************************************************************)
OnHealth ==
    /\ Free
    /\ "health" \in due
    /\ due' = due \ {"health"}
    /\ seen' = Head(reports)
    /\ reports' = Tail(reports)
    /\ UNCHANGED <<fate, commands, planning, current, executing, alive, late,
                   rivals>>

(* Mutant: the gate asks for the FAULT state only. *)
GateFaultOnly == TRUE

(* _safety_gate_check: no report yet is not refused.  The FAULT state is   *)
(* never published, see SafetyMonitor.                                     *)
Gate == seen # "stop"

(* _on_command up to the language model.                                   *)
OnCommand ==
    /\ Free
    /\ "command" \in due
    /\ due' = due \ {"command"}
    /\ commands' = Tail(commands)
    /\ LET c == Head(commands) IN
       \/ /\ c \in Blank
          /\ fate' = [fate EXCEPT ![c] = "ignored"]
          /\ UNCHANGED planning
       \/ /\ c \notin Blank
          /\ ~Gate
          /\ fate' = [fate EXCEPT ![c] = "answered"]
          /\ UNCHANGED planning
       \/ /\ c \notin Blank
          /\ Gate
          /\ fate' = [fate EXCEPT ![c] = "planning"]
          /\ planning' = c
    /\ UNCHANGED <<reports, seen, current, executing, alive, late, rivals>>

(* Mutant: the command ends without a response. *)
UnplannedSilent ==
    /\ alive
    /\ planning # 0
    /\ planning' = 0
    /\ UNCHANGED <<fate, commands, reports, seen, due, current, executing,
                   alive, late, rivals>>

(* Mutant: the handler goes on after its answer. *)
UnplannedGoesOn ==
    /\ alive
    /\ planning # 0
    /\ fate' = [fate EXCEPT ![planning] = "answered"]
    /\ UNCHANGED <<planning, commands, reports, seen, due, current,
                   executing, alive, late, rivals>>

(* _generate_plan returns None (the model cannot be reached, its answer is *)
(* not JSON or not a plan; without the package, no keyword matches), or    *)
(* there is no action server.  Either is answered.                         *)
Unplanned ==
    /\ alive
    /\ planning # 0
    /\ planning' = 0
    /\ fate' = [fate EXCEPT ![planning] = "answered"]
    /\ UNCHANGED <<commands, reports, seen, due, current, executing, alive,
                   late, rivals>>

(* The model answers JSON that is not an object: the assignment at l. 370  *)
(* raises what no except clause of the node catches.                       *)
Crash ==
    /\ alive
    /\ planning # 0
    /\ LlmAvailable
    /\ alive' = FALSE
    /\ UNCHANGED <<fate, commands, reports, seen, due, planning, current,
                   executing, late, rivals>>

(* A valid plan, and the server is there.  The gate is not asked again.    *)
Dispatch ==
    /\ alive
    /\ planning # 0
    /\ planning' = 0
    /\ fate' = [fate EXCEPT ![planning] = "sent"]
    /\ current' = planning
    /\ executing' = TRUE
    /\ late' = IF Newest = "stop" THEN late + 1 ELSE late
    /\ rivals' = Open
    /\ UNCHANGED <<commands, reports, seen, due, alive>>

(* _on_goal_accepted: a rejected goal ends here, without a response.       *)
OnGoalAccepted(c) ==
    /\ Free
    /\ fate[c] = "sent"
    /\ fate' = [fate EXCEPT ![c] = "running"]
    /\ UNCHANGED <<commands, reports, seen, due, planning, current, executing,
                   alive, late, rivals>>

(* Mutant: the rejection leaves the flag set. *)
OnGoalRejectedStill(c) ==
    /\ Free
    /\ fate[c] = "sent"
    /\ fate' = [fate EXCEPT ![c] = "rejected"]
    /\ UNCHANGED <<commands, reports, seen, due, planning, current, executing,
                   alive, late, rivals>>

OnGoalRejected(c) ==
    /\ Free
    /\ fate[c] = "sent"
    /\ fate' = [fate EXCEPT ![c] = "rejected"]
    /\ executing' = FALSE
    /\ UNCHANGED <<commands, reports, seen, due, planning, current, alive,
                   late, rivals>>

(* _on_task_result: goals of several commands share one _is_executing.     *)
OnTaskResult(c) ==
    /\ Free
    /\ fate[c] = "running"
    /\ fate' = [fate EXCEPT ![c] = "answered"]
    /\ executing' = FALSE
    /\ UNCHANGED <<commands, reports, seen, due, planning, current, alive,
                   late, rivals>>

AgentNext ==
    \/ \E c \in Command : Order(c)
    \/ \E h \in Health : Report(h)
    \/ Round
    \/ OnHealth
    \/ OnCommand
    \/ Unplanned
    \/ Crash
    \/ Dispatch
    \/ \E c \in Command :
          OnGoalAccepted(c) \/ OnGoalRejected(c) \/ OnTaskResult(c)

(* The executor runs what is ready; the model, which is asked without a    *)
(* timeout, is assumed to answer or raise, and the server to answer every  *)
(* goal.  Nobody has to send commands or reports.                          *)
AgentFairness ==
    /\ WF_agentVars(Round)
    /\ WF_agentVars(OnHealth)
    /\ WF_agentVars(OnCommand)
    /\ WF_agentVars(Unplanned \/ Crash \/ Dispatch)
    /\ \A c \in Command :
          /\ WF_agentVars(OnGoalAccepted(c) \/ OnGoalRejected(c))
          /\ WF_agentVars(OnTaskResult(c))

AgentSpec == AgentInit /\ [][AgentNext]_agentVars /\ AgentFairness

(***************************************************************************)
(* Properties                                                              *)
(***************************************************************************)
(* The agent's variables keep their types, the queues their depths.        *)
TypeOK ==
    /\ fate \in [Command -> Fate]
    /\ commands \in Seq(Command) /\ Len(commands) <= CommandDepth
    /\ reports \in Seq(Health) /\ Len(reports) <= HealthDepth
    /\ seen \in Health \cup {"none"}
    /\ due \subseteq Subscription
    /\ planning \in Command \cup {0}
    /\ current \in Command \cup {0}
    /\ executing \in BOOLEAN
    /\ alive \in BOOLEAN
    /\ late \in Nat
    /\ rivals \subseteq Command

(* The gate looks at the last report READ, before the blocking call to the *)
(* model (_on_command l. 289, 295): once a stop has reached the agent and  *)
(* is not taken back, the goals it still sends are no more than the        *)
(* reports that wait in the queue and one that was being planned.          *)
StopBound == late <= HealthDepth + 1

(* The heartbeat says executing exactly as long as the goal sent last and  *)
(* all those at work when it was sent are open: a goal alone is reported   *)
(* as it is, and of goals that overlap the first to end, whichever it is,  *)
(* by its result or its rejection, makes the agent say ready while the     *)
(* others go on.  Goals share _is_executing (l. 448, 460, 474).            *)
ExecutingIsExact == executing <=> current \in Open /\ rivals \subseteq Open

(* No command is answered twice, and no goal is sent for one that was      *)
(* refused, pushed out of the queue or answered that it could not be       *)
(* planned: each of the answers of _on_command, _dispatch_plan and         *)
(* _on_task_result ends its command (l. 283, 291, 297, 438, 479).          *)
SettledOnce ==
    [][\A c \in Command :
          fate[c] \in {"answered", "rejected", "ignored", "dropped"}
              => fate'[c] = fate[c]]_agentVars

(* Every command that reaches the agent is answered, or its goal was       *)
(* rejected, unless it was blank or pushed out of the queue, or the node   *)
(* died (_on_command and the callbacks of the goal).                       *)
Settles ==
    \A c \in Command :
        fate[c] = "queued" ~>
            fate[c] \in {"answered", "rejected", "ignored", "dropped"} \/ ~alive
=============================================================================
