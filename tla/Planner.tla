------------------------------ MODULE Planner ------------------------------
(***************************************************************************)
(* The rule-based planner, MockLLMProvider: it plans when no language      *)
(* model is configured, and whenever the model's answer is of no use.      *)
(*                                                                         *)
(* A command is the set of the keywords that occur in it.  Synonyms count  *)
(* as one: grasp is pick, component is damaged, check and scan are         *)
(* inspect, locate is find, status is report.                              *)
(***************************************************************************)
EXTENDS Sequences

CONSTANTS
    NoObject,   \* params["object_id"] = None
    NoPlace     \* params["x"] and ["y"] left out or None

Keyword == {"generator", "valve", "box", "pick", "damaged", "inspect", "find",
            "all", "report"}

(***************************************************************************)
(* _extract_objects: what to work on, what to pick up, what to do.         *)
(***************************************************************************)
Target(words) ==
    IF "box" \in words THEN "box"
    ELSE IF "valve" \in words THEN "valve" ELSE "generator"

Second(words) ==
    IF "pick" \in words /\ "damaged" \notin words THEN Target(words)
    ELSE "damaged_component"

Deed(words) ==
    IF "pick" \notin words THEN "inspect"
    ELSE IF "inspect" \in words THEN "inspect_and_pick" ELSE "pick"

(* Picking and inspecting what has first to be found is only finding it.   *)
Search(deed) ==
    CASE deed = "inspect" -> "find_and_inspect"
      [] deed = "pick" -> "find_inspect_and_pick"
      [] OTHER -> "find"

(* Mutant: a search takes precedence over a report. *)
IntentFind(words) ==
    IF "find" \in words THEN Search(Deed(words))
    ELSE IF "report" \in words THEN "report"
    ELSE IF "all" \in words /\ words \cap {"generator", "inspect"} # {}
    THEN "inspect_all"
    ELSE Deed(words)

Intent(words) ==
    IF "report" \in words THEN "report"
    ELSE IF "all" \in words /\ words \cap {"generator", "inspect"} # {}
    THEN "inspect_all"
    ELSE IF "find" \in words THEN Search(Deed(words)) ELSE Deed(words)

(***************************************************************************)
(* generate: the steps.  class stands for class_name and for the reference *)
(* _resolve_from_object that the engine resolves.                          *)
(***************************************************************************)
TaskStep(skill, class, object, at) ==
    [skill |-> skill, class |-> class, object |-> object, at |-> at]

Ruled(skill, class) == TaskStep(skill, class, NoObject, NoPlace)

Finding == {"find", "find_and_inspect", "find_inspect_and_pick"}
Inspecting == {"find_and_inspect", "find_inspect_and_pick", "inspect",
               "inspect_and_pick", "inspect_all"}
Picking == {"pick", "inspect_and_pick", "find_inspect_and_pick"}

When(condition, steps) == IF condition THEN steps ELSE <<>>

Rules(words) ==
    LET intent == Intent(words)
        target == Target(words) IN
    When(intent \in Finding,
         <<Ruled("query_world", target), Ruled("find_object", target)>>)
    \o When(intent \in Inspecting,
            <<Ruled("navigate_to", target), Ruled("inspect", target),
              Ruled("analyze_observation", target)>>)
    \o When(intent \in Picking, <<Ruled("arm_pick", Second(words))>>)
    \o <<Ruled("report_status", "none")>>

Skills(plan) == {plan[i].skill : i \in DOMAIN plan}
=============================================================================
