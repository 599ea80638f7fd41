--------------------------- MODULE MCSkillEngine ---------------------------
(* Small instances of the skill engine for TLC.                            *)
EXTENDS SkillEngine, TLC

CONSTANTS p1, p2, ugv, arm

ScriptNav == p1 :> <<"navigate_to">>
ScriptTwiceAndOnce == p1 :> <<"navigate_to", "navigate_to">> @@ p2 :> <<"navigate_to">>

ScriptNavNav == p1 :> <<"navigate_to">> @@ p2 :> <<"navigate_to">>
ScriptNavPick == p1 :> <<"navigate_to">> @@ p2 :> <<"arm_pick">>
ScriptTwoAndOne == p1 :> <<"navigate_to", "inspect">> @@ p2 :> <<"inspect">>

(* Both bodies of the demo factory have a camera.                          *)
FactorySkills == {<<ugv, "navigate_to">>, <<ugv, "inspect">>,
                  <<arm, "inspect">>, <<arm, "arm_pick">>}

AllSkills == {"navigate_to", "inspect", "arm_pick"}
NoRetry == [s \in AllSkills |-> 0]
NavRetry == [s \in AllSkills |-> IF s = "navigate_to" THEN 1 ELSE 0]
=============================================================================
