----------------------------- MODULE MCFactory -----------------------------
(***************************************************************************)
(* Commands and model plans for TLC.                                       *)
(***************************************************************************)
EXTENDS Factory

(* Every command of these keywords.                                        *)
MCCommands ==
    SUBSET {"generator", "valve", "pick", "damaged", "inspect", "find", "all",
            "report"}

Placing(at) == TaskStep("arm_place", "none", NoObject, at)
Taking == Ruled("arm_pick", "damaged_component")
Driving(at) == TaskStep("navigate_to", "none", NoObject, at)
Looking(o) == TaskStep("inspect", "none", o, NoPlace)

MCModelPlans ==
    {<<Taking, Placing(NoPlace)>>,
     <<Taking, Placing(<<-160, -160>>)>>,
     <<Placing(Null)>>,
     <<Driving(<<200, -60>>), Looking("gen_02")>>,
     <<Taking, Looking("comp_01")>>,
     <<Driving(<<-40, -27>>), Driving(<<-40, -30>>), Looking("comp_01")>>,
     <<Driving(<<1200, 0>>)>>,
     <<Ruled("find_object", "damaged_component")>>,
     <<TaskStep("wait", "none", NoObject, NoPlace), Ruled("patrol", "none")>>,
     <<Ruled("unknown", "none")>>}
=============================================================================
