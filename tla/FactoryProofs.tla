---------------------------- MODULE FactoryProofs ----------------------------
(***************************************************************************)
(* What holds of the factory for every set of commands and every set of    *)
(* plans that a language model may answer.                                 *)
(***************************************************************************)
EXTENDS Factory, SequenceTheorems, TLAPS

State == {"UNINSPECTED", "WAITING_REMOVAL", "AVAILABLE", "INSPECTED", "DAMAGED",
          "HELD", "PLACED"}
Item == [at : Spot, state : State, holder : {"arm", Nobody}, hot : BOOLEAN]

(* A place is given as None only to arm_place.                             *)
NullPlaced(steps) ==
    \A i \in 1 .. Len(steps) : steps[i].at = Null => steps[i].skill = "arm_place"

Shapes ==
    /\ pose \in [Robot -> Spot]
    /\ world \in [Object -> Item]
    /\ DOMAIN simWorld = Object
    /\ plan \in Seq(Step)
    /\ NullPlaced(plan)
    /\ phase = "idle" <=> plan = <<>>

TypeInv == TypeOK /\ Shapes

(***************************************************************************)
(* The rules                                                               *)
(***************************************************************************)
(* The rules plan at least one step, each of a skill that exists.          *)
LEMMA RulesTyped ==
    ASSUME NEW words
    PROVE  /\ Rules(words) \in Seq(Step)
           /\ Len(Rules(words)) \in Nat \ {0}
           /\ NullPlaced(Rules(words))
  <1> DEFINE Plain == [skill : Skill, class : ClassName, object : {NoObject}, at : {NoPlace}]
  <1>1. \A skill \in Skill, class \in ClassName : Ruled(skill, class) \in Plain
    BY DEF Ruled, TaskStep
  <1>2. Target(words) \in ClassName /\ Second(words) \in ClassName
    BY DEF Target, Second, ClassName
  <1>20. /\ {"query_world", "find_object", "navigate_to", "inspect", "analyze_observation",
              "arm_pick", "report_status"} \subseteq Skill
         /\ "none" \in ClassName
    BY DEF Skill, ClassName
  <1>3. ASSUME NEW c, NEW s \in Seq(Plain)
        PROVE  When(c, s) \in Seq(Plain)
    <2>1. <<>> \in Seq(Plain)
      OBVIOUS
    <2>2. QED
      BY <2>1 DEF When
  <1>4. ASSUME NEW a \in Plain PROVE <<a>> \in Seq(Plain)
    OBVIOUS
  <1>5. ASSUME NEW a \in Plain, NEW b \in Plain PROVE <<a, b>> \in Seq(Plain)
    OBVIOUS
  <1>6. ASSUME NEW a \in Plain, NEW b \in Plain, NEW c \in Plain
        PROVE  <<a, b, c>> \in Seq(Plain)
    OBVIOUS
  <1> DEFINE intent == Intent(words)
             find == When(intent \in Finding,
                          <<Ruled("query_world", Target(words)),
                            Ruled("find_object", Target(words))>>)
             look == When(intent \in Inspecting,
                          <<Ruled("navigate_to", Target(words)),
                            Ruled("inspect", Target(words)),
                            Ruled("analyze_observation", Target(words))>>)
             pick == When(intent \in Picking, <<Ruled("arm_pick", Second(words))>>)
             last == <<Ruled("report_status", "none")>>
  <1>7. find \in Seq(Plain)
    <2>1. <<Ruled("query_world", Target(words)), Ruled("find_object", Target(words))>>
             \in Seq(Plain)
      BY <1>1, <1>2, <1>20, <1>5
    <2> QED
      BY <2>1, <1>3
  <1>8. look \in Seq(Plain)
    <2>1. <<Ruled("navigate_to", Target(words)), Ruled("inspect", Target(words)),
            Ruled("analyze_observation", Target(words))>> \in Seq(Plain)
      BY <1>1, <1>2, <1>20, <1>6
    <2> QED
      BY <2>1, <1>3
  <1>9. pick \in Seq(Plain)
    <2>1. <<Ruled("arm_pick", Second(words))>> \in Seq(Plain)
      BY <1>1, <1>2, <1>20, <1>4
    <2> QED
      BY <2>1, <1>3
  <1>10. last \in Seq(Plain) /\ Len(last) = 1
    <2>1. last \in Seq(Plain)
      BY <1>1, <1>20, <1>4
    <2> QED
      BY <2>1
  <1>11. Rules(words) = ((find \o look) \o pick) \o last
    BY DEF Rules
  <1> HIDE DEF find, look, pick, last
  <1>12. (find \o look) \o pick \in Seq(Plain)
    BY <1>7, <1>8, <1>9, ConcatProperties
  <1>13. Rules(words) \in Seq(Plain)
    BY <1>10, <1>11, <1>12, ConcatProperties
  <1>14. Len(Rules(words)) = Len((find \o look) \o pick) + 1
    <2>1. ASSUME NEW s \in Seq(Plain) PROVE Len(s \o last) = Len(s) + Len(last)
      BY <1>10, ConcatProperties
    <2>2. QED
      BY <1>10, <1>11, <1>12, <2>1
  <1>15. ASSUME NEW x \in Plain PROVE x \in Step /\ x.at = NoPlace
    BY DEF Step
  <1>16. NullPlaced(Rules(words))
    <2>1. \A i \in 1 .. Len(Rules(words)) : Rules(words)[i] \in Plain
      BY <1>13, ElementOfSeq
    <2>2. QED
      BY <1>15, <2>1, FactoryAssumption DEF NullPlaced
  <1>17. Rules(words) \in Seq(Step)
    BY <1>13, <1>15, SeqMonotonic
  <1>18. Len(Rules(words)) \in Nat \ {0}
    BY <1>12, <1>14, LenProperties
  <1>19. QED
    BY <1>16, <1>17, <1>18

(* The first of some objects is one of them.                               *)
LEMMA FirstTyped ==
    ASSUME NEW S \in SUBSET Object
    PROVE  S # {} => FirstOf(S) \in S
  <1> SUFFICES ASSUME S # {} PROVE \E o \in S : \A q \in S : Rank[o] <= Rank[q]
    BY DEF FirstOf
  <1>1. /\ Rank["gen_01"] = 1 /\ Rank["gen_02"] = 2
        /\ Rank["comp_01"] = 3 /\ Rank["dock_01"] = 4
    BY DEF Rank
  <1>2. \A o \in S : o \in {"gen_01", "gen_02", "comp_01", "dock_01"}
    BY DEF Object
  <1>3. CASE "gen_01" \in S
    BY <1>1, <1>2, <1>3
  <1>4. CASE "gen_01" \notin S /\ "gen_02" \in S
    BY <1>1, <1>2, <1>4
  <1>5. CASE "gen_01" \notin S /\ "gen_02" \notin S /\ "comp_01" \in S
    BY <1>1, <1>2, <1>5
  <1>6. CASE "gen_01" \notin S /\ "gen_02" \notin S /\ "comp_01" \notin S
    <2>1. S = {"dock_01"}
      BY <1>2, <1>6
    <2>2. QED
      BY <1>1, <2>1
  <1>7. QED
    BY <1>3, <1>4, <1>5, <1>6

-----------------------------------------------------------------------------
(***************************************************************************)
(* What a skill does to the registry and the world model.                  *)
(***************************************************************************)
Moving == {"navigate_to", "find_object"}

(* Poses and objects keep their types; only a moving skill moves, and only *)
(* the robot that does it; an object is held where it was or, when it has  *)
(* just been picked up, where the arm is; what is put down is released;    *)
(* and nobody but a grasp makes an object HELD.                            *)
Borne == {"HELD", "INSPECTED", "DAMAGED"}

Lawful(r, step, b) ==
    /\ b.pose \in [Robot -> Spot]
    /\ b.world \in [Object -> Item]
    /\ step.skill \notin Moving => b.pose = pose
    /\ \A q \in Robot : q # r => b.pose[q] = pose[q]
    /\ \A o \in Object :
          /\ b.world[o].holder # Nobody =>
                \/ /\ b.world[o].holder = world[o].holder
                   /\ b.world[o].at = world[o].at
                \/ b.pose = pose /\ b.world[o].at = pose["arm"]
          /\ b.world[o].state = "PLACED" =>
                \/ b.world[o].holder = Nobody
                \/ world[o].state = "PLACED" /\ b.world[o].holder = world[o].holder
          /\ b.world[o].holder # Nobody =>
                \/ b.world[o].state \in Borne
                \/ /\ b.world[o].state = world[o].state
                   /\ b.world[o].holder = world[o].holder
          /\ b.world[o].state = "HELD" =>
                \/ b.world[o].holder # Nobody
                \/ world[o].state = "HELD" /\ b.world[o].holder = world[o].holder

(* A skill without effect, and one that fails.                             *)
LEMMA BrainNothing ==
    ASSUME Shapes, NEW r \in Robot, NEW step \in Step
    PROVE  Lawful(r, step, Same) /\ Lawful(r, step, Fail)
  BY DEF Shapes, Same, Fail, Lawful

(* A drive.                                                                *)
LEMMA BrainMoves ==
    ASSUME Shapes, NEW r \in Robot, NEW step \in Step, step.skill \in Moving,
           NEW place \in Spot
    PROVE  Lawful(r, step, Moves(r, place))
  <1>1. ASSUME NEW q
        PROVE  /\ [Same EXCEPT !.pose = q].pose = q
               /\ [Same EXCEPT !.pose = q].world = world
    BY DEF Same
  <1>2. Same.pose = pose
    BY DEF Same
  <1>3. /\ Moves(r, place).pose = [pose EXCEPT ![r] = place]
        /\ Moves(r, place).world = world
    BY <1>1, <1>2 DEF Moves
  <1>4. QED
    BY <1>3 DEF Shapes, Lawful

(* A change to one object.                                                 *)
LEMMA BrainBecomes ==
    ASSUME Shapes, NEW r \in Robot, NEW step \in Step, NEW o \in Object,
           NEW item \in Item,
           item.holder # Nobody =>
              \/ item.holder = world[o].holder /\ item.at = world[o].at
              \/ item.at = pose["arm"],
           item.state = "PLACED" => item.holder = Nobody,
           item.holder # Nobody => item.state \in Borne,
           item.state = "HELD" => item.holder # Nobody
    PROVE  Lawful(r, step, Becomes(o, item))
  <1>1. ASSUME NEW w
        PROVE  /\ [Same EXCEPT !.world = w].world = w
               /\ [Same EXCEPT !.world = w].pose = pose
    BY DEF Same
  <1>2. Same.world = world
    BY DEF Same
  <1>3. /\ Becomes(o, item).world = [world EXCEPT ![o] = item]
        /\ Becomes(o, item).pose = pose
    BY <1>1, <1>2 DEF Becomes
  <1>4. QED
    BY <1>3 DEF Shapes, Lawful

(* An inspection and an analysis leave the object where it is, a grasp     *)
(* takes it to the arm, and what is put down is held by nobody.            *)
LEMMA BrainInspect ==
    ASSUME Shapes, NEW r \in Robot, NEW step \in Step, NEW o \in Object
    PROVE  Lawful(r, step, Inspect(r, o)) /\ Lawful(r, step, Analyze(o))
  <1>1. ASSUME NEW s \in {"INSPECTED", "DAMAGED"}, NEW h \in BOOLEAN, NEW item,
               item = [world[o] EXCEPT !.state = s, !.hot = h]
        PROVE  Lawful(r, step, Becomes(o, item))
    <2>1. world[o] \in Item
      BY DEF Shapes
    <2>2. /\ item \in Item
          /\ item.holder = world[o].holder /\ item.at = world[o].at
          /\ item.state \in {"INSPECTED", "DAMAGED"}
      BY <1>1, <2>1 DEF Item, State
    <2>3. QED
      BY <2>2, BrainBecomes DEF Borne
  <1>2. ASSUME NEW s \in {"INSPECTED", "DAMAGED"}, NEW item,
               item = [world[o] EXCEPT !.state = s]
        PROVE  Lawful(r, step, Becomes(o, item))
    <2>1. world[o] \in Item
      BY DEF Shapes
    <2>2. /\ item \in Item
          /\ item.holder = world[o].holder /\ item.at = world[o].at
          /\ item.state \in {"INSPECTED", "DAMAGED"}
      BY <1>2, <2>1 DEF Item, State
    <2>3. QED
      BY <2>2, BrainBecomes DEF Borne
  <1>4. Lawful(r, step, Inspect(r, o))
    <2> DEFINE s == IF o \in Damaged THEN "DAMAGED" ELSE "INSPECTED"
               item == [world[o] EXCEPT !.state = s, !.hot = (o \in Damaged)]
    <2>1. Lawful(r, step, Becomes(o, item))
      <3>1. s \in {"INSPECTED", "DAMAGED"} /\ (o \in Damaged) \in BOOLEAN
        OBVIOUS
      <3> HIDE DEF s
      <3>2. QED
        BY <1>1, <3>1
    <2>2. QED
      BY <2>1, BrainNothing DEF Inspect
  <1>5. Lawful(r, step, Analyze(o))
    <2> DEFINE s == IF world[o].hot \/ world[o].state = "DAMAGED" \/ o \in Damaged
                    THEN "DAMAGED" ELSE "INSPECTED"
               item == [world[o] EXCEPT !.state = s]
    <2>1. Lawful(r, step, Becomes(o, item))
      <3>1. s \in {"INSPECTED", "DAMAGED"}
        OBVIOUS
      <3> HIDE DEF s
      <3>2. QED
        BY <1>2, <3>1
    <2>2. QED
      BY <2>1 DEF Analyze
  <1>6. QED
    BY <1>4, <1>5

(* A grasp takes the object to the arm.                                    *)
LEMMA BrainPick ==
    ASSUME Shapes, NEW r \in Robot, NEW step \in Step, NEW o \in Object
    PROVE  Lawful(r, step, Pick(r, o))
  <1> DEFINE item == [world[o] EXCEPT !.at = pose[r], !.holder = r, !.state = "HELD"]
  <1>1. ASSUME r = "arm" PROVE Lawful(r, step, Becomes(o, item))
    <2>1. world[o] \in Item /\ pose[r] \in Spot
      BY DEF Shapes
    <2>2. /\ item \in Item /\ item.at = pose["arm"]
          /\ item.state = "HELD" /\ item.holder = "arm"
      BY <1>1, <2>1 DEF Item, State
    <2>3. "arm" # Nobody
      BY DEF Nobody
    <2>4. QED
      BY <2>2, <2>3, BrainBecomes DEF Borne
  <1>2. QED
    BY <1>1, BrainNothing DEF Pick

(* What is put down is held by nobody.                                     *)
LEMMA BrainPut ==
    ASSUME Shapes, NEW r \in Robot, NEW step \in Step,
           NEW place \in Spot \cup {NoPlace, Null}
    PROVE  Lawful(r, step, Put(r, place))
  <1> DEFINE o == FirstOf(HeldBy(world, r))
             to == IF place = NoPlace THEN <<pose[r][1] + 10, pose[r][2]>> ELSE place
             item == [world[o] EXCEPT !.at = to, !.holder = Nobody, !.state = "PLACED"]
             b == [Fail EXCEPT !.escapes = TRUE]
  <1>1. ASSUME o # NoObject, place # Null PROVE Lawful(r, step, Becomes(o, item))
    <2>1. o \in Object
      <3>1. HeldBy(world, r) \in SUBSET Object
        BY DEF HeldBy
      <3>2. HeldBy(world, r) # {}
        BY <1>1 DEF FirstOf
      <3>3. QED
        BY <3>1, <3>2, FirstTyped
    <2>2. to \in Spot
      <3>1. pose[r] \in Int \X Int
        BY DEF Shapes, Spot
      <3>2. QED
        BY <1>1, <3>1 DEF Spot
    <2> HIDE DEF o, to
    <2>3. world[o] \in Item
      BY <2>1 DEF Shapes
    <2>4. item \in Item /\ item.holder = Nobody /\ item.state = "PLACED"
      BY <2>2, <2>3 DEF Item, State
    <2>5. QED
      BY <2>1, <2>4, BrainBecomes
  <1>2. Lawful(r, step, b)
    BY DEF Fail, Same, Lawful, Shapes
  <1> HIDE DEF o, item, b
  <1>3. QED
    BY <1>1, <1>2, BrainNothing DEF Put, o, item, b, to

(* Whatever the skill.                                                     *)
LEMMA BrainEffect ==
    ASSUME Shapes, NEW r \in Robot, NEW step \in Step,
           step.at = Null => step.skill = "arm_place"
    PROVE  Lawful(r, step, BrainSkill(r, step))
  <1> DEFINE b == BrainSkill(r, step)
  <1>1. /\ step.object \in Object \cup {NoObject}
        /\ step.at \in Spot \cup {NoPlace, Null}
        /\ step.class \in ClassName
    BY DEF Step
  <1>2. CASE step.skill = "find_object"
    <2>1. CASE OfClass(step.class) = {}
      <3>1. b = Fail
        BY <1>2, <2>1 DEF BrainSkill
      <3>2. QED
        BY <3>1, BrainNothing
    <2>2. CASE OfClass(step.class) # {}
      <3>1. OfClass(step.class) \in SUBSET Object
        BY DEF OfClass
      <3>2. FirstOf(OfClass(step.class)) \in Object
        BY <2>2, <3>1, FirstTyped
      <3>3. world[FirstOf(OfClass(step.class))].at \in Int \X Int
        BY <3>2 DEF Shapes, Item, Spot
      <3>4. Standoff(step.class) \in Spot
        BY <3>3 DEF Standoff, Spot
      <3>5. b = Moves(r, Standoff(step.class))
        BY <1>2, <2>2 DEF BrainSkill
      <3>6. QED
        BY <1>2, <3>4, <3>5, BrainMoves DEF Moving
    <2>3. QED
      BY <2>1, <2>2
  <1>3. CASE step.skill = "navigate_to"
    <2>1. CASE Where(step) = NoPlace
      <3>1. b = Fail
        BY <1>3, <2>1 DEF BrainSkill
      <3>2. QED
        BY <3>1, BrainNothing
    <2>2. CASE Where(step) # NoPlace
      <3>1. ASSUME NEW o \in Object PROVE world[o].at \in Spot
        BY DEF Shapes, Item
      <3>2. Where(step) \in Spot
        BY <1>1, <1>3, <2>2, <3>1 DEF Where
      <3>3. b = Moves(r, Where(step))
        BY <1>3, <2>2 DEF BrainSkill
      <3>4. QED
        BY <1>3, <3>2, <3>3, BrainMoves DEF Moving
    <2>3. QED
      BY <2>1, <2>2
  <1>4. CASE step.skill = "inspect"
    <2>1. b = IF step.object = NoObject THEN Fail ELSE Inspect(r, step.object)
      BY <1>4 DEF BrainSkill
    <2>2. QED
      BY <1>1, <2>1, BrainNothing, BrainInspect
  <1>5. CASE step.skill = "analyze_observation"
    <2>1. b = IF step.object = NoObject THEN Fail ELSE Analyze(step.object)
      BY <1>5 DEF BrainSkill
    <2>2. QED
      BY <1>1, <2>1, BrainNothing, BrainInspect
  <1>6. CASE step.skill = "arm_pick"
    <2>1. b = IF step.object = NoObject THEN Fail ELSE Pick(r, step.object)
      BY <1>6 DEF BrainSkill
    <2>2. QED
      BY <1>1, <2>1, BrainNothing, BrainPick
  <1>7. CASE step.skill = "arm_place"
    <2>1. b = Put(r, step.at)
      BY <1>7 DEF BrainSkill
    <2>2. QED
      BY <1>1, <2>1, BrainPut
  <1>8. CASE step.skill \notin {"find_object", "navigate_to", "inspect",
                                "analyze_observation", "arm_pick", "arm_place"}
    <2>1. b = Same
      BY <1>8 DEF BrainSkill
    <2>2. QED
      BY <2>1, BrainNothing
  <1>9. QED
    BY <1>2, <1>3, <1>4, <1>5, <1>6, <1>7, <1>8
-----------------------------------------------------------------------------
(***************************************************************************)
(* What a skill does to the simulator.                                     *)
(***************************************************************************)
Reasons == {"safe", "short", "standoff", "unable"}

(* The simulated objects and the safe states keep their types.             *)
Sane(out) ==
    /\ out.safe \in [Robot -> BOOLEAN]
    /\ out.why \subseteq Reasons
    /\ DOMAIN out.world = Object
    /\ \A o \in Object : out.world[o].holder \in {"arm", Nobody}

(* A refusal, an exception and a turn on the spot.                         *)
LEMMA SimNothing ==
    ASSUME Sane(SimSame)
    PROVE  /\ Sane(SimFail)
           /\ \A why \in SUBSET Reasons, d \in BOOLEAN :
                 Sane([SimFail EXCEPT !.did = d, !.why = why])
           /\ Sane([SimFail EXCEPT !.raised = TRUE])
           /\ \A s \in [Robot -> BOOLEAN] : Sane([SimSame EXCEPT !.safe = s])
  BY DEF Sane, SimSame, SimFail

(* A ride leaves the objects where they are.                               *)
LEMMA SimRide ==
    ASSUME Sane(SimSame), NEW r, NEW place, NEW out \in Ride(r, place)
    PROVE  Sane(out) /\ \A why \in SUBSET Reasons :
              /\ Sane([out EXCEPT !.why = why])
              /\ Sane([out EXCEPT !.why = out.why \cup why])
  <1>1. CASE out = SimSame
    BY <1>1 DEF Sane, SimSame
  <1>2. ASSUME NEW p, NEW s \in [Robot -> BOOLEAN],
               out = Rode(r, place, p, s)
        PROVE  Sane(out) /\ \A why \in SUBSET Reasons :
                  /\ Sane([out EXCEPT !.why = why])
                  /\ Sane([out EXCEPT !.why = out.why \cup why])
    BY <1>2 DEF Rode, Sane, SimSame, Reasons
  <1>3. CASE ~At(r, place)
    <2>1. \E p \in Stops(r, place), s \in [Robot -> BOOLEAN] : out = Rode(r, place, p, s)
      BY <1>3 DEF Ride
    <2>2. QED
      BY <1>2, <2>1
  <1>4. CASE At(r, place)
    <2>1. out = SimSame
      BY <1>4 DEF Ride
    <2>2. QED
      BY <1>1, <2>1
  <1>5. QED
    BY <1>3, <1>4

(* The nearest object is one of its class.                                 *)
LEMMA NearestTyped ==
    ASSUME NEW r, NEW class
    PROVE  Nearest(r, class) \subseteq Object
  BY DEF Nearest, OfClass

(* A search.                                                               *)
LEMMA SimSearch ==
    ASSUME Sane(SimSame), NEW r, NEW class, NEW out \in SimFind(r, class)
    PROVE  Sane(out)
  <1>1. CASE OfClass(class) = {}
    BY <1>1, SimNothing DEF SimFind, Sane, SimFail, SimSame
  <1>2. CASE OfClass(class) # {}
    <2>1. \E o \in Nearest(r, class) :
             out \in LET p == simWorld[o].at
                        stop == <<IF p[1] > 0 THEN p[1] - 20 ELSE p[1] + 20, p[2]>> IN
                    {[u EXCEPT !.why = IF stop = Standoff(class) THEN @
                                       ELSE @ \cup {"standoff"}] : u \in Ride(r, stop)}
      BY <1>2, Zenon DEF SimFind
    <2>2. PICK stop, u : u \in Ride(r, stop) /\
             out = [u EXCEPT !.why = IF stop = Standoff(class) THEN u.why
                                     ELSE u.why \cup {"standoff"}]
      BY <2>1
    <2>3. {"standoff"} \in SUBSET Reasons /\ u.why \in SUBSET Reasons
      <3>1. Sane(u)
        BY <2>2, SimRide
      <3>2. QED
        BY <3>1 DEF Reasons, Sane
    <2>4. CASE stop = Standoff(class)
      BY <2>2, <2>3, <2>4, SimRide
    <2>5. CASE stop # Standoff(class)
      BY <2>2, <2>3, <2>5, SimRide
    <2>6. QED
      BY <2>4, <2>5
  <1>3. QED
    BY <1>1, <1>2

(* An inspection, a grasp and a release.                                   *)
LEMMA SimWork ==
    ASSUME Sane(SimSame), NEW r, NEW o \in Object, NEW place
    PROVE  /\ \A out \in SimInspect(r, o) : Sane(out)
           /\ \A out \in SimPick(r, o) : Sane(out)
           /\ \A out \in SimPlace(r, place) : Sane(out)
  <1>1. ASSUME NEW out \in SimInspect(r, o) PROVE Sane(out)
    <2>1. \/ \E s \in [Robot -> BOOLEAN] : out = [SimSame EXCEPT !.safe = s]
          \/ out = SimFail
      BY <1>1 DEF SimInspect
    <2>2. QED
      BY <2>1, SimNothing
  <1>2. ASSUME NEW q \in Object, NEW at, NEW h \in {"arm", Nobody}
        PROVE  Sane([SimSame EXCEPT !.world[q] = [at |-> at, holder |-> h]])
    BY DEF Sane, SimSame
  <1>3. ASSUME NEW out \in SimPick(r, o) PROVE Sane(out)
    <2>1. CASE out = SimFail
      BY <2>1, SimNothing
    <2>2. CASE r = "arm" /\ out = [SimSame EXCEPT !.world[o] = [at |-> Gripper(r), holder |-> r]]
      BY <1>2, <2>2
    <2>3. QED
      BY <1>3, <2>1, <2>2 DEF SimPick
  <1>4. ASSUME NEW out \in SimPlace(r, place) PROVE Sane(out)
    <2> DEFINE q == FirstOf(HeldBy(simWorld, r))
               to == IF place = NoPlace THEN <<simPose[r][1] + 10, simPose[r][2]>> ELSE place
    <2>1. CASE q = NoObject \/ r # "arm"
      BY <1>4, <2>1, SimNothing DEF SimPlace
    <2>2. CASE q # NoObject /\ place = Null /\ r = "arm"
      BY <1>4, <2>2, SimNothing DEF SimPlace
    <2>3. CASE q # NoObject /\ place # Null /\ r = "arm"
      <3>1. HeldBy(simWorld, r) \in SUBSET Object
        BY DEF HeldBy
      <3>2. HeldBy(simWorld, r) # {}
        BY <2>3 DEF FirstOf
      <3>3. q \in Object
        BY <3>1, <3>2, FirstTyped
      <3>4. out = [SimSame EXCEPT !.world[q] = [at |-> to, holder |-> Nobody]]
        BY <1>4, <2>3 DEF SimPlace
      <3> HIDE DEF q, to
      <3>5. QED
        BY <1>2, <3>3, <3>4
    <2>4. QED
      BY <2>1, <2>2, <2>3
  <1>5. QED
    BY <1>1, <1>3, <1>4

(* Whatever the skill.                                                     *)
LEMMA SimEffect ==
    ASSUME Sane(SimSame), NEW r \in Robot, NEW step \in Step,
           NEW out \in SimSkill(r, step)
    PROVE  Sane(out)
  <1>1. step.object \in Object \cup {NoObject}
    BY DEF Step
  <1>2. CASE step.skill \notin Bodily \cup {"wait"}
    BY <1>2 DEF SimSkill
  <1>3. CASE step.skill \in Bodily \cup {"wait"} /\ safe[r]
    <2>1. out = [SimFail EXCEPT !.did = step.skill = "wait", !.why = {"safe"}]
      BY <1>3 DEF SimSkill
    <2>2. {"safe"} \in SUBSET Reasons /\ (step.skill = "wait") \in BOOLEAN
      BY DEF Reasons
    <2>3. QED
      BY <2>1, <2>2, SimNothing
  <1>4. CASE step.skill \in Bodily \cup {"wait"} /\ ~safe[r]
    <2>1. CASE step.skill = "navigate_to"
      <3>1. out = [SimFail EXCEPT !.raised = TRUE] \/ out \in Ride(r, Where(step))
        BY <1>4, <2>1 DEF SimSkill
      <3>2. QED
        BY <3>1, SimNothing, SimRide
    <2>2. CASE step.skill = "inspect"
      <3>1. out = SimFail \/ (step.object # NoObject /\ out \in SimInspect(r, step.object))
        BY <1>4, <2>2 DEF SimSkill
      <3>2. QED
        BY <1>1, <3>1, SimNothing, SimWork
    <2>3. CASE step.skill = "arm_pick"
      <3>1. out = SimFail \/ (step.object # NoObject /\ out \in SimPick(r, step.object))
        BY <1>4, <2>3 DEF SimSkill
      <3>2. QED
        BY <1>1, <3>1, SimNothing, SimWork
    <2>4. CASE step.skill = "arm_place"
      <3>1. out \in SimPlace(r, step.at)
        BY <1>4, <2>4 DEF SimSkill
      <3>2. "gen_01" \in Object
        BY DEF Object
      <3>3. QED
        BY <3>1, <3>2, SimWork
    <2>5. CASE step.skill = "find_object"
      <3>1. out \in SimFind(r, step.class)
        BY <1>4, <2>5 DEF SimSkill
      <3>2. QED
        BY <3>1, SimSearch
    <2>6. CASE step.skill = "wait"
      <3>1. \E s \in [Robot -> BOOLEAN] : out = [SimSame EXCEPT !.safe = s]
        BY <1>4, <2>6 DEF SimSkill
      <3>2. QED
        BY <3>1, SimNothing
    <2>7. QED
      BY <1>4, <2>1, <2>2, <2>3, <2>4, <2>5, <2>6 DEF Bodily
  <1>5. QED
    BY <1>2, <1>3, <1>4
-----------------------------------------------------------------------------
(***************************************************************************)
(* Types                                                                   *)
(***************************************************************************)
(* What the engine fills into a step makes another step of the same skill. *)
LEMMA ResolveTyped ==
    ASSUME Shapes, NEW step \in Step
    PROVE  /\ Resolve(step) \in Step
           /\ Resolve(step).skill = step.skill
           /\ Resolve(step).at = Null => step.at = Null
  <1> DEFINE o == FirstOf(OfClass(step.class))
             res == [step EXCEPT
                        !.object = IF @ = NoObject THEN o ELSE @,
                        !.at = IF @ = NoPlace /\ step.skill = "navigate_to"
                               THEN world[o].at ELSE @]
  <1>1. CASE o = NoObject \/ step.skill \in {"query_world", "find_object"}
    BY <1>1 DEF Resolve
  <1>2. CASE ~(o = NoObject \/ step.skill \in {"query_world", "find_object"})
    <2>1. OfClass(step.class) \in SUBSET Object
      BY DEF OfClass
    <2>2. OfClass(step.class) # {}
      BY <1>2 DEF FirstOf
    <2>3. o \in Object
      BY <2>1, <2>2, FirstTyped
    <2>4. Resolve(step) = res
      BY <1>2 DEF Resolve
    <2> HIDE DEF o
    <2>5. world[o].at \in Spot
      BY <2>3 DEF Shapes, Item
    <2>6. /\ res \in Step /\ res.skill = step.skill
          /\ res.at = Null => step.at = Null
      BY <2>3, <2>5, FactoryAssumption DEF Step
    <2>7. QED
      BY <2>4, <2>6
  <1>3. QED
    BY <1>1, <1>2

(* A robot that is tried exists, and the step tried is one of the plan.    *)
LEMMA ChoiceTyped ==
    ASSUME NEW step
    PROVE  Choice(step) \subseteq Robot
  BY DEF Choice, Offered, AnyBody, Robot

(* An attempt does what BrainEffect says, by some robot.                   *)
LEMMA AttemptEffect ==
    ASSUME TypeInv, Attempt
    PROVE  \E r \in Robot, step \in Step :
              /\ step = plan[next] /\ r \in Choice(step)
              /\ Lawful(r, step, [pose |-> pose', world |-> world'])
  <1>1. /\ plan \in Seq(Step) /\ next \in 1 .. Len(plan)
        /\ plan[next].at = Null => plan[next].skill = "arm_place"
    BY DEF TypeInv, TypeOK, Shapes, Attempt, NullPlaced
  <1>2. plan[next] \in Step
    BY <1>1, ElementOfSeq
  <1>3. PICK r \in Choice(plan[next]) :
           /\ pose' = BrainSkill(r, plan[next]).pose
           /\ world' = BrainSkill(r, plan[next]).world
    BY DEF Attempt
  <1>4. r \in Robot
    BY <1>3, ChoiceTyped
  <1>5. Lawful(r, plan[next], BrainSkill(r, plan[next]))
    BY <1>1, <1>2, <1>4, BrainEffect DEF TypeInv
  <1>6. Lawful(r, plan[next], [pose |-> pose', world |-> world'])
    BY <1>3, <1>5 DEF Lawful
  <1>7. QED
    BY <1>2, <1>3, <1>4, <1>6

(* Initially.                                                              *)
LEMMA InitTyped == FactoryInit => TypeInv
  <1> SUFFICES ASSUME FactoryInit PROVE TypeInv
    OBVIOUS
  <1>1. Home \in [Robot -> Spot] /\ \A o \in Object : Place[o] \in Spot /\ Seed[o] \in State
    BY DEF Home, Robot, Spot, Object, Place, Seed, State
  <1>2. world \in [Object -> Item]
    BY <1>1 DEF FactoryInit, Item
  <1>3. /\ \A o \in Object : simWorld[o].holder = Nobody
        /\ DOMAIN simWorld = Object
    BY DEF FactoryInit
  <1>4. Shapes
    BY <1>1, <1>2, <1>3 DEF FactoryInit, Shapes, NullPlaced
  <1>5. TypeOK
    <2>1. /\ phase \in {"idle", "planned", "running"} /\ phase # "running"
          /\ heard \subseteq Keyword
          /\ next \in 1 .. Len(plan) + 1 /\ tries \in 0 .. 2
          /\ record \in {"none", "IN_PROGRESS", "COMPLETED", "FAILED"}
      BY DEF FactoryInit
    <2>2. /\ status \in [Robot -> {"IDLE", "DOWN"}]
          /\ safe \in [Robot -> BOOLEAN] /\ cut \in BOOLEAN
          /\ parted \subseteq {"safe", "short", "standoff", "unable"}
      BY DEF FactoryInit
    <2>3. DOMAIN pose = Robot /\ \A r \in Robot : pose[r] \in Int \X Int
      BY <1>1 DEF FactoryInit, Spot
    <2>4. \A o \in Object : /\ world[o].state \in State
                            /\ world[o].holder \in {"arm", Nobody}
      BY <1>2 DEF Item
    <2>5. QED
      BY <1>3, <2>1, <2>2, <2>3, <2>4 DEF TypeOK, State
  <1>6. QED
    BY <1>4, <1>5 DEF TypeInv

(* A step that leaves the brain alone.                                     *)
LEMMA BeatTyped ==
    ASSUME TypeInv, UNCHANGED brainVars, simWorld' = simWorld, parted' = parted,
           safe' \in [Robot -> BOOLEAN], cut' \in BOOLEAN
    PROVE  TypeInv'
  BY DEF TypeInv, TypeOK, Shapes, brainVars, NullPlaced

(* The start of a plan.                                                    *)
LEMMA StartTyped ==
    ASSUME TypeInv, Start
    PROVE  TypeInv'
  <1>1. /\ plan \in Seq(Step) /\ NullPlaced(plan) /\ plan # <<>> /\ Shapes
    BY DEF TypeInv, Shapes, Start
  <1>2. \A i \in 1 .. Len(plan) :
           /\ plan[i] \in Step
           /\ Resolve(plan[i]) \in Step
           /\ Resolve(plan[i]).skill = plan[i].skill
           /\ Resolve(plan[i]).at = Null => plan[i].at = Null
    BY <1>1, ResolveTyped, ElementOfSeq
  <1> DEFINE res == [i \in DOMAIN plan |-> Resolve(plan[i])]
  <1>3. res \in Seq(Step) /\ Len(res) = Len(plan)
    <2>1. DOMAIN plan = 1 .. Len(plan) /\ Len(plan) \in Nat
      BY <1>1
    <2>2. QED
      BY <1>2, <2>1
  <1>4. NullPlaced(res)
    BY <1>1, <1>2, <1>3 DEF NullPlaced
  <1>5. Len(plan) \in Nat \ {0}
    BY <1>1, EmptySeq, LenProperties
  <1>6. res # <<>>
    BY <1>3, <1>5
  <1>7. CASE plan' = res /\ phase' = "running" /\ record' = "IN_PROGRESS"
    <2> HIDE DEF res
    <2>1. Shapes'
      BY <1>1, <1>3, <1>4, <1>6, <1>7 DEF Shapes, Start, NullPlaced, simVars
    <2>2. Retries(res[1].skill) \in {0, 1, 2}
      BY DEF Retries
    <2>3. TypeOK'
      BY <1>3, <1>5, <1>7, <2>2 DEF TypeInv, TypeOK, Start, simVars
    <2>4. QED
      BY <2>1, <2>3 DEF TypeInv
  <1>8. CASE plan' = <<>> /\ phase' = "idle" /\ record' = "FAILED"
    <2>1. Shapes'
      BY <1>1, <1>8 DEF Shapes, Start, NullPlaced, simVars
    <2>2. TypeOK'
      BY <1>8 DEF TypeInv, TypeOK, Start, simVars
    <2>3. QED
      BY <2>1, <2>2 DEF TypeInv
  <1>9. QED
    BY <1>7, <1>8 DEF Start

(* Planning.                                                               *)
LEMMA PlanTyped ==
    ASSUME TypeInv, NEW words \in Commands, Plan(words)
    PROVE  TypeInv'
  <1>1. next = 1
    <2>1. plan = <<>> /\ next \in 1 .. Len(plan) + 1
      BY DEF TypeInv, TypeOK, Shapes, Plan
    <2>2. QED
      BY <2>1
  <1>2. plan' \in Seq(Step) /\ Len(plan') \in Nat \ {0} /\ NullPlaced(plan')
    <2>1. CASE plan' = Rules(words)
      BY <2>1, RulesTyped DEF NullPlaced
    <2>2. CASE plan' \in ModelPlans
      BY <2>2, FactoryAssumption DEF NullPlaced
    <2>3. QED
      BY <2>1, <2>2 DEF Plan
  <1>3. heard' \subseteq Keyword
    BY FactoryAssumption DEF Plan
  <1>4. phase' = "planned" /\ record' = "none"
    BY DEF Plan
  <1>5. plan' # <<>>
    BY <1>2
  <1>6. Shapes'
    BY <1>2, <1>4, <1>5 DEF TypeInv, Shapes, Plan, NullPlaced, simVars
  <1>7. TypeOK'
    BY <1>1, <1>2, <1>3, <1>4 DEF TypeInv, TypeOK, Plan, simVars
  <1>8. QED
    BY <1>6, <1>7 DEF TypeInv

(* A failure of a robot.                                                   *)
LEMMA SidelineTyped ==
    ASSUME TypeInv, NEW r \in Robot, Sideline(r)
    PROVE  TypeInv'
  BY DEF TypeInv, TypeOK, Shapes, Sideline, NullPlaced, simVars

(* What an attempt leaves of the plan.                                     *)
LEMMA OutcomeTyped ==
    ASSUME TypeInv, phase = "running", NEW sim, NEW brain,
           Outcome(plan[next], sim, brain)
    PROVE  /\ phase' \in {"idle", "running"}
           /\ record' \in {"none", "IN_PROGRESS", "COMPLETED", "FAILED"}
           /\ plan' \in Seq(Step) /\ NullPlaced(plan')
           /\ phase' = "idle" <=> plan' = <<>>
           /\ next' \in 1 .. Len(plan') + 1 /\ tries' \in 0 .. 2
           /\ phase' = "running" => next' <= Len(plan') /\ tries' <= Retries(plan'[next'].skill)
  <1>1. /\ plan \in Seq(Step) /\ NullPlaced(plan) /\ plan # <<>>
        /\ next \in 1 .. Len(plan) /\ tries \in 0 .. 2
        /\ tries <= Retries(plan[next].skill)
        /\ record \in {"none", "IN_PROGRESS", "COMPLETED", "FAILED"}
    BY DEF TypeInv, TypeOK, Shapes
  <1>2. \A skill : Retries(skill) \in {0, 1, 2}
    BY DEF Retries
  <1>3. CASE phase' = "idle" /\ plan' = <<>> /\ next' = 1 /\ tries' = 0
             /\ record' \in {"COMPLETED", "FAILED", "IN_PROGRESS"}
    BY <1>3 DEF NullPlaced
  <1>4. CASE /\ UNCHANGED <<phase, record, plan>> /\ next # Len(plan)
             /\ next' = next + 1 /\ tries' = 0
    BY <1>1, <1>2, <1>4
  <1>5. CASE /\ UNCHANGED <<phase, record, plan, next>>
             /\ MayRetry(plan[next].skill) /\ tries' = tries + 1
    BY <1>1, <1>2, <1>5 DEF MayRetry
  <1>6. QED
    BY <1>3, <1>4, <1>5 DEF Outcome, Close, Again

(* An attempt.                                                             *)
LEMMA AttemptTyped ==
    ASSUME TypeInv, Attempt
    PROVE  TypeInv'
  <1>1. PICK r \in Robot, step \in Step :
           /\ step = plan[next] /\ r \in Choice(step)
           /\ Lawful(r, step, [pose |-> pose', world |-> world'])
    BY AttemptEffect
  <1>2. pose' \in [Robot -> Spot] /\ world' \in [Object -> Item]
    BY <1>1 DEF Lawful
  <1>3. PICK s \in Choice(plan[next]) : \E sim \in SimSkill(s, plan[next]) :
           /\ simWorld' = sim.world /\ safe' = sim.safe
           /\ status' = [status EXCEPT ![s] = "IDLE"]
           /\ Outcome(plan[next], sim, BrainSkill(s, plan[next]))
           /\ parted' = parted \cup sim.why \cup
                        IF plan[next].skill \in Able[s] THEN {} ELSE {"unable"}
    BY DEF Attempt
  <1>4. s \in Robot
    BY <1>3, ChoiceTyped
  <1>5. PICK sim \in SimSkill(s, plan[next]) :
           /\ simWorld' = sim.world /\ safe' = sim.safe
           /\ Outcome(plan[next], sim, BrainSkill(s, plan[next]))
           /\ parted' = parted \cup sim.why \cup
                        IF plan[next].skill \in Able[s] THEN {} ELSE {"unable"}
    BY <1>3
  <1>6. Sane(SimSame)
    BY DEF TypeInv, TypeOK, Shapes, Sane, SimSame
  <1>7. Sane(sim)
    BY <1>1, <1>4, <1>6, SimEffect
  <1>8. /\ DOMAIN simWorld' = Object /\ safe' \in [Robot -> BOOLEAN]
        /\ \A o \in Object : simWorld'[o].holder \in {"arm", Nobody}
        /\ parted' \subseteq Reasons
    BY <1>5, <1>7 DEF Sane, Reasons, TypeInv, TypeOK
  <1>9. status' \in [Robot -> {"IDLE", "DOWN"}]
    BY <1>3, <1>4 DEF TypeInv, TypeOK
  <1>10. phase = "running"
    BY DEF Attempt
  <1>11. /\ phase' \in {"idle", "running"}
         /\ record' \in {"none", "IN_PROGRESS", "COMPLETED", "FAILED"}
         /\ plan' \in Seq(Step) /\ NullPlaced(plan')
         /\ phase' = "idle" <=> plan' = <<>>
         /\ next' \in 1 .. Len(plan') + 1 /\ tries' \in 0 .. 2
         /\ phase' = "running" => next' <= Len(plan') /\ tries' <= Retries(plan'[next'].skill)
    BY <1>5, <1>10, OutcomeTyped
  <1>12. Shapes'
    BY <1>2, <1>8, <1>11 DEF Shapes, NullPlaced
  <1>13. DOMAIN pose' = Robot /\ \A q \in Robot : pose'[q] \in Int \X Int
    BY <1>2 DEF Spot
  <1>14. \A o \in Object : world'[o].state \in State /\ world'[o].holder \in {"arm", Nobody}
    BY <1>2 DEF Item
  <1>15. heard' \subseteq Keyword /\ cut' \in BOOLEAN
    BY DEF TypeInv, TypeOK, Attempt
  <1>16. TypeOK'
    BY <1>8, <1>9, <1>11, <1>13, <1>14, <1>15 DEF TypeOK, State, Reasons
  <1>17. QED
    BY <1>12, <1>16 DEF TypeInv

(* Every step keeps the types.                                             *)
LEMMA NextTyped ==
    ASSUME TypeInv, [FactoryNext]_factoryVars
    PROVE  TypeInv'
  <1>1. ASSUME NEW words \in Commands, Plan(words) PROVE TypeInv'
    BY <1>1, PlanTyped
  <1>2. CASE Start
    BY <1>2, StartTyped
  <1>3. CASE Attempt
    BY <1>3, AttemptTyped
  <1>4. ASSUME NEW r \in Robot, Sideline(r) PROVE TypeInv'
    BY <1>4, SidelineTyped
  <1>5. CASE Beat \/ Disconnect \/ Restore \/ UNCHANGED factoryVars
    <2>1. /\ UNCHANGED brainVars /\ simWorld' = simWorld /\ parted' = parted
          /\ cut' \in BOOLEAN /\ safe' \in [Robot -> BOOLEAN]
      BY <1>5 DEF Beat, Disconnect, Restore, factoryVars, simVars, histVars, TypeInv, TypeOK
    <2>2. QED
      BY <2>1, BeatTyped
  <1>6. QED
    BY <1>1, <1>2, <1>3, <1>4, <1>5 DEF FactoryNext

(* For every set of commands, every set of plans a model may answer and    *)
(* every number of commands and failures: the engine is never beyond its   *)
(* plan nor beyond the retries of its step, and every record of robots and *)
(* objects keeps its type.                                                 *)
THEOREM FactoryTyped == FactorySpec => []TypeOK
  <1>1. FactoryInit => TypeInv
    BY InitTyped
  <1>2. TypeInv /\ [FactoryNext]_factoryVars => TypeInv'
    BY NextTyped
  <1>3. TypeInv => TypeOK
    BY DEF TypeInv
  <1> HIDE DEF TypeInv, TypeOK, FactoryInit, FactoryNext, factoryVars
  <1>4. QED
    BY <1>1, <1>2, <1>3, PTL DEF FactorySpec
-----------------------------------------------------------------------------
(***************************************************************************)
(* The arm                                                                 *)
(***************************************************************************)
(* While a plan is executed that moves a robot, the rover is in service,   *)
(* unless it was put out of service in between.                            *)
Manned ==
    phase = "running" /\ "ugv" \notin surprised =>
        \A i \in 1 .. Len(plan) : plan[i].skill \in Moving => status["ugv"] = "IDLE"

ArmInv == TypeInv /\ Manned /\ FixedArm /\ Carried

(* Only the rover can do a moving skill, ...                               *)
LEMMA OnlyRover ==
    ASSUME NEW skill \in Moving
    PROVE  skill \in Able["ugv"] /\ skill \notin Able["arm"]
  BY DEF Moving, Able, Anyone

(* ... so it is the one chosen while it is in service.                     *)
LEMMA RoverChosen ==
    ASSUME NEW step, step.skill \in Moving, status["ugv"] = "IDLE"
    PROVE  Choice(step) = {"ugv"}
  <1>1. Offered(step.skill) = {"ugv"}
    BY OnlyRover DEF Offered, Robot
  <1>2. Robot # {"ugv"}
    BY DEF Robot
  <1>3. QED
    BY <1>1, <1>2 DEF Choice

(* While the rover has not failed, the arm is where it was.                *)
LEMMA ArmStays ==
    ASSUME TypeInv, Manned, Attempt, "ugv" \notin surprised
    PROVE  pose'["arm"] = pose["arm"]
  <1>1. PICK r \in Robot, step \in Step :
           /\ step = plan[next] /\ r \in Choice(step)
           /\ Lawful(r, step, [pose |-> pose', world |-> world'])
    BY AttemptEffect
  <1>2. CASE step.skill \notin Moving
    BY <1>1, <1>2 DEF Lawful
  <1>3. CASE step.skill \in Moving
    <2>1. next \in 1 .. Len(plan) /\ phase = "running"
      BY DEF TypeInv, TypeOK, Shapes, Attempt
    <2>2. status["ugv"] = "IDLE"
      BY <1>1, <1>3, <2>1 DEF Manned
    <2>3. r = "ugv"
      BY <1>1, <1>3, <2>2, RoverChosen
    <2>4. QED
      BY <1>1, <2>3 DEF Lawful, Robot
  <1>4. QED
    BY <1>2, <1>3

(* Validation establishes Manned, and only a failure could end it.         *)
LEMMA MannedStays ==
    ASSUME TypeInv, Manned, [FactoryNext]_factoryVars
    PROVE  Manned'
  <1>1. CASE Start
    <2>1. CASE phase' = "idle"
      BY <2>1 DEF Manned
    <2>2. CASE phase' # "idle"
      <3>1. /\ \A i \in DOMAIN plan : Valid(plan[i])
            /\ plan' = [i \in DOMAIN plan |-> Resolve(plan[i])]
            /\ status' = status
        BY <1>1, <2>2 DEF Start
      <3>2. plan \in Seq(Step) /\ Shapes
        BY DEF TypeInv, Shapes
      <3>3. DOMAIN plan = 1 .. Len(plan) /\ Len(plan) \in Nat
        BY <3>2
      <3>4. Len(plan') = Len(plan)
        BY <3>1, <3>3
      <3>5. ASSUME NEW i \in 1 .. Len(plan'), plan'[i].skill \in Moving
            PROVE  status'["ugv"] = "IDLE"
        <4>1. plan[i] \in Step /\ plan'[i] = Resolve(plan[i]) /\ Valid(plan[i])
          BY <3>1, <3>2, <3>3, <3>4, ElementOfSeq
        <4>2. plan[i].skill \in Moving
          BY <3>2, <3>5, <4>1, ResolveTyped
        <4>3. Offered(plan[i].skill) # {}
          BY <4>1 DEF Valid
        <4>4. QED
          BY <3>1, <4>2, <4>3, OnlyRover DEF Offered, Robot
      <3>6. QED
        BY <3>5 DEF Manned
    <2>3. QED
      BY <2>1, <2>2
  <1>2. CASE Attempt
    <2>1. CASE phase' # "running"
      BY <2>1 DEF Manned
    <2>2. CASE phase' = "running"
      <3>1. plan' = plan /\ surprised' = surprised /\ phase = "running"
        BY <1>2, <2>2 DEF Attempt, Outcome, Close, Again
      <3>2. \E r : status' = [status EXCEPT ![r] = "IDLE"]
        BY <1>2 DEF Attempt
      <3>3. status \in [Robot -> {"IDLE", "DOWN"}] /\ "ugv" \in Robot
        BY DEF TypeInv, TypeOK, Robot
      <3>4. status["ugv"] = "IDLE" => status'["ugv"] = "IDLE"
        BY <3>2, <3>3
      <3>5. QED
        BY <3>1, <3>4 DEF Manned
    <2>3. QED
      BY <2>1, <2>2
  <1>3. ASSUME NEW r \in Robot, Sideline(r) PROVE Manned'
    <2>1. /\ phase' = phase /\ plan' = plan
          /\ status' = [status EXCEPT ![r] = "DOWN"]
          /\ surprised' = IF phase = "running" THEN surprised \cup {r} ELSE surprised
      BY <1>3 DEF Sideline
    <2>2. status \in [Robot -> {"IDLE", "DOWN"}]
      BY DEF TypeInv, TypeOK
    <2>3. QED
      BY <2>1, <2>2 DEF Manned
  <1>4. ASSUME NEW words \in Commands, Plan(words) PROVE Manned'
    BY <1>4 DEF Plan, Manned
  <1>5. CASE Beat \/ Disconnect \/ Restore \/ UNCHANGED factoryVars
    BY <1>5 DEF Beat, Disconnect, Restore, factoryVars, brainVars, histVars, Manned
  <1>6. QED
    BY <1>1, <1>2, <1>3, <1>4, <1>5 DEF FactoryNext

(* Whatever else happens, nothing moves, and nobody is forgiven.           *)
LEMMA ElseStill ==
    ASSUME [FactoryNext]_factoryVars, ~Attempt
    PROVE  UNCHANGED <<pose, world>> /\ surprised \subseteq surprised'
  <1>1. ASSUME NEW words \in Commands, Plan(words)
        PROVE  UNCHANGED <<pose, world>> /\ surprised \subseteq surprised'
    BY <1>1 DEF Plan
  <1>2. ASSUME NEW r \in Robot, Sideline(r)
        PROVE  UNCHANGED <<pose, world>> /\ surprised \subseteq surprised'
    BY <1>2 DEF Sideline
  <1>3. CASE Start
    BY <1>3 DEF Start
  <1>4. CASE Beat \/ Disconnect \/ Restore \/ UNCHANGED factoryVars
    BY <1>4 DEF Beat, Disconnect, Restore, factoryVars, brainVars, histVars
  <1>5. QED
    BY <1>1, <1>2, <1>3, <1>4 DEF FactoryNext

(* What an attempt does to what is held.                                   *)
LEMMA CarriedStays ==
    ASSUME TypeInv, Manned, Carried, Attempt
    PROVE  Carried'
  <1>1. PICK r \in Robot, step \in Step :
           /\ step = plan[next] /\ r \in Choice(step)
           /\ Lawful(r, step, [pose |-> pose', world |-> world'])
    BY AttemptEffect
  <1>2. ASSUME NEW o \in Object
        PROVE  /\ world'[o] \in Item /\ world[o] \in Item
               /\ world'[o].holder # Nobody =>
                    \/ /\ world'[o].holder = world[o].holder
                       /\ world'[o].at = world[o].at
                    \/ pose' = pose /\ world'[o].at = pose["arm"]
               /\ world'[o].state = "PLACED" =>
                    \/ world'[o].holder = Nobody
                    \/ world[o].state = "PLACED" /\ world'[o].holder = world[o].holder
               /\ world'[o].holder # Nobody =>
                    \/ world'[o].state \in Borne
                    \/ /\ world'[o].state = world[o].state
                       /\ world'[o].holder = world[o].holder
               /\ world'[o].state = "HELD" =>
                    \/ world'[o].holder # Nobody
                    \/ world[o].state = "HELD" /\ world'[o].holder = world[o].holder
    BY <1>1 DEF Lawful, TypeInv, Shapes
  <1>3. surprised' = surprised
    BY DEF Attempt
  <1>4. ASSUME NEW o \in Object, world'[o].holder # Nobody, surprised' = {}
        PROVE  world'[o].at = pose'[world'[o].holder]
    <2>1. pose'["arm"] = pose["arm"]
      BY <1>3, <1>4, ArmStays
    <2>2. world'[o].holder = "arm"
      BY <1>2, <1>4 DEF Item
    <2>3. CASE world'[o].holder = world[o].holder /\ world'[o].at = world[o].at
      BY <1>3, <1>4, <2>1, <2>2, <2>3 DEF Carried
    <2>4. CASE pose' = pose /\ world'[o].at = pose["arm"]
      BY <2>2, <2>4
    <2>5. QED
      BY <1>2, <1>4, <2>3, <2>4
  <1>5. ASSUME NEW o \in Object, world'[o].state = "PLACED"
        PROVE  world'[o].holder = Nobody
    BY <1>2, <1>5 DEF Carried
  <1>6. ASSUME NEW o \in Object, world'[o].holder # Nobody
        PROVE  world'[o].state \in Borne
    BY <1>2, <1>6 DEF Carried, Borne
  <1>7. ASSUME NEW o \in Object, world'[o].state = "HELD"
        PROVE  world'[o].holder # Nobody
    BY <1>2, <1>7 DEF Carried
  <1>8. QED
    BY <1>4, <1>5, <1>6, <1>7 DEF Carried, Borne

(* The invariant is inductive ...                                          *)
LEMMA ArmInductive ==
    ASSUME ArmInv, [FactoryNext]_factoryVars
    PROVE  ArmInv'
  <1>1. TypeInv' /\ Manned'
    BY NextTyped, MannedStays DEF ArmInv
  <1>2. FixedArm'
    <2>1. CASE Attempt /\ "ugv" \notin surprised
      <3>1. pose'["arm"] = pose["arm"]
        BY <2>1, ArmStays DEF ArmInv
      <3>2. QED
        BY <2>1, <3>1 DEF ArmInv, FixedArm
    <2>2. CASE Attempt /\ "ugv" \in surprised
      BY <2>2 DEF Attempt, FixedArm
    <2>3. CASE ~Attempt
      BY <2>3, ElseStill DEF ArmInv, FixedArm
    <2>4. QED
      BY <2>1, <2>2, <2>3
  <1>3. Carried'
    <2>1. CASE Attempt
      BY <2>1, CarriedStays DEF ArmInv
    <2>2. CASE ~Attempt
      BY <2>2, ElseStill DEF ArmInv, Carried
    <2>3. QED
      BY <2>1, <2>2
  <1>4. QED
    BY <1>1, <1>2, <1>3 DEF ArmInv

(* ... and holds initially, ...                                            *)
LEMMA ArmInitially == FactoryInit => ArmInv
  <1> SUFFICES ASSUME FactoryInit PROVE ArmInv
    OBVIOUS
  <1>1. TypeInv
    BY InitTyped
  <1>2. Manned /\ FixedArm
    BY DEF FactoryInit, Manned, FixedArm
  <1>3. Carried
    <2>1. \A o \in Object : world[o].holder = Nobody /\ world[o].state # "HELD"
      BY DEF FactoryInit, Object, Seed
    <2>2. QED
      BY <2>1 DEF Carried
  <1>4. QED
    BY <1>1, <1>2, <1>3 DEF ArmInv

(* ... so it always holds.                                                 *)
LEMMA ArmAlways == FactorySpec => []ArmInv
  <1>1. FactoryInit => ArmInv
    BY ArmInitially
  <1>2. ArmInv /\ [FactoryNext]_factoryVars => ArmInv'
    BY ArmInductive
  <1> HIDE DEF ArmInv, FactoryInit, FactoryNext, factoryVars
  <1>3. QED
    BY <1>1, <1>2, PTL DEF FactorySpec

(* For every set of commands and of model plans: the registry moves the    *)
(* arm from its pedestal only when the rover was put out of service while  *)
(* a plan was executed, because the validator wants somebody for a moving  *)
(* skill, that can only be the rover, and the rover alone is then chosen.  *)
THEOREM FactoryFixedArm == FactorySpec => []FixedArm
  <1>1. ArmInv => FixedArm
    BY DEF ArmInv
  <1> HIDE DEF ArmInv, FixedArm
  <1>2. QED
    BY <1>1, ArmAlways, PTL

(* For every set of commands and of model plans: what is held is where the *)
(* arm is, as long as no robot failed in the middle of a plan, and is      *)
(* HELD or was inspected since; what is HELD is held by the arm; and what  *)
(* was put down is held by nobody.                                         *)
THEOREM FactoryCarried == FactorySpec => []Carried
  <1>1. ArmInv => Carried
    BY DEF ArmInv
  <1> HIDE DEF ArmInv, Carried
  <1>2. QED
    BY <1>1, ArmAlways, PTL
-----------------------------------------------------------------------------
(***************************************************************************)
(* What the rules plan                                                     *)
(***************************************************************************)
(* What some steps, joined, amount to.                                     *)
LEMMA Joined ==
    ASSUME NEW S, NEW q \in S, NEW f \in S, NEW d \in S, NEW i \in S, NEW a \in S,
           NEW p \in S, NEW r \in S
    PROVE  /\ ((<<>> \o <<>>) \o <<>>) \o <<r>>
             = <<r>>
           /\ ((<<>> \o <<d, i, a>>) \o <<>>) \o <<r>>
             = <<d, i, a, r>>
           /\ ((<<>> \o <<>>) \o <<p>>) \o <<r>>
             = <<p, r>>
           /\ ((<<>> \o <<d, i, a>>) \o <<p>>) \o <<r>>
             = <<d, i, a, p, r>>
           /\ ((<<q, f>> \o <<>>) \o <<>>) \o <<r>>
             = <<q, f, r>>
           /\ ((<<q, f>> \o <<d, i, a>>) \o <<>>) \o <<r>>
             = <<q, f, d, i, a, r>>
           /\ ((<<q, f>> \o <<d, i, a>>) \o <<p>>) \o <<r>>
             = <<q, f, d, i, a, p, r>>
  <1>1. ((<<>> \o <<>>) \o <<>>) \o <<r>> = <<r>>
    <2> DEFINE s == ((<<>> \o <<>>) \o <<>>) \o <<r>>
               u == <<r>>
    <2>1. s \in Seq(S) /\ Len(s) = 1
      OBVIOUS
    <2>2. u \in Seq(S) /\ Len(u) = 1
      OBVIOUS
    <2>3. \A k \in 1 .. 1 : s[k] = u[k]
      OBVIOUS
    <2> HIDE DEF s, u
    <2>4. s = u
      BY <2>1, <2>2, <2>3, SeqEqual
    <2>5. QED
      BY <2>4 DEF s, u
  <1>2. ((<<>> \o <<d, i, a>>) \o <<>>) \o <<r>> = <<d, i, a, r>>
    <2> DEFINE s == ((<<>> \o <<d, i, a>>) \o <<>>) \o <<r>>
               u == <<d, i, a, r>>
    <2>1. s \in Seq(S) /\ Len(s) = 4
      OBVIOUS
    <2>2. u \in Seq(S) /\ Len(u) = 4
      OBVIOUS
    <2>3. \A k \in 1 .. 4 : s[k] = u[k]
      OBVIOUS
    <2> HIDE DEF s, u
    <2>4. s = u
      BY <2>1, <2>2, <2>3, SeqEqual
    <2>5. QED
      BY <2>4 DEF s, u
  <1>3. ((<<>> \o <<>>) \o <<p>>) \o <<r>> = <<p, r>>
    <2> DEFINE s == ((<<>> \o <<>>) \o <<p>>) \o <<r>>
               u == <<p, r>>
    <2>1. s \in Seq(S) /\ Len(s) = 2
      OBVIOUS
    <2>2. u \in Seq(S) /\ Len(u) = 2
      OBVIOUS
    <2>3. \A k \in 1 .. 2 : s[k] = u[k]
      OBVIOUS
    <2> HIDE DEF s, u
    <2>4. s = u
      BY <2>1, <2>2, <2>3, SeqEqual
    <2>5. QED
      BY <2>4 DEF s, u
  <1>4. ((<<>> \o <<d, i, a>>) \o <<p>>) \o <<r>> = <<d, i, a, p, r>>
    <2> DEFINE s == ((<<>> \o <<d, i, a>>) \o <<p>>) \o <<r>>
               u == <<d, i, a, p, r>>
    <2>1. s \in Seq(S) /\ Len(s) = 5
      OBVIOUS
    <2>2. u \in Seq(S) /\ Len(u) = 5
      OBVIOUS
    <2>3. \A k \in 1 .. 5 : s[k] = u[k]
      OBVIOUS
    <2> HIDE DEF s, u
    <2>4. s = u
      BY <2>1, <2>2, <2>3, SeqEqual
    <2>5. QED
      BY <2>4 DEF s, u
  <1>5. ((<<q, f>> \o <<>>) \o <<>>) \o <<r>> = <<q, f, r>>
    <2> DEFINE s == ((<<q, f>> \o <<>>) \o <<>>) \o <<r>>
               u == <<q, f, r>>
    <2>1. s \in Seq(S) /\ Len(s) = 3
      OBVIOUS
    <2>2. u \in Seq(S) /\ Len(u) = 3
      OBVIOUS
    <2>3. \A k \in 1 .. 3 : s[k] = u[k]
      OBVIOUS
    <2> HIDE DEF s, u
    <2>4. s = u
      BY <2>1, <2>2, <2>3, SeqEqual
    <2>5. QED
      BY <2>4 DEF s, u
  <1>6. ((<<q, f>> \o <<d, i, a>>) \o <<>>) \o <<r>> = <<q, f, d, i, a, r>>
    <2> DEFINE s == ((<<q, f>> \o <<d, i, a>>) \o <<>>) \o <<r>>
               u == <<q, f, d, i, a, r>>
    <2>1. s \in Seq(S) /\ Len(s) = 6
      OBVIOUS
    <2>2. u \in Seq(S) /\ Len(u) = 6
      OBVIOUS
    <2>3. \A k \in 1 .. 6 : s[k] = u[k]
      OBVIOUS
    <2> HIDE DEF s, u
    <2>4. s = u
      BY <2>1, <2>2, <2>3, SeqEqual
    <2>5. QED
      BY <2>4 DEF s, u
  <1>7. ((<<q, f>> \o <<d, i, a>>) \o <<p>>) \o <<r>> = <<q, f, d, i, a, p, r>>
    <2> DEFINE s == ((<<q, f>> \o <<d, i, a>>) \o <<p>>) \o <<r>>
               u == <<q, f, d, i, a, p, r>>
    <2>1. s \in Seq(S) /\ Len(s) = 7
      OBVIOUS
    <2>2. u \in Seq(S) /\ Len(u) = 7
      OBVIOUS
    <2>3. \A k \in 1 .. 7 : s[k] = u[k]
      OBVIOUS
    <2> HIDE DEF s, u
    <2>4. s = u
      BY <2>1, <2>2, <2>3, SeqEqual
    <2>5. QED
      BY <2>4 DEF s, u
  <1>8. QED
    BY <1>1, <1>2, <1>3, <1>4, <1>5, <1>6, <1>7

(* The seven plans.                                                        *)
LEMMA RulesListed ==
    ASSUME NEW words
    PROVE  LET t == Target(words)
               query == Ruled("query_world", t)
               find == Ruled("find_object", t)
               drive == Ruled("navigate_to", t)
               inspect == Ruled("inspect", t)
               analyze == Ruled("analyze_observation", t)
               pick == Ruled("arm_pick", Second(words))
               report == Ruled("report_status", "none") IN
           \/ Intent(words) = "report" /\ Rules(words) = <<report>>
           \/ /\ Intent(words) \in {"inspect", "inspect_all"}
              /\ Rules(words) = <<drive, inspect, analyze, report>>
           \/ Intent(words) = "pick" /\ Rules(words) = <<pick, report>>
           \/ /\ Intent(words) = "inspect_and_pick"
              /\ Rules(words) = <<drive, inspect, analyze, pick, report>>
           \/ Intent(words) = "find" /\ Rules(words) = <<query, find, report>>
           \/ /\ Intent(words) = "find_and_inspect"
              /\ Rules(words) = <<query, find, drive, inspect, analyze, report>>
           \/ /\ Intent(words) = "find_inspect_and_pick"
              /\ Rules(words) = <<query, find, drive, inspect, analyze, pick, report>>
  <1> DEFINE t == Target(words)
             query == Ruled("query_world", t)
             find == Ruled("find_object", t)
             drive == Ruled("navigate_to", t)
             inspect == Ruled("inspect", t)
             analyze == Ruled("analyze_observation", t)
             pick == Ruled("arm_pick", Second(words))
             report == Ruled("report_status", "none")
             intent == Intent(words)
  <1>1. intent \in {"report", "inspect", "inspect_all", "pick", "inspect_and_pick", "find",
                    "find_and_inspect", "find_inspect_and_pick"}
    BY DEF Intent, Search, Deed
  <1>2. Rules(words) = ((When(intent \in Finding, <<query, find>>)
                         \o When(intent \in Inspecting, <<drive, inspect, analyze>>))
                         \o When(intent \in Picking, <<pick>>)) \o <<report>>
    BY DEF Rules
  <1> DEFINE S == {query, find, drive, inspect, analyze, pick, report}
  <1>3. /\ query \in S /\ find \in S /\ drive \in S /\ inspect \in S /\ analyze \in S
        /\ pick \in S /\ report \in S
    OBVIOUS
  <1> HIDE DEF query, find, drive, inspect, analyze, pick, report, intent, S
  <1>4. /\ ((<<>> \o <<>>) \o <<>>) \o <<report>>
             = <<report>>
        /\ ((<<>> \o <<drive, inspect, analyze>>) \o <<>>) \o <<report>>
             = <<drive, inspect, analyze, report>>
        /\ ((<<>> \o <<>>) \o <<pick>>) \o <<report>>
             = <<pick, report>>
        /\ ((<<>> \o <<drive, inspect, analyze>>) \o <<pick>>) \o <<report>>
             = <<drive, inspect, analyze, pick, report>>
        /\ ((<<query, find>> \o <<>>) \o <<>>) \o <<report>>
             = <<query, find, report>>
        /\ ((<<query, find>> \o <<drive, inspect, analyze>>) \o <<>>) \o <<report>>
             = <<query, find, drive, inspect, analyze, report>>
        /\ ((<<query, find>> \o <<drive, inspect, analyze>>) \o <<pick>>) \o <<report>>
             = <<query, find, drive, inspect, analyze, pick, report>>
    BY <1>3, Joined
  <1>5. CASE intent = "report"
    <2>1. Rules(words) = ((<<>> \o <<>>) \o <<>>) \o <<report>>
      BY <1>2, <1>5 DEF When, Finding, Inspecting, Picking
    <2>2. Rules(words) = <<report>>
      BY <1>4, <2>1
    <2>3. QED
      BY <1>5, <2>2 DEF query, find, drive, inspect, analyze, pick, report, intent
  <1>6. CASE intent \in {"inspect", "inspect_all"}
    <2>1. Rules(words) = ((<<>> \o <<drive, inspect, analyze>>) \o <<>>) \o <<report>>
      BY <1>2, <1>6 DEF When, Finding, Inspecting, Picking
    <2>2. Rules(words) = <<drive, inspect, analyze, report>>
      BY <1>4, <2>1
    <2>3. QED
      BY <1>6, <2>2 DEF query, find, drive, inspect, analyze, pick, report, intent
  <1>7. CASE intent = "pick"
    <2>1. Rules(words) = ((<<>> \o <<>>) \o <<pick>>) \o <<report>>
      BY <1>2, <1>7 DEF When, Finding, Inspecting, Picking
    <2>2. Rules(words) = <<pick, report>>
      BY <1>4, <2>1
    <2>3. QED
      BY <1>7, <2>2 DEF query, find, drive, inspect, analyze, pick, report, intent
  <1>8. CASE intent = "inspect_and_pick"
    <2>1. Rules(words) = ((<<>> \o <<drive, inspect, analyze>>) \o <<pick>>) \o <<report>>
      BY <1>2, <1>8 DEF When, Finding, Inspecting, Picking
    <2>2. Rules(words) = <<drive, inspect, analyze, pick, report>>
      BY <1>4, <2>1
    <2>3. QED
      BY <1>8, <2>2 DEF query, find, drive, inspect, analyze, pick, report, intent
  <1>9. CASE intent = "find"
    <2>1. Rules(words) = ((<<query, find>> \o <<>>) \o <<>>) \o <<report>>
      BY <1>2, <1>9 DEF When, Finding, Inspecting, Picking
    <2>2. Rules(words) = <<query, find, report>>
      BY <1>4, <2>1
    <2>3. QED
      BY <1>9, <2>2 DEF query, find, drive, inspect, analyze, pick, report, intent
  <1>10. CASE intent = "find_and_inspect"
    <2>1. Rules(words) = ((<<query, find>> \o <<drive, inspect, analyze>>) \o <<>>) \o <<report>>
      BY <1>2, <1>10 DEF When, Finding, Inspecting, Picking
    <2>2. Rules(words) = <<query, find, drive, inspect, analyze, report>>
      BY <1>4, <2>1
    <2>3. QED
      BY <1>10, <2>2 DEF query, find, drive, inspect, analyze, pick, report, intent
  <1>11. CASE intent = "find_inspect_and_pick"
    <2>1. Rules(words) = ((<<query, find>> \o <<drive, inspect, analyze>>) \o <<pick>>) \o <<report>>
      BY <1>2, <1>11 DEF When, Finding, Inspecting, Picking
    <2>2. Rules(words) = <<query, find, drive, inspect, analyze, pick, report>>
      BY <1>4, <2>1
    <2>3. QED
      BY <1>11, <2>2 DEF query, find, drive, inspect, analyze, pick, report, intent
  <1>12. QED
    BY <1>1, <1>5, <1>6, <1>7, <1>8, <1>9, <1>10, <1>11
      DEF query, find, drive, inspect, analyze, pick, report, intent

(* A plan of the rules is short, ends with the report and has the skills   *)
(* of its intent.                                                          *)
LEMMA RulesSkills ==
    ASSUME NEW words
    PROVE  /\ Len(Rules(words)) \in 1 .. 7
           /\ Rules(words)[Len(Rules(words))].skill = "report_status"
           /\ Intent(words) \in Finding => "find_object" \in Skills(Rules(words))
           /\ Intent(words) \in Inspecting => "inspect" \in Skills(Rules(words))
           /\ Intent(words) \in Picking => "arm_pick" \in Skills(Rules(words))
  <1> DEFINE t == Target(words)
             query == Ruled("query_world", t)
             find == Ruled("find_object", t)
             drive == Ruled("navigate_to", t)
             inspect == Ruled("inspect", t)
             analyze == Ruled("analyze_observation", t)
             pick == Ruled("arm_pick", Second(words))
             report == Ruled("report_status", "none")
             Good(rules, intent) ==
                /\ Len(rules) \in 1 .. 7
                /\ rules[Len(rules)].skill = "report_status"
                /\ intent \in Finding => "find_object" \in Skills(rules)
                /\ intent \in Inspecting => "inspect" \in Skills(rules)
                /\ intent \in Picking => "arm_pick" \in Skills(rules)
  <1>1. /\ find.skill = "find_object" /\ inspect.skill = "inspect"
        /\ pick.skill = "arm_pick" /\ report.skill = "report_status"
    BY DEF Ruled, TaskStep
  <1>2. \/ Intent(words) = "report" /\ Rules(words) = <<report>>
        \/ /\ Intent(words) \in {"inspect", "inspect_all"}
           /\ Rules(words) = <<drive, inspect, analyze, report>>
        \/ Intent(words) = "pick" /\ Rules(words) = <<pick, report>>
        \/ /\ Intent(words) = "inspect_and_pick"
           /\ Rules(words) = <<drive, inspect, analyze, pick, report>>
        \/ Intent(words) = "find" /\ Rules(words) = <<query, find, report>>
        \/ /\ Intent(words) = "find_and_inspect"
           /\ Rules(words) = <<query, find, drive, inspect, analyze, report>>
        \/ /\ Intent(words) = "find_inspect_and_pick"
           /\ Rules(words) = <<query, find, drive, inspect, analyze, pick, report>>
    BY RulesListed
  <1> HIDE DEF query, find, drive, inspect, analyze, pick, report
  <1>3. ASSUME NEW rules, NEW k \in DOMAIN rules PROVE rules[k].skill \in Skills(rules)
    BY DEF Skills
  <1>4. Good(<<report>>, "report")
    BY <1>1 DEF Finding, Inspecting, Picking
  <1>5. \A intent \in {"inspect", "inspect_all"} :
           Good(<<drive, inspect, analyze, report>>, intent)
    <2> DEFINE rules == <<drive, inspect, analyze, report>>
    <2>1. /\ Len(rules) = 4 /\ DOMAIN rules = 1 .. 4
          /\ rules[2] = inspect /\ rules[4] = report
      OBVIOUS
    <2> HIDE DEF rules
    <2>2. "inspect" \in Skills(rules)
      BY <1>1, <1>3, <2>1
    <2>3. QED
      BY <1>1, <2>1, <2>2 DEF Finding, Inspecting, Picking, rules
  <1>6. Good(<<pick, report>>, "pick")
    <2> DEFINE rules == <<pick, report>>
    <2>1. /\ Len(rules) = 2 /\ DOMAIN rules = 1 .. 2
          /\ rules[1] = pick /\ rules[2] = report
      OBVIOUS
    <2> HIDE DEF rules
    <2>2. "arm_pick" \in Skills(rules)
      BY <1>1, <1>3, <2>1
    <2>3. QED
      BY <1>1, <2>1, <2>2 DEF Finding, Inspecting, Picking, rules
  <1>7. Good(<<drive, inspect, analyze, pick, report>>, "inspect_and_pick")
    <2> DEFINE rules == <<drive, inspect, analyze, pick, report>>
    <2>1. /\ Len(rules) = 5 /\ DOMAIN rules = 1 .. 5
          /\ rules[2] = inspect /\ rules[4] = pick /\ rules[5] = report
      OBVIOUS
    <2> HIDE DEF rules
    <2>2. "inspect" \in Skills(rules) /\ "arm_pick" \in Skills(rules)
      BY <1>1, <1>3, <2>1
    <2>3. QED
      BY <1>1, <2>1, <2>2 DEF Finding, Inspecting, Picking, rules
  <1>8. Good(<<query, find, report>>, "find")
    <2> DEFINE rules == <<query, find, report>>
    <2>1. /\ Len(rules) = 3 /\ DOMAIN rules = 1 .. 3
          /\ rules[2] = find /\ rules[3] = report
      OBVIOUS
    <2> HIDE DEF rules
    <2>2. "find_object" \in Skills(rules)
      BY <1>1, <1>3, <2>1
    <2>3. QED
      BY <1>1, <2>1, <2>2 DEF Finding, Inspecting, Picking, rules
  <1>9. Good(<<query, find, drive, inspect, analyze, report>>, "find_and_inspect")
    <2> DEFINE rules == <<query, find, drive, inspect, analyze, report>>
    <2>1. /\ Len(rules) = 6 /\ DOMAIN rules = 1 .. 6
          /\ rules[2] = find /\ rules[4] = inspect /\ rules[6] = report
      OBVIOUS
    <2> HIDE DEF rules
    <2>2. "find_object" \in Skills(rules) /\ "inspect" \in Skills(rules)
      BY <1>1, <1>3, <2>1
    <2>3. QED
      BY <1>1, <2>1, <2>2 DEF Finding, Inspecting, Picking, rules
  <1>10. Good(<<query, find, drive, inspect, analyze, pick, report>>, "find_inspect_and_pick")
    <2> DEFINE rules == <<query, find, drive, inspect, analyze, pick, report>>
    <2>1. /\ Len(rules) = 7 /\ DOMAIN rules = 1 .. 7
          /\ rules[2] = find /\ rules[4] = inspect /\ rules[6] = pick /\ rules[7] = report
      OBVIOUS
    <2> HIDE DEF rules
    <2>2. /\ "find_object" \in Skills(rules) /\ "inspect" \in Skills(rules)
          /\ "arm_pick" \in Skills(rules)
      BY <1>1, <1>3, <2>1
    <2>3. QED
      BY <1>1, <2>1, <2>2 DEF Finding, Inspecting, Picking, rules
  <1> HIDE DEF Good
  <1>11. Good(Rules(words), Intent(words))
    BY <1>2, <1>4, <1>5, <1>6, <1>7, <1>8, <1>9, <1>10
  <1>12. QED
    BY <1>11 DEF Good

(* A plan that the rules made stays theirs until it is validated.          *)
Ruling == phase = "planned" /\ promised => plan = Rules(heard)

(* A plan of the rules has what the command asks for.                      *)
LEMMA RulesKeep == Ruling => WorkKept
  <1> SUFFICES ASSUME Ruling, phase = "planned", promised PROVE WorkKept
    BY DEF WorkKept
  <1> DEFINE asks(word) == word \in heard
             all == asks("all") /\ (asks("generator") \/ asks("inspect"))
             both == asks("find") /\ asks("inspect") /\ asks("pick")
  <1>1. plan = Rules(heard)
    BY DEF Ruling
  <1>2. ~asks("report") /\ asks("inspect") /\ (all \/ ~both)
           => Intent(heard) \in Inspecting
    BY DEF Intent, Search, Deed, Inspecting
  <1>3. ~asks("report") /\ ~all /\ asks("find") => Intent(heard) \in Finding
    BY DEF Intent, Search, Deed, Finding
  <1>4. ~asks("report") /\ ~all /\ asks("pick") /\ ~both => Intent(heard) \in Picking
    BY DEF Intent, Search, Deed, Picking
  <1>5. /\ Len(plan) \in 1 .. 7 /\ plan[Len(plan)].skill = "report_status"
        /\ Intent(heard) \in Finding => "find_object" \in Skills(plan)
        /\ Intent(heard) \in Inspecting => "inspect" \in Skills(plan)
        /\ Intent(heard) \in Picking => "arm_pick" \in Skills(plan)
    BY <1>1, RulesSkills
  <1> HIDE DEF all, both
  <1>6. QED
    BY <1>2, <1>3, <1>4, <1>5 DEF WorkKept, all, both

(* Nothing happens to a plan between planning and validation.              *)
LEMMA RulingStays ==
    ASSUME Ruling, [FactoryNext]_factoryVars
    PROVE  Ruling'
  <1>1. ASSUME NEW words \in Commands, Plan(words) PROVE Ruling'
    BY <1>1 DEF Plan, Ruling
  <1>2. CASE Start
    BY <1>2 DEF Start, Ruling
  <1>3. CASE Attempt
    <2>1. phase = "running" /\ phase' \in {"idle", "running"}
      BY <1>3 DEF Attempt, Outcome, Close, Again
    <2>2. QED
      BY <2>1 DEF Ruling
  <1>4. ASSUME NEW r \in Robot, Sideline(r) PROVE Ruling'
    BY <1>4 DEF Sideline, Ruling
  <1>5. CASE Beat \/ Disconnect \/ Restore \/ UNCHANGED factoryVars
    BY <1>5 DEF Beat, Disconnect, Restore, factoryVars, brainVars, histVars, Ruling
  <1>6. QED
    BY <1>1, <1>2, <1>3, <1>4, <1>5 DEF FactoryNext

(* For every set of commands: what a command asks for is in its plan, a    *)
(* report last, with the exceptions that WorkKept names.                   *)
THEOREM FactoryWorkKept == FactorySpec => []WorkKept
  <1>1. FactoryInit => Ruling
    BY DEF FactoryInit, Ruling
  <1>2. Ruling /\ [FactoryNext]_factoryVars => Ruling'
    BY RulingStays
  <1>3. Ruling => WorkKept
    BY RulesKeep
  <1> HIDE DEF Ruling, WorkKept, FactoryInit, FactoryNext, factoryVars
  <1>4. QED
    BY <1>1, <1>2, <1>3, PTL DEF FactorySpec

-----------------------------------------------------------------------------
(***************************************************************************)
(* Ranges                                                                  *)
(***************************************************************************)
Size(x) == IF x < 0 THEN -x ELSE x

(* What lies within 3 m is not further than 425 cm along the axes.         *)
LEMMA Legs ==
    ASSUME NEW x \in Int, NEW y \in Int, x * x + y * y <= 3600
    PROVE  Size(x) + Size(y) <= 85
  <1> DEFINE X == Size(x)
             Y == Size(y)
  <1>1. X \in Nat /\ Y \in Nat /\ X * X = x * x /\ Y * Y = y * y
    BY DEF Size
  <1> HIDE DEF X, Y
  <1>2. 0 <= (X - Y) * (X - Y)
    <2>1. ASSUME NEW d \in Int PROVE 0 <= d * d
      OBVIOUS
    <2>2. X - Y \in Int
      BY <1>1
    <2>3. QED
      BY <2>1, <2>2
  <1>3. (X - Y) * (X - Y) = X * X - 2 * (X * Y) + Y * Y
    BY <1>1
  <1>4. (X + Y) * (X + Y) = X * X + 2 * (X * Y) + Y * Y
    BY <1>1
  <1>5. X * Y \in Int /\ X * X \in Int /\ Y * Y \in Int
    BY <1>1
  <1>6. (X + Y) * (X + Y) <= 7200
    BY <1>1, <1>2, <1>3, <1>4, <1>5
  <1>7. ASSUME NEW s \in Nat, 86 <= s PROVE 7396 <= s * s
    BY <1>7
  <1>8. X + Y < 86
    BY <1>1, <1>6, <1>7
  <1>9. QED
    BY <1>1, <1>8 DEF X, Y

(* A displacement of at most 20 cm changes the square of a distance by     *)
(* little.                                                                 *)
LEMMA Product ==
    ASSUME NEW x \in Int, NEW k \in -4 .. 4
    PROVE  - (2 * x * k) <= 8 * Size(x) /\ k * k <= 16 /\ (k \in -3 .. 3 => k * k <= 9)
  <1>1. k \in {-4, -3, -2, -1, 0, 1, 2, 3, 4}
    OBVIOUS
  <1>2. QED
    BY <1>1 DEF Size

(* Who is within 15 cm of a place is so along each axis.                   *)
LEMMA Short ==
    ASSUME NEW u \in Int, NEW v \in Int, u * u + v * v <= 9
    PROVE  u \in -3 .. 3
  <1>1. 0 <= v * v
    OBVIOUS
  <1>2. u * u <= 9
    BY <1>1
  <1>3. ASSUME NEW w \in Nat, 4 <= w PROVE 16 <= w * w
    BY <1>3
  <1>4. ~(4 <= u)
    BY <1>2, <1>3
  <1>5. ~(4 <= -u)
    <2>1. (-u) * (-u) = u * u
      OBVIOUS
    <2>2. QED
      BY <1>2, <1>3, <2>1
  <1>6. QED
    BY <1>4, <1>5

(* What the brain believes to be within the 3 m of an inspection is within *)
(* the range of the simulated one, which the radius of the object extends: *)
(* the 15 cm of a navigation and the 5 cm of the gripper never matter.     *)
LEMMA Reached ==
    ASSUME NEW at \in Spot, NEW body \in Spot, NEW simAt \in Spot, NEW simBody \in Spot,
           NEW radius \in Nat, 6 <= radius,
           simAt[2] = at[2], simAt[1] \in {at[1], at[1] + 1},
           Within(simBody, body, 3), Within(at, body, 60)
    PROVE  Within(simBody, simAt, 60 + radius)
  <1> DEFINE x == at[1] - body[1]
             y == at[2] - body[2]
             u == simBody[1] - body[1]
             v == simBody[2] - body[2]
             k == simBody[1] - simAt[1] + x
  <1>1. x \in Int /\ y \in Int /\ u \in Int /\ v \in Int /\ k \in {u, u - 1}
    BY DEF Spot
  <1>2. u * u + v * v <= 9
    BY DEF Within
  <1>3. x * x + y * y <= 3600
    BY DEF Within
  <1>4. simBody[1] - simAt[1] = k - x /\ simBody[2] - simAt[2] = v - y
    BY DEF Spot
  <1> HIDE DEF x, y, u, v, k
  <1>5. u \in -3 .. 3 /\ v \in -3 .. 3
    <2>1. v * v + u * u <= 9
      BY <1>1, <1>2
    <2>2. QED
      BY <1>1, <1>2, <2>1, Short
  <1>6. k \in -4 .. 4
    BY <1>1, <1>5
  <1>7. /\ - (2 * x * k) <= 8 * Size(x) /\ k * k <= 16
        /\ - (2 * y * v) <= 8 * Size(y) /\ v * v <= 9
    <2>1. v \in -4 .. 4
      BY <1>5
    <2>2. - (2 * x * k) <= 8 * Size(x) /\ k * k <= 16
      BY <1>1, <1>6, Product
    <2>3. - (2 * y * v) <= 8 * Size(y)
      BY <1>1, <2>1, Product
    <2>4. v * v <= 9
      BY <1>1, <1>5, <2>1, Product
    <2>5. QED
      BY <2>2, <2>3, <2>4
  <1>8. Size(x) + Size(y) <= 85 /\ Size(x) \in Int /\ Size(y) \in Int
    BY <1>1, <1>3, Legs DEF Size
  <1>9. (k - x) * (k - x) + (v - y) * (v - y)
           = x * x + y * y - 2 * x * k - 2 * y * v + k * k + v * v
    BY <1>1, <1>6
  <1>10. /\ x * x \in Int /\ y * y \in Int /\ x * k \in Int /\ y * v \in Int
         /\ k * k \in Int /\ v * v \in Int
         /\ 2 * x * k \in Int /\ 2 * y * v \in Int
    BY <1>1, <1>6
  <1>11. (k - x) * (k - x) + (v - y) * (v - y) <= 4356
    <2>1. ASSUME NEW xx \in Int, NEW yy \in Int, NEW xk \in Int, NEW yv \in Int,
                 NEW kk \in Int, NEW vv \in Int, NEW sx \in Int, NEW sy \in Int,
                 xx + yy <= 3600, sx + sy <= 85, kk <= 16, vv <= 9,
                 -xk <= 8 * sx, -yv <= 8 * sy
          PROVE  xx + yy - xk - yv + kk + vv <= 4356
      BY <2>1
    <2> DEFINE xk == 2 * x * k
               yv == 2 * y * v
    <2>2. xk \in Int /\ yv \in Int /\ -xk <= 8 * Size(x) /\ -yv <= 8 * Size(y)
      BY <1>7, <1>10
    <2>3. (k - x) * (k - x) + (v - y) * (v - y) = x * x + y * y - xk - yv + k * k + v * v
      BY <1>9
    <2> HIDE DEF xk, yv
    <2>4. x * x + y * y - xk - yv + k * k + v * v <= 4356
      BY <1>3, <1>7, <1>8, <1>10, <2>1, <2>2
    <2>5. QED
      BY <2>3, <2>4
  <1>12. 4356 <= (60 + radius) * (60 + radius)
    <2>1. ASSUME NEW s \in Nat, 66 <= s PROVE 4356 <= s * s
      BY <2>1
    <2>2. QED
      BY <2>1
  <1>13. (k - x) * (k - x) \in Int /\ (v - y) * (v - y) \in Int
    BY <1>1, <1>6
  <1>14. QED
    BY <1>4, <1>11, <1>12, <1>13 DEF Within-----------------------------------------------------------------------------

(***************************************************************************)
(* Agreement                                                               *)
(***************************************************************************)
Grip == <<Home["arm"][1] + 1, Home["arm"][2]>>

(* The arm is on its pedestal in both records.  The same objects are held, *)
(* those in the simulated gripper, and the others lie at the same places.  *)
ArmMatch(sp, sw, p, w) ==
    /\ DOMAIN sp = Robot
    /\ p["arm"] = Home["arm"] /\ sp["arm"] = Home["arm"]
    /\ \A o \in Object :
          /\ sw[o].holder = w[o].holder
          /\ IF w[o].holder = Nobody THEN sw[o].at = w[o].at
             ELSE w[o].at = Home["arm"] /\ sw[o].at = Grip

(* The rover is within 15 cm of its pose.                                  *)
RoverMatch(sp, p) == sp["ugv"] \in Spot /\ Within(sp["ugv"], p["ugv"], 3)

Matched == ArmMatch(simPose, simWorld, pose, world)
RoverMatched == RoverMatch(simPose, pose)

Matching ==
    /\ parted \cap {"safe", "unable"} = {} => Matched
    /\ parted = {} => ~unreal /\ RoverMatched

(* What is done in the simulator and by the brain keeps the records alike; *)
(* the rover's only if it drove where the brain believes that it did, and  *)
(* then what the brain reports as done the body did.                       *)
Alike(out, b) ==
    /\ ArmMatch(out.pose, out.world, b.pose, b.world)
    /\ RoverMatched /\ out.why = {} =>
          /\ RoverMatch(out.pose, b.pose)
          /\ ~out.raised /\ b.ok => out.did

(* What the results of the brain are.                                      *)
LEMMA BrainStill ==
    /\ Same.ok /\ ~Same.escapes /\ Same.pose = pose /\ Same.world = world
    /\ ~Fail.ok /\ ~Fail.escapes /\ Fail.pose = pose /\ Fail.world = world
  BY DEF Same, Fail

(* A drive ...                                                             *)
LEMMA BrainMoved ==
    ASSUME NEW r, NEW place
    PROVE  /\ Moves(r, place).ok /\ ~Moves(r, place).escapes
           /\ Moves(r, place).pose = [pose EXCEPT ![r] = place]
           /\ Moves(r, place).world = world
  <1>1. ASSUME NEW q
        PROVE  /\ [Same EXCEPT !.pose = q].pose = q
               /\ [Same EXCEPT !.pose = q].world = world
               /\ [Same EXCEPT !.pose = q].ok /\ ~[Same EXCEPT !.pose = q].escapes
    BY DEF Same
  <1>2. Moves(r, place) = [Same EXCEPT !.pose = [pose EXCEPT ![r] = place]]
    BY BrainStill DEF Moves
  <1>3. QED
    BY <1>1, <1>2

(* ... and a change to an object.                                          *)
LEMMA BrainBecame ==
    ASSUME NEW o, NEW item
    PROVE  /\ Becomes(o, item).ok /\ ~Becomes(o, item).escapes
           /\ Becomes(o, item).pose = pose
           /\ Becomes(o, item).world = [world EXCEPT ![o] = item]
  <1>1. ASSUME NEW w
        PROVE  /\ [Same EXCEPT !.world = w].world = w
               /\ [Same EXCEPT !.world = w].pose = pose
               /\ [Same EXCEPT !.world = w].ok /\ ~[Same EXCEPT !.world = w].escapes
    BY DEF Same
  <1>2. Becomes(o, item) = [Same EXCEPT !.world = [world EXCEPT ![o] = item]]
    BY BrainStill DEF Becomes
  <1>3. QED
    BY <1>1, <1>2

(* What the results of the simulator are: of nothing, of an exception, ... *)
LEMMA SimStill ==
    /\ SimSame.did /\ ~SimSame.raised /\ SimSame.pose = simPose
    /\ SimSame.world = simWorld /\ SimSame.why = {}
    /\ ~SimFail.did /\ ~SimFail.raised /\ SimFail.pose = simPose
    /\ SimFail.world = simWorld
    /\ LET out == [SimFail EXCEPT !.raised = TRUE] IN
       out.raised /\ out.pose = simPose /\ out.world = simWorld
  BY DEF SimSame, SimFail

(* ... of a turn on the spot, ...                                          *)
LEMMA SimTurned ==
    ASSUME NEW s, NEW out, out = [SimSame EXCEPT !.safe = s]
    PROVE  out.did /\ ~out.raised /\ out.pose = simPose /\ out.world = simWorld
  BY DEF SimSame

(* ... of a change to an object ...                                        *)
Taken(o, item) == [SimSame EXCEPT !.world[o] = item]

(* The changed object is the only one to change.                           *)
LEMMA SimBecame ==
    ASSUME NEW o, NEW item
    PROVE  /\ Taken(o, item).did /\ ~Taken(o, item).raised
           /\ Taken(o, item).pose = simPose
           /\ Taken(o, item).world = [simWorld EXCEPT ![o] = item]
  <1>1. ASSUME NEW w
        PROVE  LET out0 == [SimSame EXCEPT !.world = w] IN
               out0.did /\ ~out0.raised /\ out0.pose = simPose /\ out0.world = w
    BY DEF SimSame
  <1>2. Taken(o, item) = [SimSame EXCEPT !.world = [simWorld EXCEPT ![o] = item]]
    BY SimStill DEF Taken
  <1>3. QED
    BY <1>1, <1>2

(* ... and of a ride.                                                      *)
LEMMA SimRode ==
    ASSUME NEW r, NEW place, NEW p, NEW s, NEW out, out = Rode(r, place, p, s)
    PROVE  /\ out.did /\ ~out.raised /\ out.world = simWorld
           /\ out.pose = [simPose EXCEPT ![r] = p]
           /\ out.why = {} => p = place
  <1>1. ASSUME NEW q, NEW why
        PROVE  LET out0 == [SimSame EXCEPT !.pose = q, !.safe = s, !.why = why] IN
               /\ out0.did /\ ~out0.raised /\ out0.world = simWorld /\ out0.pose = q
               /\ out0.why = why
    BY DEF SimSame
  <1>2. out = [SimSame EXCEPT !.pose = [simPose EXCEPT ![r] = p], !.safe = s,
                              !.why = IF p = place THEN {} ELSE {"short"}]
    BY SimStill DEF Rode
  <1>3. QED
    BY <1>1, <1>2

(* Nothing done on either side.                                            *)
LEMMA AlikeStill ==
    ASSUME Matched, NEW out, NEW b,
           out.pose = simPose, out.world = simWorld, b.pose = pose, b.world = world,
           out.did \/ ~b.ok
    PROVE  Alike(out, b)
  BY DEF Matched, RoverMatched, Alike

(* An object that neither moves nor changes hands.                         *)
LEMMA AlikeSeen ==
    ASSUME Shapes, Matched, NEW out, NEW o \in Object, NEW item,
           item.at = world[o].at, item.holder = world[o].holder,
           out.pose = simPose, out.world = simWorld, RoverMatched => out.did
    PROVE  Alike(out, Becomes(o, item))
  <1> DEFINE w == [world EXCEPT ![o] = item]
  <1>1. \A q \in Object : w[q].at = world[q].at /\ w[q].holder = world[q].holder
    BY DEF Shapes
  <1> HIDE DEF w
  <1>2. ArmMatch(simPose, simWorld, pose, w)
    BY <1>1 DEF Matched, ArmMatch
  <1>3. Becomes(o, item).pose = pose /\ Becomes(o, item).world = w
    BY BrainBecame DEF w
  <1>4. QED
    BY <1>2, <1>3 DEF Alike, RoverMatched

(* An object that both take or put down.                                   *)
LEMMA AlikeMoved ==
    ASSUME Shapes, Matched, NEW o \in Object, NEW item, NEW simItem,
           simItem.holder = item.holder,
           IF item.holder = Nobody THEN simItem.at = item.at
           ELSE item.at = Home["arm"] /\ simItem.at = Grip,
           NEW out, out = Taken(o, simItem)
    PROVE  Alike(out, Becomes(o, item))
  <1> DEFINE w == [world EXCEPT ![o] = item]
             sw == [simWorld EXCEPT ![o] = simItem]
  <1>1. \A q \in Object : /\ w[q] = IF q = o THEN item ELSE world[q]
                          /\ sw[q] = IF q = o THEN simItem ELSE simWorld[q]
    BY DEF Shapes
  <1>2. Becomes(o, item).pose = pose /\ Becomes(o, item).world = w
    BY BrainBecame
  <1>3. out.did /\ out.pose = simPose /\ out.world = sw
    BY SimBecame
  <1> HIDE DEF w, sw
  <1>4. ArmMatch(simPose, sw, pose, w)
    BY <1>1 DEF Matched, ArmMatch
  <1>5. QED
    BY <1>2, <1>3, <1>4 DEF Alike, RoverMatched

(* Wherever the rover rides, and wherever the brain believes that it does, *)
(* the arm and the objects are left alone.                                 *)
LEMMA ArmRide ==
    ASSUME Shapes, Matched, NEW place, NEW goal, NEW out \in Ride("ugv", place)
    PROVE  /\ out.did
           /\ ArmMatch(out.pose, out.world, Moves("ugv", goal).pose, Moves("ugv", goal).world)
  <1> DEFINE p == [pose EXCEPT !["ugv"] = goal]
  <1>1. p["arm"] = pose["arm"]
    BY DEF Shapes, Robot
  <1>2. Moves("ugv", goal).pose = p /\ Moves("ugv", goal).world = world
    BY BrainMoved
  <1> HIDE DEF p
  <1>3. CASE At("ugv", place)
    <2>1. out = SimSame
      BY <1>3 DEF Ride
    <2>2. out.did /\ out.pose = simPose /\ out.world = simWorld
      BY <2>1, SimStill
    <2>3. ArmMatch(simPose, simWorld, p, world)
      BY <1>1 DEF Matched, ArmMatch
    <2>4. QED
      BY <1>2, <2>2, <2>3
  <1>4. CASE ~At("ugv", place)
    <2>1. PICK q \in Stops("ugv", place), s \in [Robot -> BOOLEAN] :
             out = Rode("ugv", place, q, s)
      BY <1>4 DEF Ride
    <2>2. /\ out.did /\ out.world = simWorld
          /\ out.pose = [simPose EXCEPT !["ugv"] = q]
      BY <2>1, SimRode
    <2> DEFINE sp == [simPose EXCEPT !["ugv"] = q]
    <2>3. sp["arm"] = simPose["arm"] /\ DOMAIN sp = Robot
      BY DEF Matched, ArmMatch, Robot
    <2> HIDE DEF sp
    <2>4. ArmMatch(sp, simWorld, p, world)
      BY <1>1, <2>3 DEF Matched, ArmMatch
    <2>5. QED
      BY <1>2, <2>2, <2>4 DEF sp
  <1>5. QED
    BY <1>3, <1>4

(* A ride of the rover that does not end short takes it where the brain    *)
(* believes that it is.                                                    *)
LEMMA RoverRide ==
    ASSUME Shapes, Matched, RoverMatched, NEW place \in Spot,
           NEW out \in Ride("ugv", place), out.why = {}
    PROVE  RoverMatch(out.pose, Moves("ugv", place).pose)
  <1> DEFINE p == [pose EXCEPT !["ugv"] = place]
  <1>1. p["ugv"] = place
    BY DEF Shapes, Robot
  <1>2. Moves("ugv", place).pose = p
    BY BrainMoved
  <1> HIDE DEF p
  <1>3. CASE At("ugv", place)
    <2>1. out = SimSame
      BY <1>3 DEF Ride
    <2>2. out.pose = simPose
      BY <2>1, SimStill
    <2>3. RoverMatch(simPose, p)
      BY <1>1, <1>3 DEF RoverMatched, RoverMatch, At
    <2>4. QED
      BY <1>2, <2>2, <2>3
  <1>4. CASE ~At("ugv", place)
    <2>1. PICK q \in Stops("ugv", place), s \in [Robot -> BOOLEAN] :
             out = Rode("ugv", place, q, s)
      BY <1>4 DEF Ride
    <2>2. out.pose = [simPose EXCEPT !["ugv"] = q] /\ q = place
      BY <2>1, SimRode
    <2> DEFINE sp == [simPose EXCEPT !["ugv"] = place]
    <2>3. sp["ugv"] = place
      BY DEF Matched, ArmMatch, Robot
    <2>4. Within(place, place, 3)
      BY DEF Within, Spot
    <2> HIDE DEF sp
    <2>5. RoverMatch(sp, p)
      BY <1>1, <2>3, <2>4 DEF RoverMatch
    <2>6. QED
      BY <1>2, <2>2, <2>5 DEF sp
  <1>5. QED
    BY <1>3, <1>4

(* So a ride keeps the records alike.                                      *)
LEMMA AlikeRide ==
    ASSUME Shapes, Matched, NEW place \in Spot, NEW out \in Ride("ugv", place)
    PROVE  Alike(out, Moves("ugv", place))
  BY ArmRide, RoverRide DEF Alike

(* What a ride answers is a record, whose reasons alone a search extends.  *)
LEMMA RideFields ==
    ASSUME NEW r, NEW place, NEW out \in Ride(r, place), NEW why
    PROVE  LET more == [out EXCEPT !.why = why] IN
           /\ more.why = why /\ more.pose = out.pose /\ more.world = out.world
           /\ more.did = out.did /\ more.raised = out.raised
  <1>1. CASE At(r, place)
    <2>1. out = SimSame
      BY <1>1 DEF Ride
    <2>2. QED
      BY <2>1 DEF SimSame
  <1>2. CASE ~At(r, place)
    <2>1. PICK q \in Stops(r, place), s \in [Robot -> BOOLEAN] : out = Rode(r, place, q, s)
      BY <1>2 DEF Ride
    <2>2. QED
      BY <2>1 DEF Rode, SimSame
  <1>3. QED
    BY <1>1, <1>2

(* A search of the rover.                                                  *)
LEMMA AlikeFind ==
    ASSUME Shapes, Matched, NEW class, OfClass(class) # {},
           NEW out \in SimFind("ugv", class)
    PROVE  Alike(out, Moves("ugv", Standoff(class)))
  <1>1. Standoff(class) \in Spot
    <2>1. OfClass(class) \in SUBSET Object
      BY DEF OfClass
    <2>2. FirstOf(OfClass(class)) \in Object
      BY <2>1, FirstTyped
    <2>3. world[FirstOf(OfClass(class))].at \in Int \X Int
      BY <2>2 DEF Shapes, Item, Spot
    <2>4. QED
      BY <2>3 DEF Standoff, Spot
  <1>2. \E o \in Nearest("ugv", class) :
           out \in LET p == simWorld[o].at
                      stop == <<IF p[1] > 0 THEN p[1] - 20 ELSE p[1] + 20, p[2]>> IN
                  {[u EXCEPT !.why = IF stop = Standoff(class) THEN @
                                     ELSE @ \cup {"standoff"}] : u \in Ride("ugv", stop)}
    BY Zenon DEF SimFind
  <1>3. PICK stop, u : u \in Ride("ugv", stop) /\
           out = [u EXCEPT !.why = IF stop = Standoff(class) THEN u.why
                                   ELSE u.why \cup {"standoff"}]
    BY <1>2
  <1>4. /\ out.pose = u.pose /\ out.world = u.world
        /\ out.did = u.did /\ out.raised = u.raised
        /\ out.why = IF stop = Standoff(class) THEN u.why ELSE u.why \cup {"standoff"}
    BY <1>3, RideFields
  <1>5. CASE stop = Standoff(class)
    <2>1. Alike(u, Moves("ugv", Standoff(class)))
      BY <1>1, <1>3, <1>5, AlikeRide
    <2>2. QED
      BY <1>4, <1>5, <2>1 DEF Alike
  <1>6. CASE stop # Standoff(class)
    <2>1. ArmMatch(u.pose, u.world, Moves("ugv", Standoff(class)).pose,
                   Moves("ugv", Standoff(class)).world)
      BY <1>3, ArmRide
    <2>2. out.why # {}
      BY <1>4, <1>6
    <2>3. QED
      BY <1>4, <2>1, <2>2 DEF Alike
  <1>7. QED
    BY <1>5, <1>6

(* From where the brain inspects an object the body reaches it.            *)
LEMMA InspectReached ==
    ASSUME Shapes, Matched, RoverMatched, NEW r \in Robot, NEW o \in Object,
           Within(world[o].at, pose[r], 60)
    PROVE  Within(simPose[r], simWorld[o].at, 60 + Radius[o])
  <1>1. world[o].at \in Spot /\ pose[r] \in Spot
    BY DEF Shapes, Item
  <1>2. Home["arm"] \in Spot /\ Radius[o] \in Nat /\ 6 <= Radius[o]
    BY DEF Home, Spot, Radius, Object
  <1>3. simPose[r] \in Spot /\ Within(simPose[r], pose[r], 3)
    <2>1. CASE r = "arm"
      <3>1. simPose[r] = pose[r]
        BY <2>1 DEF Matched, ArmMatch
      <3>2. QED
        BY <1>1, <3>1 DEF Within, Spot
    <2>2. CASE r = "ugv"
      BY <2>2 DEF RoverMatched, RoverMatch
    <2>3. QED
      BY <2>1, <2>2 DEF Robot
  <1>4. /\ simWorld[o].at \in Spot
        /\ simWorld[o].at[2] = world[o].at[2]
        /\ simWorld[o].at[1] \in {world[o].at[1], world[o].at[1] + 1}
    <2>1. CASE world[o].holder = Nobody
      <3>1. simWorld[o].at = world[o].at
        BY <2>1 DEF Matched, ArmMatch
      <3>2. QED
        BY <1>1, <3>1
    <2>2. CASE world[o].holder # Nobody
      <3>1. world[o].at = Home["arm"] /\ simWorld[o].at = Grip
        BY <2>2 DEF Matched, ArmMatch
      <3>2. /\ Grip \in Spot /\ Grip[2] = Home["arm"][2]
            /\ Grip[1] = Home["arm"][1] + 1
        BY <1>2 DEF Grip, Spot
      <3>3. QED
        BY <3>1, <3>2
    <2>3. QED
      BY <2>1, <2>2
  <1>5. QED
    BY <1>1, <1>2, <1>3, <1>4, Reached

LEMMA InspectDone ==
    ASSUME Shapes, Matched, RoverMatched, NEW r \in Robot, NEW o \in Object,
           NEW out \in SimInspect(r, o), Within(world[o].at, pose[r], 60)
    PROVE  out.did
  <1>1. simPose[r] # Astray
    <2>1. Home["arm"] \in Spot
      BY DEF Home, Spot
    <2>2. QED
      BY <2>1, FactoryAssumption DEF Matched, ArmMatch, RoverMatched, RoverMatch, Robot
  <1>2. IF Within(simPose[r], simWorld[o].at, 60 + Radius[o])
        THEN \E s \in [Robot -> BOOLEAN] : out = [SimSame EXCEPT !.safe = s]
        ELSE out = SimFail
    BY <1>1 DEF SimInspect, SimReach
  <1>3. \E s \in [Robot -> BOOLEAN] : out = [SimSame EXCEPT !.safe = s]
    BY <1>2, InspectReached
  <1>4. QED
    BY <1>3, SimTurned

(* An inspection: what the brain reports as done the body did, and neither *)
(* moves anything.                                                         *)
LEMMA AlikeInspect ==
    ASSUME Shapes, Matched, NEW r \in Robot, NEW o \in Object,
           NEW out \in SimInspect(r, o)
    PROVE  Alike(out, Inspect(r, o))
  <1>1. \/ \E s \in [Robot -> BOOLEAN] : out = [SimSame EXCEPT !.safe = s]
        \/ out = SimFail
    BY DEF SimInspect
  <1>2. out.pose = simPose /\ out.world = simWorld
    BY <1>1, SimTurned, SimStill
  <1>3. CASE Within(world[o].at, pose[r], 60)
    <2> DEFINE s == IF o \in Damaged THEN "DAMAGED" ELSE "INSPECTED"
               item == [world[o] EXCEPT !.state = s, !.hot = (o \in Damaged)]
    <2>1. world[o] \in Item
      BY DEF Shapes
    <2> HIDE DEF s
    <2>2. item.at = world[o].at /\ item.holder = world[o].holder
      BY <2>1 DEF Item
    <2>3. Inspect(r, o) = Becomes(o, item)
      BY <1>3 DEF Inspect, s
    <2> HIDE DEF item
    <2>4. RoverMatched => out.did
      BY <1>3, InspectDone
    <2>5. QED
      BY <1>2, <2>2, <2>3, <2>4, AlikeSeen
  <1>4. CASE ~Within(world[o].at, pose[r], 60)
    <2>1. Inspect(r, o) = Fail
      BY <1>4 DEF Inspect
    <2>2. QED
      BY <1>2, <2>1, AlikeStill, BrainStill
  <1>5. QED
    BY <1>3, <1>4

(* An analysis only looks.                                                 *)
LEMMA AlikeAnalyze ==
    ASSUME Shapes, Matched, NEW o \in Object
    PROVE  Alike(SimSame, Analyze(o))
  <1> DEFINE s == IF world[o].hot \/ world[o].state = "DAMAGED" \/ o \in Damaged
                  THEN "DAMAGED" ELSE "INSPECTED"
             item == [world[o] EXCEPT !.state = s]
  <1>1. world[o] \in Item
    BY DEF Shapes
  <1>2. Analyze(o) = Becomes(o, item)
    BY DEF Analyze
  <1> HIDE DEF s
  <1>3. item.at = world[o].at /\ item.holder = world[o].holder
    BY <1>1 DEF Item
  <1> HIDE DEF item
  <1>4. QED
    BY <1>2, <1>3, AlikeSeen, SimStill

(* A grasp: both reach the same objects, which are in the hand or lie at   *)
(* the same place.                                                         *)
LEMMA AlikePick ==
    ASSUME Shapes, Matched, NEW o \in Object, NEW out \in SimPick("arm", o)
    PROVE  Alike(out, Pick("arm", o))
  <1>1. pose["arm"] = Home["arm"] /\ simPose["arm"] = Home["arm"]
    BY DEF Matched, ArmMatch
  <1>2. Within(simPose["arm"], simWorld[o].at, 30) <=> Within(world[o].at, pose["arm"], 30)
    <2>1. CASE world[o].holder = Nobody
      <3>1. simWorld[o].at = world[o].at /\ world[o].at \in Int \X Int
        BY <2>1 DEF Matched, ArmMatch, Shapes, Item, Spot
      <3>2. QED
        BY <1>1, <3>1 DEF Within, Home
    <2>2. CASE world[o].holder # Nobody
      <3>1. world[o].at = Home["arm"] /\ simWorld[o].at = Grip
        BY <2>2 DEF Matched, ArmMatch
      <3>2. QED
        BY <1>1, <3>1 DEF Within, Home, Grip
    <2>3. QED
      BY <2>1, <2>2
  <1>3. CASE Within(world[o].at, pose["arm"], 30)
    <2> DEFINE item == [world[o] EXCEPT !.at = pose["arm"], !.holder = "arm", !.state = "HELD"]
               simItem == [at |-> Gripper("arm"), holder |-> "arm"]
    <2>1. out = Taken(o, simItem)
      BY <1>2, <1>3 DEF SimPick, Taken
    <2>2. Pick("arm", o) = Becomes(o, item)
      BY <1>3 DEF Pick
    <2>3. world[o] \in Item
      BY DEF Shapes
    <2>4. item.holder = "arm" /\ item.at = Home["arm"]
      BY <1>1, <2>3 DEF Item
    <2>5. simItem.holder = "arm" /\ simItem.at = Grip
      BY <1>1 DEF Gripper, Grip
    <2> HIDE DEF item, simItem
    <2>6. "arm" # Nobody
      BY DEF Nobody
    <2>7. Alike(out, Becomes(o, item))
      BY <2>1, <2>4, <2>5, <2>6, AlikeMoved
    <2>8. QED
      BY <2>2, <2>7
  <1>4. CASE ~Within(world[o].at, pose["arm"], 30)
    <2>1. out = SimFail /\ Pick("arm", o) = Fail
      BY <1>2, <1>4 DEF SimPick, Pick
    <2>2. QED
      BY <2>1, AlikeStill, BrainStill, SimStill
  <1>5. QED
    BY <1>3, <1>4

(* A release: both put the first of the same objects to the same place, or *)
(* both refuse.                                                            *)
LEMMA AlikePut ==
    ASSUME Shapes, Matched, NEW place, NEW out \in SimPlace("arm", place)
    PROVE  Alike(out, Put("arm", place))
  <1> DEFINE o == FirstOf(HeldBy(world, "arm"))
             to == IF place = NoPlace THEN <<pose["arm"][1] + 10, pose["arm"][2]>> ELSE place
             item == [world[o] EXCEPT !.at = to, !.holder = Nobody, !.state = "PLACED"]
             simItem == [at |-> to, holder |-> Nobody]
  <1>1. HeldBy(simWorld, "arm") = HeldBy(world, "arm") /\ simPose["arm"] = pose["arm"]
    BY DEF HeldBy, Matched, ArmMatch
  <1>2. CASE o = NoObject
    <2>1. out = SimFail
      BY <1>1, <1>2 DEF SimPlace
    <2>2. Put("arm", place) \in {Fail, [Fail EXCEPT !.escapes = TRUE]}
      BY <1>2 DEF Put
    <2>3. /\ ~Put("arm", place).ok /\ Put("arm", place).pose = pose
          /\ Put("arm", place).world = world
      BY <2>2 DEF Fail, Same
    <2>4. QED
      BY <2>1, <2>3, AlikeStill, SimStill
  <1>3. CASE o # NoObject /\ place = Null
    <2>1. out = [SimFail EXCEPT !.raised = TRUE]
      BY <1>1, <1>3 DEF SimPlace
    <2>2. Put("arm", place) = [Fail EXCEPT !.escapes = TRUE]
      BY <1>3 DEF Put
    <2>3. /\ ~Put("arm", place).ok /\ Put("arm", place).pose = pose
          /\ Put("arm", place).world = world
      BY <2>2 DEF Fail, Same
    <2>4. QED
      BY <2>1, <2>3, AlikeStill, SimStill
  <1>4. CASE o # NoObject /\ place # Null
    <2>1. o \in Object
      <3>1. HeldBy(world, "arm") \in SUBSET Object
        BY DEF HeldBy
      <3>2. HeldBy(world, "arm") # {}
        BY <1>4 DEF FirstOf
      <3>3. QED
        BY <3>1, <3>2, FirstTyped
    <2>2. out = Taken(o, simItem)
      BY <1>1, <1>4 DEF SimPlace, Taken
    <2>3. Put("arm", place) = Becomes(o, item)
      BY <1>4 DEF Put
    <2> HIDE DEF o, to
    <2>4. world[o] \in Item
      BY <2>1 DEF Shapes
    <2>5. item.holder = Nobody /\ item.at = to
      BY <2>4 DEF Item
    <2>6. simItem.holder = Nobody /\ simItem.at = to
      OBVIOUS
    <2> HIDE DEF item, simItem
    <2>7. Alike(out, Becomes(o, item))
      BY <2>1, <2>2, <2>5, <2>6, AlikeMoved
    <2>8. QED
      BY <2>3, <2>7
  <1>5. QED
    BY <1>2, <1>3, <1>4

(* Only the rover can move, only the arm can grasp.                        *)
LEMMA AbleBody ==
    ASSUME NEW r \in Robot, NEW skill, skill \in Able[r]
    PROVE  /\ skill \in Moving => r = "ugv"
           /\ skill \in {"arm_pick", "arm_place"} => r = "arm"
  BY DEF Able, Anyone, Moving, Robot

(* A refusal in safe state says so.                                        *)
LEMMA SafeRefuses ==
    ASSUME NEW d
    PROVE  [SimFail EXCEPT !.did = d, !.why = {"safe"}].why = {"safe"}
  BY DEF SimFail, SimSame

(* Whatever the skill, of a body that can do it: unless it was in safe     *)
(* state, the two records stay alike.                                      *)
LEMMA AlikeSkill ==
    ASSUME Shapes, Matched, NEW r \in Robot, NEW step \in Step,
           step.at = Null => step.skill = "arm_place",
           step.skill \in Able[r],
           NEW out \in SimSkill(r, step), "safe" \notin out.why
    PROVE  Alike(out, BrainSkill(r, step))
  <1> DEFINE b == BrainSkill(r, step)
  <1>1. /\ step.object \in Object \cup {NoObject}
        /\ step.at \in Spot \cup {NoPlace, Null}
        /\ NoObject \notin Object
    BY FactoryAssumption DEF Step
  <1>2. CASE step.skill \notin Bodily \cup {"wait"}
    <2>1. out = SimSame
      BY <1>2 DEF SimSkill
    <2>2. CASE step.skill = "analyze_observation" /\ step.object # NoObject
      <3>1. b = Analyze(step.object)
        BY <2>2 DEF BrainSkill
      <3>2. QED
        BY <1>1, <2>1, <2>2, <3>1, AlikeAnalyze
    <2>3. CASE ~(step.skill = "analyze_observation" /\ step.object # NoObject)
      <3>1. b \in {Same, Fail}
        BY <1>2, <2>3 DEF BrainSkill, Bodily
      <3>2. QED
        BY <2>1, <3>1, AlikeStill, BrainStill, SimStill
    <2>4. QED
      BY <2>2, <2>3
  <1>3. CASE step.skill \in Bodily \cup {"wait"} /\ safe[r]
    <2>1. out = [SimFail EXCEPT !.did = step.skill = "wait", !.why = {"safe"}]
      BY <1>3 DEF SimSkill
    <2>2. QED
      BY <2>1, SafeRefuses
  <1>4. CASE step.skill \in Bodily \cup {"wait"} /\ ~safe[r]
    <2>1. CASE step.skill = "navigate_to"
      <3>1. r = "ugv"
        BY <2>1, AbleBody DEF Moving
      <3>2. CASE Where(step) = NoPlace
        <4>1. out = [SimFail EXCEPT !.raised = TRUE]
          BY <1>4, <2>1, <3>2 DEF SimSkill
        <4>2. b = Fail
          BY <2>1, <3>2 DEF BrainSkill
        <4>3. QED
          BY <4>1, <4>2, AlikeStill, BrainStill, SimStill
      <3>3. CASE Where(step) # NoPlace
        <4>1. out \in Ride("ugv", Where(step))
          BY <1>4, <2>1, <3>1, <3>3 DEF SimSkill
        <4>2. b = Moves("ugv", Where(step))
          BY <2>1, <3>1, <3>3 DEF BrainSkill
        <4>3. ASSUME NEW o \in Object PROVE world[o].at \in Spot
          BY DEF Shapes, Item
        <4>4. Where(step) \in Spot
          BY <1>1, <2>1, <3>3, <4>3 DEF Where
        <4>5. QED
          BY <4>1, <4>2, <4>4, AlikeRide
      <3>4. QED
        BY <3>2, <3>3
    <2>2. CASE step.skill = "inspect"
      <3>1. CASE step.object = NoObject
        <4>1. out = SimFail /\ b = Fail
          BY <1>4, <2>2, <3>1 DEF SimSkill, BrainSkill
        <4>2. QED
          BY <4>1, AlikeStill, BrainStill, SimStill
      <3>2. CASE step.object # NoObject
        <4>1. out \in SimInspect(r, step.object) /\ b = Inspect(r, step.object)
          BY <1>4, <2>2, <3>2 DEF SimSkill, BrainSkill
        <4>2. QED
          BY <1>1, <3>2, <4>1, AlikeInspect
      <3>3. QED
        BY <3>1, <3>2
    <2>3. CASE step.skill = "arm_pick"
      <3>1. r = "arm"
        BY <2>3, AbleBody
      <3>2. CASE step.object = NoObject
        <4>1. out = SimFail /\ b = Fail
          BY <1>4, <2>3, <3>2 DEF SimSkill, BrainSkill
        <4>2. QED
          BY <4>1, AlikeStill, BrainStill, SimStill
      <3>3. CASE step.object # NoObject
        <4>1. out \in SimPick("arm", step.object) /\ b = Pick("arm", step.object)
          BY <1>4, <2>3, <3>1, <3>3 DEF SimSkill, BrainSkill
        <4>2. QED
          BY <1>1, <3>3, <4>1, AlikePick
      <3>4. QED
        BY <3>2, <3>3
    <2>4. CASE step.skill = "arm_place"
      <3>1. r = "arm"
        BY <2>4, AbleBody
      <3>2. out \in SimPlace("arm", step.at) /\ b = Put("arm", step.at)
        BY <1>4, <2>4, <3>1 DEF SimSkill, BrainSkill
      <3>3. QED
        BY <3>2, AlikePut
    <2>5. CASE step.skill = "find_object"
      <3>1. r = "ugv"
        BY <2>5, AbleBody DEF Moving
      <3>2. out \in SimFind("ugv", step.class)
        BY <1>4, <2>5, <3>1 DEF SimSkill
      <3>3. CASE OfClass(step.class) = {}
        <4>1. out = SimFail /\ b = Fail
          BY <2>5, <3>2, <3>3 DEF SimFind, BrainSkill
        <4>2. QED
          BY <4>1, AlikeStill, BrainStill, SimStill
      <3>4. CASE OfClass(step.class) # {}
        <4>1. b = Moves("ugv", Standoff(step.class))
          BY <2>5, <3>1, <3>4 DEF BrainSkill
        <4>2. QED
          BY <3>2, <3>4, <4>1, AlikeFind
      <3>5. QED
        BY <3>3, <3>4
    <2>6. CASE step.skill = "wait"
      <3>1. \E s \in [Robot -> BOOLEAN] : out = [SimSame EXCEPT !.safe = s]
        BY <1>4, <2>6 DEF SimSkill
      <3>2. b = Same
        BY <2>6 DEF BrainSkill
      <3>3. QED
        BY <3>1, <3>2, AlikeStill, BrainStill, SimTurned
    <2>7. QED
      BY <1>4, <2>1, <2>2, <2>3, <2>4, <2>5, <2>6 DEF Bodily
  <1>5. QED
    BY <1>2, <1>3, <1>4

(* An attempt keeps the records alike.                                     *)
LEMMA MatchingAttempt ==
    ASSUME TypeInv, Matching, Attempt
    PROVE  Matching'
  <1>1. /\ plan \in Seq(Step) /\ next \in 1 .. Len(plan)
        /\ plan[next].at = Null => plan[next].skill = "arm_place"
    BY DEF TypeInv, TypeOK, Shapes, Attempt, NullPlaced
  <1>2. plan[next] \in Step
    BY <1>1, ElementOfSeq
  <1>3. PICK r \in Choice(plan[next]) : \E sim \in SimSkill(r, plan[next]) :
           LET b == BrainSkill(r, plan[next]) IN
           /\ simPose' = sim.pose /\ simWorld' = sim.world
           /\ pose' = b.pose /\ world' = b.world
           /\ parted' = parted \cup sim.why \cup
                        IF plan[next].skill \in Able[r] THEN {} ELSE {"unable"}
           /\ unreal' = (unreal \/ (Succeeds(sim, b) /\ ~sim.did))
    BY DEF Attempt
  <1> DEFINE b == BrainSkill(r, plan[next])
  <1>4. PICK sim \in SimSkill(r, plan[next]) :
           /\ simPose' = sim.pose /\ simWorld' = sim.world
           /\ pose' = b.pose /\ world' = b.world
           /\ parted' = parted \cup sim.why \cup
                        IF plan[next].skill \in Able[r] THEN {} ELSE {"unable"}
           /\ unreal' = (unreal \/ (Succeeds(sim, b) /\ ~sim.did))
    BY <1>3
  <1>5. r \in Robot /\ Shapes
    BY <1>3, ChoiceTyped DEF TypeInv
  <1>6. ASSUME parted' \cap {"safe", "unable"} = {}
        PROVE  Matched /\ Alike(sim, b)
    <2>1. /\ parted \cap {"safe", "unable"} = {}
          /\ "safe" \notin sim.why /\ plan[next].skill \in Able[r]
      BY <1>4, <1>6
    <2>2. Matched
      BY <2>1 DEF Matching
    <2>3. QED
      BY <1>1, <1>2, <1>5, <2>1, <2>2, AlikeSkill
  <1>7. ASSUME parted' = {}
        PROVE  ~unreal' /\ RoverMatched'
    <2>1. parted = {} /\ sim.why = {}
      BY <1>4, <1>7
    <2>2. ~unreal /\ RoverMatched
      BY <2>1 DEF Matching
    <2>3. RoverMatch(sim.pose, b.pose) /\ (~sim.raised /\ b.ok => sim.did)
      BY <1>6, <1>7, <2>1, <2>2 DEF Alike
    <2> HIDE DEF b
    <2>4. RoverMatched'
      BY <1>4, <2>3 DEF RoverMatched
    <2>5. QED
      BY <1>4, <2>2, <2>3, <2>4 DEF Succeeds
  <1>8. ASSUME parted' \cap {"safe", "unable"} = {}
        PROVE  Matched'
    <2> HIDE DEF b
    <2>1. ArmMatch(sim.pose, sim.world, b.pose, b.world)
      BY <1>6, <1>8 DEF Alike
    <2>2. QED
      BY <1>4, <2>1 DEF Matched
  <1>9. QED
    BY <1>7, <1>8 DEF Matching

(* Nothing else moves anything, in either record.                          *)
LEMMA MatchingElse ==
    ASSUME Matching, [FactoryNext]_factoryVars, ~Attempt
    PROVE  Matching'
  <1>1. UNCHANGED <<pose, world, simPose, simWorld, parted, unreal>>
    <2>1. ASSUME NEW words \in Commands, Plan(words)
          PROVE  UNCHANGED <<pose, world, simPose, simWorld, parted, unreal>>
      BY <2>1 DEF Plan, simVars
    <2>2. ASSUME NEW r \in Robot, Sideline(r)
          PROVE  UNCHANGED <<pose, world, simPose, simWorld, parted, unreal>>
      BY <2>2 DEF Sideline, simVars
    <2>3. CASE Start
      BY <2>3 DEF Start, simVars
    <2>4. CASE Beat \/ Disconnect \/ Restore \/ UNCHANGED factoryVars
      BY <2>4 DEF Beat, Disconnect, Restore, factoryVars, brainVars, simVars, histVars
    <2>5. QED
      BY <2>1, <2>2, <2>3, <2>4 DEF FactoryNext
  <1>2. QED
    BY <1>1 DEF Matching, Matched, RoverMatched

(* The two records start alike.                                            *)
LEMMA MatchingInit == FactoryInit => Matching
  <1> SUFFICES ASSUME FactoryInit PROVE Matching
    OBVIOUS
  <1>1. DOMAIN simPose = Robot /\ pose = Home /\ simPose = Home /\ ~unreal
    BY DEF FactoryInit, Home, Robot
  <1>2. Home["ugv"] \in Spot /\ Within(Home["ugv"], Home["ugv"], 3)
    BY DEF Home, Spot, Within
  <1>3. \A o \in Object : /\ world[o].holder = Nobody /\ simWorld[o].holder = Nobody
                          /\ simWorld[o].at = world[o].at
    BY DEF FactoryInit
  <1>4. QED
    BY <1>1, <1>2, <1>3 DEF Matching, Matched, RoverMatched, ArmMatch, RoverMatch

(* Alike records agree.                                                    *)
LEMMA MatchingAgree ==
    ASSUME TypeInv, Matching
    PROVE  Agree
  <1>1. ASSUME parted = {}
        PROVE  /\ ~unreal
               /\ simPose["ugv"] # Astray /\ Within(simPose["ugv"], pose["ugv"], 3)
    BY <1>1, FactoryAssumption DEF Matching, RoverMatched, RoverMatch
  <1>2. ASSUME parted \cap {"safe", "unable"} = {}
        PROVE  ArmMatch(simPose, simWorld, pose, world)
    BY <1>2 DEF Matching, Matched
  <1>3. ASSUME parted \cap {"safe", "unable"} = {}, NEW o \in Object
        PROVE  Within(simWorld[o].at, world[o].at, 1)
    <2>1. CASE world[o].holder = Nobody
      <3>1. simWorld[o].at = world[o].at /\ world[o].at \in Int \X Int
        BY <1>2, <1>3, <2>1 DEF ArmMatch, TypeInv, Shapes, Item, Spot
      <3>2. QED
        BY <3>1 DEF Within
    <2>2. CASE world[o].holder # Nobody
      <3>1. world[o].at = Home["arm"] /\ simWorld[o].at = Grip
        BY <1>2, <1>3, <2>2 DEF ArmMatch
      <3>2. QED
        BY <3>1 DEF Within, Grip, Home
    <2>3. QED
      BY <2>1, <2>2
  <1>4. ASSUME parted \cap {"safe", "unable"} = {}
        PROVE  /\ simPose["arm"] = pose["arm"]
               /\ \A o \in Object : simWorld[o].holder = world[o].holder
    BY <1>2, <1>4 DEF ArmMatch
  <1>5. QED
    BY <1>1, <1>3, <1>4 DEF Agree

AgreeInv == TypeInv /\ Matching

(* For every set of commands and of model plans: until a body in safe      *)
(* state is sent or one that cannot do the step, the brain's and the       *)
(* simulator's records of the arm and of the objects agree, whatever       *)
(* navigations end short and wherever searches lead; while these do not    *)
(* happen either, the rover is where both believe and no step is reported  *)
(* that was not done.                                                      *)
THEOREM FactoryAgree == FactorySpec => []Agree
  <1>1. FactoryInit => AgreeInv
    BY InitTyped, MatchingInit DEF AgreeInv
  <1>2. AgreeInv /\ [FactoryNext]_factoryVars => AgreeInv'
    <2> SUFFICES ASSUME AgreeInv, [FactoryNext]_factoryVars PROVE AgreeInv'
      OBVIOUS
    <2>1. TypeInv'
      BY NextTyped DEF AgreeInv
    <2>2. Matching'
      BY MatchingAttempt, MatchingElse DEF AgreeInv
    <2>3. QED
      BY <2>1, <2>2 DEF AgreeInv
  <1>3. AgreeInv => Agree
    BY MatchingAgree DEF AgreeInv
  <1> HIDE DEF AgreeInv, Agree, FactoryInit, FactoryNext, factoryVars
  <1>4. QED
    BY <1>1, <1>2, <1>3, PTL DEF FactorySpec

-----------------------------------------------------------------------------
(***************************************************************************)
(* Completion                                                              *)
(***************************************************************************)
RuledSkill == {"query_world", "find_object", "navigate_to", "inspect",
               "analyze_observation", "arm_pick", "report_status"}

(* A plan as the rules make it: it leaves objects and places to the        *)
(* engine, drives to what it inspects right before, and does not inspect   *)
(* after a grasp.                                                          *)
RuledPlan(rules) ==
    \A i \in 1 .. Len(rules) :
        /\ rules[i].skill \in RuledSkill
        /\ rules[i].object = NoObject /\ rules[i].at = NoPlace
        /\ rules[i].skill = "inspect" =>
              /\ 1 < i
              /\ rules[i - 1].skill = "navigate_to"
              /\ rules[i - 1].class = rules[i].class
        /\ rules[i].skill = "arm_pick" =>
              \A j \in i + 1 .. Len(rules) : rules[j].skill # "inspect"

(* Every plan of the rules is such a plan.                                 *)
LEMMA RulesRuled ==
    ASSUME NEW words
    PROVE  RuledPlan(Rules(words))
  <1> DEFINE t == Target(words)
             query == Ruled("query_world", t)
             find == Ruled("find_object", t)
             drive == Ruled("navigate_to", t)
             inspect == Ruled("inspect", t)
             analyze == Ruled("analyze_observation", t)
             pick == Ruled("arm_pick", Second(words))
             report == Ruled("report_status", "none")
  <1>1. /\ query.skill = "query_world" /\ find.skill = "find_object"
        /\ drive.skill = "navigate_to" /\ inspect.skill = "inspect"
        /\ analyze.skill = "analyze_observation" /\ pick.skill = "arm_pick"
        /\ report.skill = "report_status" /\ drive.class = inspect.class
        /\ \A step \in {query, find, drive, inspect, analyze, pick, report} :
              step.object = NoObject /\ step.at = NoPlace
    BY DEF Ruled, TaskStep
  <1>2. \A step \in {query, find, drive, inspect, analyze, pick, report} :
           step.skill \in RuledSkill
    BY <1>1 DEF RuledSkill
  <1>3. \/ Rules(words) = <<report>>
        \/ Rules(words) = <<drive, inspect, analyze, report>>
        \/ Rules(words) = <<pick, report>>
        \/ Rules(words) = <<drive, inspect, analyze, pick, report>>
        \/ Rules(words) = <<query, find, report>>
        \/ Rules(words) = <<query, find, drive, inspect, analyze, report>>
        \/ Rules(words) = <<query, find, drive, inspect, analyze, pick, report>>
    BY RulesListed
  <1> HIDE DEF query, find, drive, inspect, analyze, pick, report
  <1>4. RuledPlan(<<report>>)
    <2> DEFINE p == <<report>>
    <2>1. Len(p) = 1 /\ 1 .. 1 = {1}
      BY SMT
    <2>2. p[1] = report
      OBVIOUS
    <2> HIDE DEF p
    <2>3. QED
      BY <1>1, <1>2, <2>1, <2>2 DEF RuledPlan, p
  <1>5. RuledPlan(<<drive, inspect, analyze, report>>)
    <2> DEFINE p == <<drive, inspect, analyze, report>>
    <2>1. Len(p) = 4 /\ 1 .. 4 = {1, 2, 3, 4}
      BY SMT
    <2>2. p[1] = drive /\ p[2] = inspect /\ p[3] = analyze /\ p[4] = report
      OBVIOUS
    <2> HIDE DEF p
    <2>3. QED
      BY <1>1, <1>2, <2>1, <2>2 DEF RuledPlan, p
  <1>6. RuledPlan(<<pick, report>>)
    <2> DEFINE p == <<pick, report>>
    <2>1. Len(p) = 2 /\ 1 .. 2 = {1, 2}
      BY SMT
    <2>2. p[1] = pick /\ p[2] = report
      OBVIOUS
    <2> HIDE DEF p
    <2>3. QED
      BY <1>1, <1>2, <2>1, <2>2 DEF RuledPlan, p
  <1>7. RuledPlan(<<drive, inspect, analyze, pick, report>>)
    <2> DEFINE p == <<drive, inspect, analyze, pick, report>>
    <2>1. Len(p) = 5 /\ 1 .. 5 = {1, 2, 3, 4, 5}
      BY SMT
    <2>2. p[1] = drive /\ p[2] = inspect /\ p[3] = analyze /\ p[4] = pick /\ p[5] = report
      OBVIOUS
    <2> HIDE DEF p
    <2>3. QED
      BY <1>1, <1>2, <2>1, <2>2 DEF RuledPlan, p
  <1>8. RuledPlan(<<query, find, report>>)
    <2> DEFINE p == <<query, find, report>>
    <2>1. Len(p) = 3 /\ 1 .. 3 = {1, 2, 3}
      BY SMT
    <2>2. p[1] = query /\ p[2] = find /\ p[3] = report
      OBVIOUS
    <2> HIDE DEF p
    <2>3. QED
      BY <1>1, <1>2, <2>1, <2>2 DEF RuledPlan, p
  <1>9. RuledPlan(<<query, find, drive, inspect, analyze, report>>)
    <2> DEFINE p == <<query, find, drive, inspect, analyze, report>>
    <2>1. Len(p) = 6 /\ 1 .. 6 = {1, 2, 3, 4, 5, 6}
      BY SMT
    <2>2. p[1] = query /\ p[2] = find /\ p[3] = drive /\ p[4] = inspect /\ p[5] = analyze /\ p[6] = report
      OBVIOUS
    <2> HIDE DEF p
    <2>3. QED
      BY <1>1, <1>2, <2>1, <2>2 DEF RuledPlan, p
  <1>10. RuledPlan(<<query, find, drive, inspect, analyze, pick, report>>)
    <2> DEFINE p == <<query, find, drive, inspect, analyze, pick, report>>
    <2>1. Len(p) = 7 /\ 1 .. 7 = {1, 2, 3, 4, 5, 6, 7}
      BY SMT
    <2>2. p[1] = query /\ p[2] = find /\ p[3] = drive /\ p[4] = inspect /\ p[5] = analyze /\ p[6] = pick /\ p[7] = report
      OBVIOUS
    <2> HIDE DEF p
    <2>3. QED
      BY <1>1, <1>2, <2>1, <2>2 DEF RuledPlan, p
  <1>11. QED
    BY <1>3, <1>4, <1>5, <1>6, <1>7, <1>8, <1>9, <1>10

(* What makes step i of a plan succeed when its turn comes.                *)
Fit(i) ==
    /\ plan[i].skill \in RuledSkill
    /\ plan[i].skill = "find_object" => OfClass(plan[i].class) # {}
    /\ plan[i].skill = "navigate_to" => plan[i].at \in Spot
    /\ plan[i].skill \in {"inspect", "analyze_observation", "arm_pick"} =>
          plan[i].object \in Object
    /\ plan[i].skill = "arm_pick" =>
          /\ status["arm"] = "IDLE"
          /\ Within(world[plan[i].object].at, Home["arm"], 30)
          /\ \A j \in i + 1 .. Len(plan) : plan[j].skill # "inspect"
    /\ plan[i].skill = "inspect" =>
          /\ 1 < i /\ plan[i].at = NoPlace
          /\ plan[i - 1].skill = "navigate_to"
          /\ plan[i - 1].at = world[plan[i].object].at
          /\ i = next => pose["ugv"] = plan[i - 1].at

Fitting ==
    phase = "running" /\ promised /\ surprised = {} =>
        \A i \in next .. Len(plan) : Fit(i)

(* What the engine fills into a step of the rules, about a thing that is   *)
(* there.                                                                  *)
LEMMA RuledResolved ==
    ASSUME Shapes, NEW step \in Step, step.object = NoObject, step.at = NoPlace,
           FirstOf(OfClass(step.class)) # NoObject
    PROVE  /\ OfClass(step.class) # {}
           /\ Resolve(step).class = step.class
           /\ step.skill \notin {"query_world", "find_object"} =>
                 /\ Resolve(step).object = FirstOf(OfClass(step.class))
                 /\ Resolve(step).object \in Object
                 /\ Resolve(step).at = IF step.skill = "navigate_to"
                                       THEN world[FirstOf(OfClass(step.class))].at
                                       ELSE NoPlace
  <1> DEFINE o == FirstOf(OfClass(step.class))
             res == [step EXCEPT
                        !.object = IF @ = NoObject THEN o ELSE @,
                        !.at = IF @ = NoPlace /\ step.skill = "navigate_to"
                               THEN world[o].at ELSE @]
  <1>1. OfClass(step.class) # {}
    BY DEF FirstOf
  <1>2. OfClass(step.class) \in SUBSET Object
    BY DEF OfClass
  <1>3. o \in Object
    BY <1>1, <1>2, FirstTyped
  <1>4. CASE step.skill \in {"query_world", "find_object"}
    BY <1>1, <1>4 DEF Resolve
  <1>5. CASE step.skill \notin {"query_world", "find_object"}
    <2>1. Resolve(step) = res
      BY <1>5 DEF Resolve
    <2> HIDE DEF o
    <2>2. /\ res.class = step.class /\ res.object = o
          /\ res.at = IF step.skill = "navigate_to" THEN world[o].at ELSE NoPlace
      BY DEF Step
    <2> HIDE DEF res
    <2>3. QED
      BY <1>1, <1>3, <2>1, <2>2 DEF o
  <1>6. QED
    BY <1>4, <1>5

(* Validation and the promise make every step fit.                         *)
LEMMA FitStart ==
    ASSUME TypeInv, Ruling, Start, promised', phase' = "running"
    PROVE  Fitting'
  <1>1. /\ plan \in Seq(Step) /\ Shapes /\ promised /\ Promising /\ next' = 1
        /\ \A i \in DOMAIN plan : Valid(plan[i])
        /\ plan' = [i \in DOMAIN plan |-> Resolve(plan[i])]
        /\ world' = world /\ status' = status
    BY DEF Start, TypeInv, Shapes
  <1>2. DOMAIN plan = 1 .. Len(plan) /\ Len(plan) \in Nat
    BY <1>1
  <1>3. Len(plan') = Len(plan) /\ \A i \in 1 .. Len(plan) : plan'[i] = Resolve(plan[i])
    BY <1>1, <1>2
  <1>4. RuledPlan(plan)
    BY <1>1, RulesRuled DEF Ruling, Start
  <1>5. \A i \in 1 .. Len(plan) :
           /\ plan[i] \in Step /\ plan'[i].skill = plan[i].skill
           /\ plan[i].object = NoObject /\ plan[i].at = NoPlace
           /\ plan[i].skill \in RuledSkill
    BY <1>1, <1>3, <1>4, ResolveTyped, ElementOfSeq DEF RuledPlan
  <1>6. ASSUME NEW i \in 1 .. Len(plan), plan[i].skill # "report_status"
        PROVE  LET o == FirstOf(OfClass(plan[i].class)) IN
               /\ OfClass(plan[i].class) # {}
               /\ plan'[i].class = plan[i].class
               /\ plan[i].skill \notin {"query_world", "find_object"} =>
                     /\ plan'[i].object = o /\ o \in Object
                     /\ plan'[i].at = IF plan[i].skill = "navigate_to"
                                      THEN world[o].at ELSE NoPlace
    <2>1. FirstOf(OfClass(plan[i].class)) # NoObject
      BY <1>1, <1>2, <1>6 DEF Promising
    <2>2. QED
      BY <1>1, <1>3, <1>5, <2>1, RuledResolved
  <1>7. ASSUME NEW i \in 1 .. Len(plan) PROVE Fit(i)'
    <2>1. CASE plan[i].skill \in {"query_world", "report_status"}
      BY <1>5, <2>1 DEF Fit, RuledSkill
    <2>2. CASE plan[i].skill = "find_object"
      BY <1>5, <1>6, <2>2 DEF Fit, RuledSkill
    <2>3. CASE plan[i].skill = "navigate_to"
      <3>1. plan'[i].at \in Spot
        BY <1>1, <1>6, <2>3 DEF Shapes, Item
      <3>2. QED
        BY <1>5, <2>3, <3>1 DEF Fit, RuledSkill
    <2>4. CASE plan[i].skill = "analyze_observation"
      BY <1>5, <1>6, <2>4 DEF Fit, RuledSkill
    <2>5. CASE plan[i].skill = "arm_pick"
      <3>1. status["arm"] = "IDLE"
        <4>1. Offered("arm_pick") # {}
          BY <1>1, <1>2, <2>5 DEF Valid
        <4>2. PICK r \in Robot : status[r] = "IDLE" /\ "arm_pick" \in Able[r]
          BY <4>1 DEF Offered
        <4>3. r = "arm"
          BY <4>2, AbleBody
        <4>4. QED
          BY <4>2, <4>3
      <3>2. Within(world[FirstOf(OfClass(plan[i].class))].at, Home["arm"], 30)
        BY <1>1, <1>2, <2>5 DEF Promising
      <3>3. \A j \in i + 1 .. Len(plan) : plan[j].skill # "inspect"
        BY <1>4, <2>5 DEF RuledPlan
      <3>4. \A j \in i + 1 .. Len(plan') : plan'[j].skill # "inspect"
        BY <1>2, <1>3, <1>5, <3>3
      <3>5. QED
        BY <1>1, <1>5, <1>6, <2>5, <3>1, <3>2, <3>4 DEF Fit, RuledSkill
    <2>6. CASE plan[i].skill = "inspect"
      <3>1. /\ 1 < i /\ plan[i - 1].skill = "navigate_to"
            /\ plan[i - 1].class = plan[i].class
        BY <1>4, <2>6 DEF RuledPlan
      <3>2. i - 1 \in 1 .. Len(plan)
        BY <1>2, <3>1
      <3>3. plan'[i - 1].at = world[FirstOf(OfClass(plan[i].class))].at
        BY <1>6, <3>1, <3>2
      <3>4. plan'[i - 1].skill = "navigate_to"
        BY <1>5, <3>1, <3>2
      <3>5. /\ plan'[i].object = FirstOf(OfClass(plan[i].class))
            /\ plan'[i].object \in Object /\ plan'[i].at = NoPlace
        BY <1>6, <2>6
      <3>6. plan'[i].skill = "inspect"
        BY <1>5, <2>6
      <3>7. next' = 1 /\ world' = world
        BY <1>1
      <3>8. QED
        BY <3>1, <3>3, <3>4, <3>5, <3>6, <3>7 DEF Fit, RuledSkill
    <2>7. QED
      BY <1>5, <2>1, <2>2, <2>3, <2>4, <2>5, <2>6 DEF RuledSkill
  <1>8. QED
    BY <1>1, <1>3, <1>7 DEF Fitting

(* A ride raises nothing.                                                  *)
LEMMA RideQuiet ==
    ASSUME NEW r, NEW place, NEW out \in Ride(r, place)
    PROVE  ~out.raised
  <1>1. CASE At(r, place)
    BY <1>1, SimStill DEF Ride
  <1>2. CASE ~At(r, place)
    <2>1. PICK q \in Stops(r, place), s \in [Robot -> BOOLEAN] : out = Rode(r, place, q, s)
      BY <1>2 DEF Ride
    <2>2. QED
      BY <2>1, SimRode
  <1>3. QED
    BY <1>1, <1>2

(* A search raises nothing, either.                                        *)
LEMMA FindQuiet ==
    ASSUME NEW r, NEW class, NEW out \in SimFind(r, class)
    PROVE  ~out.raised
  <1>1. CASE OfClass(class) = {}
    BY <1>1, SimStill DEF SimFind
  <1>2. CASE OfClass(class) # {}
    <2>1. \E o \in Nearest(r, class) :
             out \in LET p == simWorld[o].at
                        stop == <<IF p[1] > 0 THEN p[1] - 20 ELSE p[1] + 20, p[2]>> IN
                    {[u EXCEPT !.why = IF stop = Standoff(class) THEN @
                                       ELSE @ \cup {"standoff"}] : u \in Ride(r, stop)}
      BY <1>2, Zenon DEF SimFind
    <2>2. PICK stop, u : u \in Ride(r, stop) /\
             out = [u EXCEPT !.why = IF stop = Standoff(class) THEN u.why
                                     ELSE u.why \cup {"standoff"}]
      BY <2>1
    <2>3. out.raised = u.raised
      BY <2>2, RideFields
    <2>4. QED
      BY <2>2, <2>3, RideQuiet
  <1>3. QED
    BY <1>1, <1>2

(* The simulator raises an exception only for a place that is missing.     *)
LEMMA SimQuiet ==
    ASSUME NEW r, NEW step, step.skill # "arm_place",
           step.skill = "navigate_to" => Where(step) # NoPlace,
           NEW out \in SimSkill(r, step)
    PROVE  ~out.raised
  <1>1. CASE step.skill \notin Bodily \cup {"wait"}
    BY <1>1, SimStill DEF SimSkill
  <1>2. CASE step.skill \in Bodily \cup {"wait"} /\ safe[r]
    <2>1. out = [SimFail EXCEPT !.did = step.skill = "wait", !.why = {"safe"}]
      BY <1>2 DEF SimSkill
    <2>2. QED
      BY <2>1 DEF SimFail, SimSame
  <1>3. CASE step.skill \in Bodily \cup {"wait"} /\ ~safe[r]
    <2>1. CASE step.skill = "navigate_to"
      <3>1. out \in Ride(r, Where(step))
        BY <1>3, <2>1 DEF SimSkill
      <3>2. QED
        BY <3>1, RideQuiet
    <2>2. CASE step.skill = "inspect"
      <3>1. out = SimFail \/ out \in SimInspect(r, step.object)
        BY <1>3, <2>2 DEF SimSkill
      <3>2. out = SimFail \/ \E s \in [Robot -> BOOLEAN] : out = [SimSame EXCEPT !.safe = s]
        BY <3>1 DEF SimInspect
      <3>3. QED
        BY <3>2, SimStill, SimTurned
    <2>3. CASE step.skill = "arm_pick"
      <3>1. out = SimFail \/ out \in SimPick(r, step.object)
        BY <1>3, <2>3 DEF SimSkill
      <3>2. out = SimFail \/ out = Taken(step.object, [at |-> Gripper(r), holder |-> r])
        BY <3>1 DEF SimPick, Taken
      <3>3. ~SimFail.raised /\ ~Taken(step.object, [at |-> Gripper(r), holder |-> r]).raised
        BY SimStill, SimBecame
      <3>4. QED
        BY <3>2, <3>3
    <2>4. CASE step.skill = "find_object"
      <3>1. out \in SimFind(r, step.class)
        BY <1>3, <2>4 DEF SimSkill
      <3>2. QED
        BY <3>1, FindQuiet
    <2>5. CASE step.skill = "wait"
      <3>1. \E s \in [Robot -> BOOLEAN] : out = [SimSame EXCEPT !.safe = s]
        BY <1>3, <2>5 DEF SimSkill
      <3>2. QED
        BY <3>1, SimTurned
    <2>6. QED
      BY <1>3, <2>1, <2>2, <2>3, <2>4, <2>5 DEF Bodily
  <1>4. QED
    BY <1>1, <1>2, <1>3

(* Who grasps, while the arm is in service.                                *)
LEMMA ArmChosen ==
    ASSUME NEW step, step.skill = "arm_pick", status["arm"] = "IDLE"
    PROVE  Choice(step) = {"arm"}
  <1>1. Offered(step.skill) = {"arm"}
    BY DEF Offered, Able, Anyone, Robot
  <1>2. Robot # {"arm"}
    BY DEF Robot
  <1>3. QED
    BY <1>1, <1>2 DEF Choice

(* Who inspects is close enough: the arm is not chosen for what is more    *)
(* than 3 m away, and the rover has driven there.                          *)
LEMMA InspectorNear ==
    ASSUME Shapes, NEW step, step.skill = "inspect", step.at = NoPlace,
           step.object \in Object, status["ugv"] = "IDLE",
           pose["ugv"] = world[step.object].at, NEW r \in Choice(step)
    PROVE  Within(world[step.object].at, pose[r], 60)
  <1> DEFINE at == world[step.object].at
  <1>1. at \in Spot /\ pose["arm"] \in Spot
    BY DEF Shapes, Item, Robot
  <1>2. Where(step) = at
    BY FactoryAssumption DEF Where
  <1>3. at \notin {NoPlace, Null}
    BY <1>1, FactoryAssumption
  <1>4. "ugv" \in Offered(step.skill)
    BY DEF Offered, Able, Robot
  <1>5. CASE r = "ugv"
    BY <1>1, <1>5 DEF Within, Spot
  <1>6. CASE r # "ugv"
    <2>1. /\ r \in Offered(step.skill) /\ Offered(step.skill) = Robot /\ r = "arm"
          /\ ~Distant(step)
      <3>1. r \in Offered(step.skill)
        BY <1>4, <1>6 DEF Choice
      <3>2. r = "arm"
        BY <1>6, <3>1 DEF Offered, Robot
      <3>3. Offered(step.skill) = Robot
        BY <1>4, <3>1, <3>2 DEF Offered, Robot
      <3>4. ~Distant(step)
        BY <1>4, <1>6, <3>3 DEF Choice
      <3>5. QED
        BY <3>1, <3>2, <3>3, <3>4
    <2>2. Within(pose["arm"], at, 60)
      BY <1>2, <1>3, <2>1 DEF Distant
    <2>3. QED
      BY <1>1, <2>1, <2>2 DEF Within, Spot
  <1>7. QED
    BY <1>5, <1>6

(* A change to an object succeeds.                                         *)
LEMMA Changed ==
    ASSUME NEW o, NEW item
    PROVE  Becomes(o, item).ok /\ ~Becomes(o, item).escapes
  BY BrainBecame

(* A step that fits succeeds.                                              *)
LEMMA FitSucceeds ==
    ASSUME ArmInv, phase = "running", surprised = {}, Fit(next),
           NEW r \in Choice(plan[next]), NEW sim \in SimSkill(r, plan[next])
    PROVE  LET b == BrainSkill(r, plan[next]) IN b.ok /\ ~b.escapes /\ ~sim.raised
  <1> DEFINE step == plan[next]
             b == BrainSkill(r, step)
  <1>1. /\ Shapes /\ next \in 1 .. Len(plan) /\ plan \in Seq(Step)
        /\ "ugv" \notin surprised /\ pose["arm"] = Home["arm"]
    BY DEF ArmInv, TypeInv, TypeOK, Shapes, FixedArm
  <1>2. step.skill \in RuledSkill
    BY DEF Fit
  <1>3. NoPlace \notin Spot /\ NoObject \notin Object
    BY FactoryAssumption
  <1> HIDE DEF b
  <1>4. ~sim.raised
    <2>1. step.skill = "navigate_to" => Where(step) # NoPlace
      BY <1>3 DEF Fit, Where
    <2>2. step.skill # "arm_place"
      BY <1>2 DEF RuledSkill
    <2>3. QED
      BY <2>1, <2>2, SimQuiet
  <1>5. b.ok /\ ~b.escapes
    <2>1. CASE step.skill \in {"query_world", "report_status"}
      <3>1. b = Same
        BY <2>1 DEF b, BrainSkill
      <3>2. QED
        BY <3>1, BrainStill
    <2>2. CASE step.skill = "find_object"
      <3>1. b = Moves(r, Standoff(step.class))
        BY <2>2 DEF b, BrainSkill, Fit
      <3>2. Moves(r, Standoff(step.class)).ok /\ ~Moves(r, Standoff(step.class)).escapes
        BY BrainMoved
      <3>3. QED
        BY <3>1, <3>2
    <2>3. CASE step.skill = "navigate_to"
      <3>1. b = Moves(r, Where(step))
        BY <1>3, <2>3 DEF b, BrainSkill, Fit, Where
      <3>2. Moves(r, Where(step)).ok /\ ~Moves(r, Where(step)).escapes
        BY BrainMoved
      <3>3. QED
        BY <3>1, <3>2
    <2>4. CASE step.skill = "analyze_observation"
      <3>1. b = Analyze(step.object)
        BY <1>3, <2>4 DEF b, BrainSkill, Fit
      <3>2. Analyze(step.object).ok /\ ~Analyze(step.object).escapes
        BY Changed DEF Analyze
      <3>3. QED
        BY <3>1, <3>2
    <2>5. CASE step.skill = "arm_pick"
      <3>1. r = "arm"
        BY <2>5, ArmChosen DEF Fit
      <3>2. b = Pick("arm", step.object)
        BY <1>3, <2>5, <3>1 DEF b, BrainSkill, Fit
      <3>3. Within(world[step.object].at, pose["arm"], 30)
        BY <1>1, <2>5 DEF Fit
      <3>4. Pick("arm", step.object).ok /\ ~Pick("arm", step.object).escapes
        BY <3>3, Changed DEF Pick
      <3>5. QED
        BY <3>2, <3>4
    <2>6. CASE step.skill = "inspect"
      <3>1. /\ 1 < next /\ plan[next - 1].skill = "navigate_to" /\ step.at = NoPlace
            /\ step.object \in Object /\ pose["ugv"] = world[step.object].at
        BY <1>1, <2>6 DEF Fit
      <3>2. status["ugv"] = "IDLE"
        <4>1. next - 1 \in 1 .. Len(plan)
          BY <1>1, <3>1
        <4>2. QED
          BY <1>1, <3>1, <4>1 DEF ArmInv, Manned, Moving
      <3>3. Within(world[step.object].at, pose[r], 60)
        BY <1>1, <2>6, <3>1, <3>2, InspectorNear
      <3>4. b = Inspect(r, step.object)
        BY <1>3, <2>6, <3>1 DEF b, BrainSkill
      <3>5. Inspect(r, step.object).ok /\ ~Inspect(r, step.object).escapes
        BY <3>3, Changed DEF Inspect
      <3>6. QED
        BY <3>4, <3>5
    <2>7. QED
      BY <1>2, <2>1, <2>2, <2>3, <2>4, <2>5, <2>6 DEF RuledSkill
  <1>6. QED
    BY <1>4, <1>5 DEF b

(* A skill of the rules leaves objects where they are, except that a grasp *)
(* takes one to the robot.                                                 *)
LEMMA RuledPlaces ==
    ASSUME Shapes, NEW r \in Robot, NEW step \in Step, step.skill \in RuledSkill,
           NEW q \in Object
    PROVE  \/ BrainSkill(r, step).world[q].at = world[q].at
           \/ step.skill = "arm_pick" /\ BrainSkill(r, step).world[q].at = pose[r]
  <1> DEFINE b == BrainSkill(r, step)
             o == step.object
  <1>1. o \in Object \cup {NoObject}
    BY DEF Step
  <1>2. ASSUME NEW x \in Object PROVE world[x] \in Item
    BY DEF Shapes
  <1>3. ASSUME NEW x \in Object, NEW item
        PROVE  Becomes(x, item).world[q] = IF x = q THEN item ELSE world[q]
    <2>1. Becomes(x, item).world = [world EXCEPT ![x] = item]
      BY BrainBecame
    <2>2. QED
      BY <2>1 DEF Shapes
  <1>4. CASE step.skill \in {"query_world", "report_status"}
    <2>1. b = Same
      BY <1>4 DEF BrainSkill
    <2>2. QED
      BY <2>1, BrainStill
  <1>5. CASE step.skill \in {"find_object", "navigate_to"}
    <2>1. \/ b = Fail \/ b = Moves(r, Standoff(step.class)) \/ b = Moves(r, Where(step))
      BY <1>5 DEF BrainSkill
    <2> HIDE DEF b
    <2>2. ASSUME NEW place PROVE Moves(r, place).world = world
      BY BrainMoved
    <2>3. b.world = world
      BY <2>1, <2>2, BrainStill
    <2>4. QED
      BY <2>3 DEF b
  <1>6. CASE step.skill = "inspect"
    <2>1. CASE b = Fail
      BY <2>1, BrainStill
    <2>2. CASE b # Fail
      <3> DEFINE s == IF o \in Damaged THEN "DAMAGED" ELSE "INSPECTED"
                 item == [world[o] EXCEPT !.state = s, !.hot = (o \in Damaged)]
      <3>1. o \in Object /\ b = Becomes(o, item)
        BY <1>1, <1>6, <2>2 DEF BrainSkill, Inspect
      <3> HIDE DEF s
      <3>2. item.at = world[o].at
        BY <1>2, <3>1 DEF Item
      <3> HIDE DEF item, b, o
      <3>3. b.world[q] = IF o = q THEN item ELSE world[q]
        BY <1>3, <3>1
      <3>4. QED
        BY <3>2, <3>3 DEF b
    <2>3. QED
      BY <2>1, <2>2
  <1>7. CASE step.skill = "analyze_observation"
    <2>1. CASE b = Fail
      BY <2>1, BrainStill
    <2>2. CASE b # Fail
      <3> DEFINE s == IF world[o].hot \/ world[o].state = "DAMAGED" \/ o \in Damaged
                      THEN "DAMAGED" ELSE "INSPECTED"
                 item == [world[o] EXCEPT !.state = s]
      <3>1. o \in Object /\ b = Becomes(o, item)
        BY <1>1, <1>7, <2>2 DEF BrainSkill, Analyze
      <3> HIDE DEF s
      <3>2. item.at = world[o].at
        BY <1>2, <3>1 DEF Item
      <3> HIDE DEF item, b, o
      <3>3. b.world[q] = IF o = q THEN item ELSE world[q]
        BY <1>3, <3>1
      <3>4. QED
        BY <3>2, <3>3 DEF b
    <2>3. QED
      BY <2>1, <2>2
  <1>8. CASE step.skill = "arm_pick"
    <2>1. CASE b = Fail
      BY <2>1, BrainStill
    <2>2. CASE b # Fail
      <3> DEFINE item == [world[o] EXCEPT !.at = pose[r], !.holder = r, !.state = "HELD"]
      <3>1. o \in Object /\ b = Becomes(o, item)
        BY <1>1, <1>8, <2>2 DEF BrainSkill, Pick
      <3>2. item.at = pose[r]
        BY <1>2, <3>1 DEF Item
      <3> HIDE DEF item, b, o
      <3>3. b.world[q] = IF o = q THEN item ELSE world[q]
        BY <1>3, <3>1
      <3>4. QED
        BY <1>8, <3>2, <3>3 DEF b
    <2>3. QED
      BY <2>1, <2>2
  <1>9. QED
    BY <1>4, <1>5, <1>6, <1>7, <1>8 DEF RuledSkill

(* A step that fits is the last or leaves those after it fit.              *)
LEMMA FitAttempt ==
    ASSUME ArmInv, Fitting, Attempt
    PROVE  Fitting' /\ Completes'
  <1> SUFFICES ASSUME promised, surprised = {} PROVE Fitting' /\ Completes'
    BY DEF Attempt, Fitting, Completes
  <1>1. /\ TypeInv /\ Shapes /\ phase = "running" /\ plan \in Seq(Step)
        /\ next \in 1 .. Len(plan) /\ Len(plan) \in Nat
        /\ pose["arm"] = Home["arm"]
    BY DEF ArmInv, TypeInv, TypeOK, Shapes, Attempt, FixedArm
  <1>2. \A i \in next .. Len(plan) : Fit(i)
    BY <1>1 DEF Fitting
  <1>3. Fit(next) /\ plan[next] \in Step
    BY <1>1, <1>2, ElementOfSeq
  <1>4. PICK r \in Choice(plan[next]) : \E sim \in SimSkill(r, plan[next]) :
           /\ pose' = BrainSkill(r, plan[next]).pose
           /\ world' = BrainSkill(r, plan[next]).world
           /\ status' = [status EXCEPT ![r] = "IDLE"]
           /\ Outcome(plan[next], sim, BrainSkill(r, plan[next]))
    BY DEF Attempt
  <1> DEFINE b == BrainSkill(r, plan[next])
  <1>5. PICK sim \in SimSkill(r, plan[next]) :
           /\ pose' = b.pose /\ world' = b.world
           /\ status' = [status EXCEPT ![r] = "IDLE"]
           /\ Outcome(plan[next], sim, b)
    BY <1>4
  <1>6. b.ok /\ ~b.escapes /\ ~sim.raised
    BY <1>1, <1>3, FitSucceeds
  <1>7. r \in Robot
    BY <1>4, ChoiceTyped
  <1> HIDE DEF b
  <1>8. IF next = Len(plan) THEN phase' = "idle" /\ record' = "COMPLETED"
        ELSE next' = next + 1 /\ UNCHANGED <<phase, record, plan>>
    BY <1>5, <1>6 DEF Outcome, Succeeds, Close
  <1>9. Completes'
    BY <1>1, <1>8 DEF Completes
  <1>10. CASE next = Len(plan)
    BY <1>8, <1>9, <1>10 DEF Fitting
  <1>11. CASE next # Len(plan)
    <2>1. next' = next + 1 /\ plan' = plan
      BY <1>8, <1>11
    <2>2. status["arm"] = "IDLE" => status'["arm"] = "IDLE"
      BY <1>1, <1>5 DEF TypeInv, TypeOK
    <2>3. ASSUME NEW i \in next + 1 .. Len(plan), NEW q \in Object
          PROVE  /\ plan[i].skill = "inspect" => world'[q].at = world[q].at
                 /\ Within(world[q].at, Home["arm"], 30) => Within(world'[q].at, Home["arm"], 30)
      <3>1. \/ world'[q].at = world[q].at
            \/ plan[next].skill = "arm_pick" /\ world'[q].at = pose[r]
        BY <1>1, <1>3, <1>5, <1>7, RuledPlaces DEF Fit, b
      <3>2. CASE world'[q].at = world[q].at
        BY <3>2
      <3>3. CASE plan[next].skill = "arm_pick" /\ world'[q].at = pose[r]
        <4>1. r = "arm"
          BY <1>3, <1>4, <3>3, ArmChosen DEF Fit
        <4>2. Within(world'[q].at, Home["arm"], 30)
          BY <1>1, <3>3, <4>1 DEF Within, Home
        <4>3. plan[i].skill # "inspect"
          BY <1>3, <3>3 DEF Fit
        <4>4. QED
          BY <4>2, <4>3
      <3>4. QED
        BY <3>1, <3>2, <3>3
    <2>4. plan[next].skill = "navigate_to" => pose'["ugv"] = plan[next].at
      <3>1. SUFFICES ASSUME plan[next].skill = "navigate_to"
                     PROVE  pose'["ugv"] = plan[next].at
        OBVIOUS
      <3>2. status["ugv"] = "IDLE"
        BY <1>1, <3>1 DEF ArmInv, Manned, Moving
      <3>3. r = "ugv"
        BY <1>4, <3>1, <3>2, RoverChosen DEF Moving
      <3>4. plan[next].at \in Spot /\ NoPlace \notin Spot
        BY <1>3, <3>1, FactoryAssumption DEF Fit
      <3>5. b = Moves("ugv", plan[next].at)
        BY <3>1, <3>3, <3>4 DEF b, BrainSkill, Where
      <3>6. b.pose = [pose EXCEPT !["ugv"] = plan[next].at]
        BY <3>5, BrainMoved
      <3>7. QED
        BY <1>1, <1>5, <3>6 DEF Shapes, Robot
    <2>5. ASSUME NEW i \in next' .. Len(plan') PROVE Fit(i)'
      <3>1. i \in next + 1 .. Len(plan) /\ i \in next .. Len(plan)
        BY <1>1, <2>1
      <3>2. Fit(i)
        BY <1>2, <3>1
      <3>3. CASE plan[i].skill \notin {"arm_pick", "inspect"}
        BY <2>1, <3>2, <3>3 DEF Fit
      <3>4. CASE plan[i].skill = "arm_pick"
        <4>1. /\ plan[i].object \in Object /\ status["arm"] = "IDLE"
              /\ Within(world[plan[i].object].at, Home["arm"], 30)
          BY <3>2, <3>4 DEF Fit
        <4>2. Within(world'[plan[i].object].at, Home["arm"], 30)
          BY <2>3, <3>1, <4>1
        <4>3. QED
          BY <2>1, <2>2, <3>2, <3>4, <4>1, <4>2 DEF Fit
      <3>5. CASE plan[i].skill = "inspect"
        <4>1. /\ plan[i].object \in Object /\ plan[i - 1].skill = "navigate_to"
              /\ plan[i - 1].at = world[plan[i].object].at
          BY <3>2, <3>5 DEF Fit
        <4>2. world'[plan[i].object].at = world[plan[i].object].at
          BY <2>3, <3>1, <3>5, <4>1
        <4>3. i = next' => pose'["ugv"] = plan[i - 1].at
          <5>1. i = next' => i - 1 = next
            BY <1>1, <2>1
          <5>2. QED
            BY <2>4, <4>1, <5>1
        <4>4. QED
          BY <2>1, <3>2, <3>5, <4>1, <4>2, <4>3 DEF Fit
      <3>6. QED
        BY <3>3, <3>4, <3>5
    <2>6. Fitting'
      BY <2>5 DEF Fitting
    <2>7. QED
      BY <1>9, <2>6
  <1>12. QED
    BY <1>10, <1>11

DoneInv == ArmInv /\ Ruling /\ Fitting /\ Completes

(* The invariant is inductive.                                             *)
LEMMA DoneInductive ==
    ASSUME DoneInv, [FactoryNext]_factoryVars
    PROVE  DoneInv'
  <1>1. ArmInv' /\ Ruling'
    BY ArmInductive, RulingStays DEF DoneInv
  <1>2. Fitting' /\ Completes'
    <2>1. CASE Attempt
      BY <2>1, FitAttempt DEF DoneInv
    <2>2. CASE Start
      <3>1. CASE promised' /\ phase' = "running"
        <4>1. Fitting'
          BY <2>2, <3>1, FitStart DEF DoneInv, ArmInv
        <4>2. QED
          BY <3>1, <4>1 DEF Completes
      <3>2. CASE ~(promised' /\ phase' = "running")
        BY <2>2, <3>2 DEF Start, Fitting, Completes
      <3>3. QED
        BY <3>1, <3>2
    <2>3. ASSUME NEW words \in Commands, Plan(words) PROVE Fitting' /\ Completes'
      BY <2>3 DEF Plan, Fitting, Completes
    <2>4. ASSUME NEW r \in Robot, Sideline(r) PROVE Fitting' /\ Completes'
      <3>1. CASE phase = "running"
        <4>1. surprised' # {}
          BY <2>4, <3>1 DEF Sideline
        <4>2. QED
          BY <4>1 DEF Fitting, Completes
      <3>2. CASE phase # "running"
        BY <2>4, <3>2 DEF Sideline, DoneInv, Fitting, Completes
      <3>3. QED
        BY <3>1, <3>2
    <2>5. CASE Beat \/ Disconnect \/ Restore \/ UNCHANGED factoryVars
      <3>1. UNCHANGED <<phase, plan, next, record, status, pose, world, promised, surprised>>
        BY <2>5 DEF Beat, Disconnect, Restore, factoryVars, brainVars, histVars
      <3>2. QED
        BY <3>1 DEF DoneInv, Fitting, Fit, Completes
    <2>6. QED
      BY <2>1, <2>2, <2>3, <2>4, <2>5 DEF FactoryNext
  <1>3. QED
    BY <1>1, <1>2 DEF DoneInv

(* For every set of commands: a command planned by the rules, about things *)
(* that are there and within reach, that the validator lets pass is        *)
(* completed, whatever the bodies answer, unless a robot is put out of     *)
(* service meanwhile.                                                      *)
THEOREM FactoryCompletes == FactorySpec => []Completes
  <1>1. FactoryInit => DoneInv
    <2> SUFFICES ASSUME FactoryInit PROVE DoneInv
      OBVIOUS
    <2>1. Ruling /\ Fitting /\ Completes
      BY DEF FactoryInit, Ruling, Fitting, Completes
    <2>2. QED
      BY <2>1, ArmInitially DEF DoneInv
  <1>2. DoneInv /\ [FactoryNext]_factoryVars => DoneInv'
    BY DoneInductive
  <1>3. DoneInv => Completes
    BY DEF DoneInv
  <1> HIDE DEF DoneInv, Completes, FactoryInit, FactoryNext, factoryVars
  <1>4. QED
    BY <1>1, <1>2, <1>3, PTL DEF FactorySpec

-----------------------------------------------------------------------------
(***************************************************************************)
(* How long a plan can take                                                *)
(***************************************************************************)
(* The attempts that a running plan has left after the next one.           *)
Left == 3 * (Len(plan) - next) + (2 - tries)

ShortInv == TypeInv /\ Len(plan) <= 20

(* No plan has more than 20 steps.                                         *)
LEMMA ShortStays ==
    ASSUME ShortInv, [FactoryNext]_factoryVars
    PROVE  ShortInv'
  <1>1. TypeInv'
    BY NextTyped DEF ShortInv
  <1>2. plan \in Seq(Step) /\ Len(plan) \in Nat /\ Len(plan) <= 20
    BY LenProperties DEF ShortInv, TypeInv, Shapes
  <1>3. CASE plan' = <<>> \/ plan' = plan
    BY <1>1, <1>2, <1>3 DEF ShortInv
  <1>4. ASSUME NEW words \in Commands, Plan(words) PROVE ShortInv'
    <2>1. Len(plan') <= 20
      <3>1. Len(Rules(words)) <= 20
        <4>1. Len(Rules(words)) \in 1 .. 7
          BY RulesSkills
        <4>2. \A n \in 1 .. 7 : n <= 20
          OBVIOUS
        <4>3. QED
          BY <4>1, <4>2
      <3>2. ASSUME NEW p \in ModelPlans PROVE Len(p) <= 20
        <4>1. Len(p) \in 1 .. 20
          BY FactoryAssumption
        <4>2. \A n \in 1 .. 20 : n <= 20
          OBVIOUS
        <4>3. QED
          BY <4>1, <4>2
      <3>3. QED
        BY <1>4, <3>1, <3>2 DEF Plan
    <2>2. QED
      BY <1>1, <2>1 DEF ShortInv
  <1>5. CASE Start
    <2>1. plan' = <<>> \/ plan' = [i \in DOMAIN plan |-> Resolve(plan[i])]
      BY <1>5 DEF Start
    <2>2. CASE plan' = [i \in DOMAIN plan |-> Resolve(plan[i])]
      <3>1. Len(plan') = Len(plan)
        <4>1. DOMAIN plan = 1 .. Len(plan)
          BY <1>2
        <4>2. QED
          BY <1>2, <2>2, <4>1
      <3>2. QED
        BY <1>1, <1>2, <3>1 DEF ShortInv
    <2>3. QED
      BY <1>3, <2>1, <2>2
  <1>6. CASE Attempt
    <2>1. plan' = <<>> \/ plan' = plan
      BY <1>6 DEF Attempt, Outcome, Close, Again
    <2>2. QED
      BY <1>3, <2>1
  <1>7. ASSUME NEW r \in Robot, Sideline(r) PROVE ShortInv'
    BY <1>3, <1>7 DEF Sideline
  <1>8. CASE Beat \/ Disconnect \/ Restore \/ UNCHANGED factoryVars
    BY <1>3, <1>8 DEF Beat, Disconnect, Restore, factoryVars, brainVars
  <1>9. QED
    BY <1>4, <1>5, <1>6, <1>7, <1>8 DEF FactoryNext

Spent == phase' = "idle" \/ (phase' = "running" /\ Left' < Left)

(* An attempt that does not end the plan is one less.                      *)
LEMMA AttemptSpent ==
    ASSUME TypeInv, Attempt
    PROVE  Spent
  <1>1. /\ next \in Nat /\ tries \in Nat /\ tries <= 2 /\ Len(plan) \in Nat
        /\ phase = "running" /\ \A skill : Retries(skill) \in {0, 1, 2}
    BY LenProperties DEF TypeInv, TypeOK, Shapes, Attempt, Retries
  <1>2. \/ phase' = "idle"
        \/ UNCHANGED <<phase, plan>> /\ next' = next + 1 /\ tries' = 0
        \/ UNCHANGED <<phase, plan, next>> /\ tries' = tries + 1
    BY DEF Attempt, Outcome, Close, Again
  <1>3. QED
    BY <1>1, <1>2 DEF Spent, Left

FewLeft == phase = "running" => Left \in 0 .. 59

(* For every set of commands and of model plans: a running plan comes to   *)
(* its end within 60 attempts.  Each one ends it or lowers Left, which no  *)
(* other step can raise: retries are counted, and a step that succeeded is *)
(* not tried again.  This is what Ends rests on besides fairness.          *)
THEOREM FactoryAttempts ==
    FactorySpec => []FewLeft /\ [][Attempt => Spent]_factoryVars
  <1>1. FactoryInit => ShortInv
    <2> SUFFICES ASSUME FactoryInit PROVE ShortInv
      OBVIOUS
    <2>1. plan = <<>>
      BY DEF FactoryInit
    <2>2. QED
      BY <2>1, InitTyped DEF ShortInv
  <1>2. ShortInv /\ [FactoryNext]_factoryVars => ShortInv'
    BY ShortStays
  <1>3. ShortInv => FewLeft
    <2> SUFFICES ASSUME ShortInv, phase = "running" PROVE Left \in 0 .. 59
      BY DEF FewLeft
    <2>1. /\ plan \in Seq(Step) /\ Len(plan) <= 20
          /\ next \in 1 .. Len(plan) /\ tries \in 0 .. 2
      BY DEF ShortInv, TypeInv, TypeOK, Shapes
    <2>2. Len(plan) \in Nat
      BY <2>1, LenProperties
    <2>3. \A n \in Nat, k, t \in Int :
             n <= 20 /\ k \in 1 .. n /\ t \in 0 .. 2
                => 3 * (n - k) + (2 - t) \in 0 .. 59
      OBVIOUS
    <2>4. next \in Int /\ tries \in Int
      BY <2>1, <2>2
    <2>5. 3 * (Len(plan) - next) + (2 - tries) \in 0 .. 59
      <3> HIDE DEF Left
      <3>1. QED
        BY <2>1, <2>2, <2>3, <2>4, Zenon
    <2>6. QED
      BY <2>5 DEF Left
  <1>4. ShortInv /\ [FactoryNext]_factoryVars => [Attempt => Spent]_factoryVars
    BY AttemptSpent DEF ShortInv
  <1> HIDE DEF ShortInv, FewLeft, Spent, Attempt, FactoryInit, FactoryNext, factoryVars
  <1>5. QED
    BY <1>1, <1>2, <1>3, <1>4, PTL DEF FactorySpec
=============================================================================
