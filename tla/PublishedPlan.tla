---------------------------- MODULE PublishedPlan ----------------------------
(***************************************************************************)
(* What a production schedule promises to the people who work by it: the   *)
(* plan may be changed at will while it is a draft, only an acceptable     *)
(* plan is ever published, and from then on the plan stays as it was       *)
(* published while the schedule goes through its life.  Schedule.tla is    *)
(* shown to implement this specification.                                  *)
(***************************************************************************)
CONSTANTS
  Plans,       \* every plan that can be drawn up
  Acceptable,  \* the plans that may be published
  Blank        \* the plan of a new schedule

VARIABLES stage, plan

Draw ==
  /\ stage = "draft"
  /\ plan' \in Plans
  /\ UNCHANGED stage

Publish ==
  /\ stage = "draft"
  /\ plan \in Acceptable
  /\ stage' = "published"
  /\ UNCHANGED plan

Activate == stage = "published" /\ stage' = "active" /\ UNCHANGED plan

Complete == stage = "active" /\ stage' = "completed" /\ UNCHANGED plan

Cancel ==
  /\ stage \in {"draft", "published", "active"}
  /\ stage' = "cancelled"
  /\ UNCHANGED plan

Next == Draw \/ Publish \/ Activate \/ Complete \/ Cancel

Spec == stage = "draft" /\ plan = Blank /\ [][Next]_<<stage, plan>>
=============================================================================
