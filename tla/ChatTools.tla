-------------------------------- MODULE ChatTools -------------------------------
(* The tools that need the user's word, and what each of their actions must be   *)
(* given before it can be carried out (chat/surface/tool_calls.py).  A call is   *)
(* its tool, its action and the names of the arguments that are not blank; the   *)
(* sentences made for the thread are left out.                                   *)
LOCAL INSTANCE TLC

\* What an action needs, and of which arguments it needs at least one.
Needs(keys)          == [all |-> keys, some |-> {}]
OneOf(keys, choices) == [all |-> keys, some |-> choices]

TaskPlans == [update    |-> OneOf({"taskId"}, {"title", "status"}),
              archive   |-> Needs({"taskId"}),
              unarchive |-> Needs({"taskId"}),
              delete    |-> Needs({"taskId"})]

MemoPlans == [create |-> Needs({"taskId", "body"}),
              update |-> Needs({"memoId", "body"}),
              delete |-> Needs({"memoId"})]

RulePlans == [create     |-> Needs({"taskId", "anchorEventId", "name", "expectation"}),
              update     |-> Needs({"ruleId"}),
              delete     |-> Needs({"ruleId"}),
              approve    |-> Needs({"ruleId"}),
              reevaluate |-> Needs({"ruleId"})]

TagPlans == [create |-> Needs({"name"}),
             update |-> Needs({"tagId"}),
             delete |-> Needs({"tagId"}),
             assign |-> Needs({"taskId", "tagIds"})]

RecipePlans  == [a \in {"accept", "dismiss", "retire"} |-> Needs({"recipeId"})]
CleanupPlans == [a \in {"accept", "dismiss"} |-> Needs({"suggestionId"})]
JobPlans     == "" :> Needs({"kind", "input"})

\* Tools without actions have the one action "".
Plans ==
    [propose_task_write    |-> TaskPlans,
     propose_memo_write    |-> MemoPlans,
     propose_rule_write    |-> RulePlans,
     propose_tag_write     |-> TagPlans,
     propose_recipe_write  |-> RecipePlans,
     propose_cleanup_write |-> CleanupPlans,
     remember_fact         |-> "" :> Needs({"key", "content"}),
     enqueue_job           |-> JobPlans]

\* plan_chat_tool_call does not refuse the call.
Planned(call) ==
    /\ call.tool \in DOMAIN Plans
    /\ call.action \in DOMAIN Plans[call.tool]
    /\ LET plan == Plans[call.tool][call.action]
       IN  /\ plan.all \subseteq call.given
           /\ plan.some = {} \/ plan.some \cap call.given # {}
=================================================================================
