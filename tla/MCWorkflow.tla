----------------------------- MODULE MCWorkflow -----------------------------
(***************************************************************************)
(* Workflows on small instances: the planner on every dependency graph of  *)
(* four steps and on small context budgets, and the scheduler on a plan    *)
(* with two parallel steps.  The two share nothing but the plan, so a      *)
(* behaviour is about one of them (focus) and the other stands still.      *)
(***************************************************************************)
EXTENDS Planner, Scheduler, TLC
VARIABLE focus

CONSTANTS s1, s2, s3, s4, plan, implement, review

MCStepList == <<s1, s2, s3, s4>>
NoOverrides == [s \in StepIds |-> 0]

\* The depends_on lists of a step: each set of other steps; the first may repeat one.
Lists(s) == {SetToSeq(S) : S \in SUBSET (StepIds \ {s})}
Repeated(s) == {<<d, d>> : d \in StepIds \ {s}}

\* All graphs, with a self reference and an unknown step that Parse rejects.
MCGraphs ==
  {[dependsOn |-> d, override |-> NoOverrides, total |-> 0] :
     d \in {(s1 :> a) @@ (s2 :> b) @@ (s3 :> c) @@ (s4 :> e) :
             a \in Lists(s1) \cup Repeated(s1), b \in Lists(s2), c \in Lists(s3), e \in Lists(s4)}}
  \cup {[dependsOn |-> [s \in StepIds |-> IF s = s1 THEN <<x>> ELSE <<>>],
         override |-> NoOverrides, total |-> 0] : x \in {s1, NoStep}}

\* All budgets of a two-stage workflow; -1 is what Parse must reject.
MCBudgets ==
  {[dependsOn |-> [s \in StepIds |-> IF s = s4 THEN <<s1, s2>> ELSE <<>>],
    override |-> o, total |-> n] : o \in [StepIds -> -1..2], n \in -1..7}

MCCandidates == MCGraphs \cup MCBudgets

\* implement and review run in parallel after plan; review also refers to its
\* sibling, so whether it resolves depends on who is first.
MCStages == <<{plan}, {implement, review}>>
MCDependsOn == (plan :> {}) @@ (implement :> {plan}) @@ (review :> {plan})
MCOutputKey == (plan :> plan) @@ (implement :> implement) @@ (review :> NoName)
MCRefs == (plan :> {}) @@ (implement :> {plan}) @@ (review :> {plan, implement})

mcVars == <<plannerVars, vars, focus>>
AnyWorkflow == CHOOSE w \in Candidates : TRUE
MCInit ==
  /\ focus \in {"planner", "contention", "deletion"}
  /\ PlannerInit /\ Init
  /\ focus # "planner" => wf = AnyWorkflow

\* Either several runs contend for the slots, or one run is deleted meanwhile.
InFocus ==
  /\ focus = "contention" => UNCHANGED deleting
  /\ focus = "deletion" => Cardinality(minted') <= 1
  /\ focus # "planner" /\ UNCHANGED <<plannerVars, focus>>
MCNext ==
  \/ focus = "planner" /\ PlannerNext /\ UNCHANGED <<vars, focus>>
  \/ Next /\ InFocus

\* Scheduler's Fairness; the planner is sequential code and needs none.
MCSpec ==
  /\ MCInit /\ [][MCNext]_mcVars
  /\ WF_mcVars(PollAndExecute /\ InFocus)
  /\ \A g \in Goroutines : WF_mcVars(ExecuteRun(g) /\ InFocus)
=============================================================================
