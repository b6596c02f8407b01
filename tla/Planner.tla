------------------------------ MODULE Planner -------------------------------
(***************************************************************************)
(* The workflow planner (internal/planner/planner.go) and the context      *)
(* budget split (planner_context_budget.go, scheduler/context_budget.go):  *)
(* Parse's checks, ValidateDAG's colouring depth-first search with the     *)
(* recursion as a stack, Plan's Kahn waves, and allocateContextBudgets,    *)
(* one workflow at a time.                                                 *)
(*                                                                         *)
(* A workflow is a list of step ids; depends_on is a list too and may name *)
(* a step twice.  Only the order inside a stage, which runs in parallel,   *)
(* is left out: a stage is a set.                                          *)
(***************************************************************************)
EXTENDS Integers, Sequences, FiniteSets, SequencesExt

CONSTANTS
  StepList,   \* the steps of the workflow, in file order
  Candidates, \* workflow files: [dependsOn, override, total] records
  NoStep

VARIABLES
  wf,         \* the workflow at hand
  phase,      \* "parse", "dfs", "kahn", "rejected", "planned" or "failed"
  color, parent, stack, cycle,      \* ValidateDAG
  inDegree, queue, stages,          \* Plan
  allocation                        \* allocateContextBudgets

plannerVars == <<wf, phase, color, parent, stack, cycle, inDegree, queue, stages, allocation>>
dfsVars == <<color, parent, stack, cycle>>
kahnVars == <<inDegree, queue, stages>>

StepIds == Range(StepList)

ASSUME StepsAssumption == IsInjective(StepList) /\ NoStep \notin StepIds

-----------------------------------------------------------------------------
\* Parse: validate and validateContextBudget.

Overridden(w) == {s \in StepIds : w.override[s] > 0}
OverrideSum(w) == SumFunctionOnSet(w.override, Overridden(w))

ValidDependencies(w) ==
  \A s \in StepIds : \A d \in Range(w.dependsOn[s]) : d # s /\ d \in StepIds

ValidContextBudget(w) ==
  IF w.total > 0
  THEN OverrideSum(w) + Cardinality(StepIds \ Overridden(w)) <= w.total
  ELSE Overridden(w) = {}

Valid(w) ==
  /\ \A s \in StepIds : w.override[s] >= 0
  /\ w.total >= 0
  /\ ValidDependencies(w) /\ ValidContextBudget(w)

\* allocateContextBudgets: overrides verbatim, the rest split equally.
AllocateContextBudgets(w) ==
  LET remaining == Max({w.total - OverrideSum(w), 0})
      sharers == Cardinality(StepIds \ Overridden(w))
  IN [s \in StepIds |-> IF s \in Overridden(w) THEN w.override[s] ELSE remaining \div sharers]

-----------------------------------------------------------------------------
PlannerInit ==
  /\ wf \in Candidates
  /\ phase = "parse"
  /\ color = [s \in StepIds |-> "white"]
  /\ parent = [s \in StepIds |-> NoStep]
  /\ stack = <<>> /\ cycle = <<>>
  /\ inDegree = [s \in StepIds |-> 0] /\ queue = {} /\ stages = <<>>
  /\ allocation = [s \in StepIds |-> 0]

Parse ==
  /\ phase = "parse"
  /\ phase' = IF Valid(wf) THEN "dfs" ELSE "rejected"
  /\ UNCHANGED <<wf, dfsVars, kahnVars, allocation>>

\* Plan called without ValidateDAG, which its last check is there for.
SkipValidateDAG ==
  /\ phase = "parse" /\ Valid(wf)
  /\ phase' = "plan"
  /\ UNCHANGED <<wf, dfsVars, kahnVars, allocation>>

-----------------------------------------------------------------------------
\* ValidateDAG.  A frame is a step and the position in its depends_on list.

Frame(s) == [id |-> s, next |-> 1]
Top == stack[1]
Deps(s) == wf.dependsOn[s]
Advanced == [stack EXCEPT ![1].next = @ + 1]

\* The outer loop: the next white step in file order, or all are explored.
DfsRoot ==
  /\ phase = "dfs" /\ stack = <<>>
  /\ \/ /\ \E i \in DOMAIN StepList :
             /\ color[StepList[i]] = "white"
             /\ \A j \in 1..(i - 1) : color[StepList[j]] # "white"
             /\ stack' = <<Frame(StepList[i])>>
             /\ color' = [color EXCEPT ![StepList[i]] = "gray"]
        /\ UNCHANGED phase
     \/ /\ \A s \in StepIds : color[s] # "white"
        /\ phase' = "plan"
        /\ UNCHANGED <<stack, color>>
  /\ UNCHANGED <<wf, parent, cycle, kahnVars, allocation>>

AtDep == phase = "dfs" /\ stack # <<>> /\ Top.next <= Len(Deps(Top.id))
Dep == Deps(Top.id)[Top.next]

\* The chain of parents from a step up to an ancestor on the DFS path.
PathUp(from, to) ==
  LET up[n \in 0..Len(StepList)] ==
        IF n = 0 THEN <<from>>
        ELSE IF Last(up[n - 1]) = to THEN up[n - 1]
        ELSE Append(up[n - 1], parent[Last(up[n - 1])])
  IN up[Len(StepList)]

\* A gray dependency: report the cycle, read back through parent.
DfsCycle ==
  /\ AtDep /\ color[Dep] = "gray"
  /\ cycle' = Reverse(<<Dep>> \o PathUp(Top.id, Dep))
  /\ phase' = "rejected"
  /\ UNCHANGED <<wf, color, parent, stack, kahnVars, allocation>>

DfsDescend ==
  /\ AtDep /\ color[Dep] = "white"
  /\ parent' = [parent EXCEPT ![Dep] = Top.id]
  /\ color' = [color EXCEPT ![Dep] = "gray"]
  /\ stack' = <<Frame(Dep)>> \o Advanced
  /\ UNCHANGED <<wf, phase, cycle, kahnVars, allocation>>

\* Mutant: a gray dependency is skipped like a black one.
DfsSkipGray ==
  /\ AtDep /\ color[Dep] # "white"
  /\ stack' = Advanced
  /\ UNCHANGED <<wf, phase, color, parent, cycle, kahnVars, allocation>>

DfsSkip ==
  /\ AtDep /\ color[Dep] = "black"
  /\ stack' = Advanced
  /\ UNCHANGED <<wf, phase, color, parent, cycle, kahnVars, allocation>>

DfsReturn ==
  /\ phase = "dfs" /\ stack # <<>> /\ Top.next > Len(Deps(Top.id))
  /\ color' = [color EXCEPT ![Top.id] = "black"]
  /\ stack' = Tail(stack)
  /\ UNCHANGED <<wf, phase, parent, cycle, kahnVars, allocation>>

-----------------------------------------------------------------------------
\* Plan: Kahn's algorithm, a wave at a time.

InDegreeOf(s) == Len(Deps(s))

PlanSeed ==
  /\ phase = "plan"
  /\ inDegree' = [s \in StepIds |-> InDegreeOf(s)]
  /\ queue' = {s \in StepIds : InDegreeOf(s) = 0}
  /\ phase' = "kahn"
  /\ UNCHANGED <<wf, dfsVars, stages, allocation>>

\* One decrement per entry of dependents, so per occurrence in a list.
Released(s) == Cardinality({k \in DOMAIN Deps(s) : Deps(s)[k] \in queue})

\* Mutant: one satisfied dependency is enough.
PlanWaveEager ==
  /\ phase = "kahn" /\ queue # {}
  /\ stages' = Append(stages, queue)
  /\ inDegree' = [s \in StepIds |-> inDegree[s] - Released(s)]
  /\ queue' = {s \in StepIds : Released(s) > 0}
  /\ UNCHANGED <<wf, phase, dfsVars, allocation>>

PlanWave ==
  /\ phase = "kahn" /\ queue # {}
  /\ stages' = Append(stages, queue)
  /\ inDegree' = [s \in StepIds |-> inDegree[s] - Released(s)]
  /\ queue' = {s \in StepIds : Released(s) > 0 /\ inDegree[s] - Released(s) = 0}
  /\ UNCHANGED <<wf, phase, dfsVars, allocation>>

Emitted == UNION Range(stages)

\* The defensive count, then the caller splits the context budget.
PlanDone ==
  /\ phase = "kahn" /\ queue = {}
  /\ phase' = IF Emitted = StepIds THEN "planned" ELSE "failed"
  /\ allocation' = IF Emitted = StepIds /\ wf.total > 0 THEN AllocateContextBudgets(wf) ELSE allocation
  /\ UNCHANGED <<wf, dfsVars, kahnVars>>

-----------------------------------------------------------------------------
ValidateDAG == DfsRoot \/ DfsCycle \/ DfsDescend \/ DfsSkip \/ DfsReturn
Plan == PlanSeed \/ PlanWave \/ PlanDone

PlannerNext == Parse \/ SkipValidateDAG \/ ValidateDAG \/ Plan

-----------------------------------------------------------------------------
\* Properties.

\* The planner's state.
PlannerTypeOK ==
  /\ phase \in {"parse", "dfs", "plan", "kahn", "rejected", "planned", "failed"}
  /\ color \in [StepIds -> {"white", "gray", "black"}]
  /\ parent \in [StepIds -> StepIds \cup {NoStep}]
  /\ \A i \in DOMAIN stack : stack[i].id \in StepIds /\ color[stack[i].id] = "gray"
  /\ inDegree \in [StepIds -> Nat] /\ queue \subseteq StepIds

\* A reference for "has a cycle" that owes nothing to the search: some set of
\* steps each depending on another of the set.
Cyclic ==
  \E S \in SUBSET StepIds \ {{}} : \A s \in S : Range(Deps(s)) \cap S # {}

\* ValidateDAG rejects exactly the cyclic workflows, whatever the file order,
\* shared dependencies or repeated entries.
RejectsExactlyCycles ==
  Valid(wf) =>
    /\ phase = "rejected" => Cyclic
    /\ phase = "plan" /\ color # [s \in StepIds |-> "white"] => ~Cyclic

\* The path in the "cycle detected" error is a closed walk along depends_on.
ReportedCycleIsReal ==
  cycle # <<>> =>
    /\ Len(cycle) >= 2 /\ cycle[1] = Last(cycle)
    /\ \A i \in 1..(Len(cycle) - 1) : cycle[i + 1] \in Range(Deps(cycle[i]))

\* A plan holds every step once, after all its dependencies, and no later than
\* it must: in the stage right after its latest dependency.
PlanIsTopological ==
  phase = "planned" =>
    /\ \A s \in StepIds : \E i \in DOMAIN stages :
         /\ s \in stages[i]
         /\ \A j \in DOMAIN stages \ {i} : s \notin stages[j]
         /\ Range(Deps(s)) \subseteq UNION {stages[j] : j \in 1..(i - 1)}
         /\ i > 1 => Range(Deps(s)) \cap stages[i - 1] # {}

\* Plan fails exactly on the cyclic workflows: its count catches what a missing
\* ValidateDAG let through, and never a workflow that passed it.
PlanCatchesCycles ==
  /\ phase = "failed" => Cyclic
  /\ phase = "planned" => ~Cyclic

\* Every step of a workflow that opted into packaging gets at least one token,
\* and together they get no more than the workflow's total.
BudgetsFitTotal ==
  phase = "planned" /\ wf.total > 0 =>
    /\ \A s \in StepIds : allocation[s] >= 1
    /\ SumFunctionOnSet(allocation, StepIds) <= wf.total

\* What the scheduler takes for granted of a plan: ValidateDAG refused exactly the
\* cyclic workflows and named a real cycle, the plan respects depends_on, and its
\* context shares fit the workflow's total.
PlansAreSound ==
  /\ PlannerTypeOK /\ RejectsExactlyCycles /\ ReportedCycleIsReal
  /\ PlanIsTopological /\ PlanCatchesCycles /\ BudgetsFitTotal
=============================================================================
