SPECIFICATION MCSpec
CONSTANTS
  s1 = s1 s2 = s2 s3 = s3 s4 = s4
  NoStep = NoStep
  StepList <- MCStepList
  Candidates <- MCCandidates
  plan = plan implement = implement review = review
  NoName = NoName NoRun = NoRun
  Runs = {r1, r2}
  Goroutines = {g1, g2}
  Handlers = {h1}
  Steps = {plan, implement, review}
  Stages <- MCStages
  DependsOn <- MCDependsOn
  Names = {plan, implement, review}
  OutputKey <- MCOutputKey
  Refs <- MCRefs
  MaxConcurrent = 1
CHECK_DEADLOCK FALSE
INVARIANTS PlansAreSound RunsAreCoherent
PROPERTY RunsSettle
