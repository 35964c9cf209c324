SPECIFICATION FairSpec
CONSTANTS
  Prs = {1, 2}
  DependsOn <- Depends
  MaxMishaps = 2
  MinInflight = 1
  MaxInflight = 2
  Weathers = {"green"}
INVARIANTS TypeOK PlansFollowDependencies
PROPERTIES AdmitsWithinCap QuarantineIsEarned ReadyLands
CONSTRAINT LastIsNotAmidARefresh
