SPECIFICATION Spec
CONSTANTS
  Prs = {1, 2}
  DependsOn <- Depends
  MaxMishaps = 2
  MinInflight = 1
  MaxInflight = 2
  Weathers = {"green", "warning", "severe"}
PROPERTY UpgradesApply
