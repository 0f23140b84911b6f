CONSTANTS
  Zone = {0, 1, 2}
  Builds = {TRUE, FALSE}
SPECIFICATION FairSpec
INVARIANTS
  TypeOK
  ArmExcludes
  ArmOwner
PROPERTY
  Progress
