CONSTANTS
  Zone = {0, 1}
  Builds = {FALSE}
SPECIFICATION Spec
INVARIANT
  MutualExclusion
