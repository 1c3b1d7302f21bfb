\* Two shells, two profiles, one selected workspace.
SPECIFICATION Spec
CONSTANTS
  Shells = {s1, s2}
  Inherited <- MCInherited
  FlagSets <- MCFlagSets
  OutputSets <- MCOutputSets
  None = None
SYMMETRY Symmetry
CHECK_DEADLOCK FALSE
INVARIANT OneDeployment
INVARIANT AskedFor
INVARIANT NoExtraSetup
