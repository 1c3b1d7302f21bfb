\* Eight scripts, cancellation anywhere, an editor that may refuse every edit.
SPECIFICATION Spec
CONSTANTS
  MaxFailures = 5
  MaxLinks = 7
  MaxText = 4
  Scripts <- MCScripts
CHECK_DEADLOCK FALSE
INVARIANT OneEditInFlight
INVARIANT DrainCovers
INVARIANT LossIsCounted
INVARIANT FooterAlone
INVARIANT WarnedIffIncomplete
INVARIANT StatusIsServers
PROPERTY KeepsOrder
PROPERTY EveryDrainReturns
PROPERTY CancelEnds
