\* A handover that joins after HandoverJoiningTimeout has given it up.
SPECIFICATION Spec
CONSTANTS
  Cells <- MCTwoCells
  MaxRnti = 3
  NBearers = 2
  Expirable <- MCJoining
  Lossy = FALSE
  EqualDelays = TRUE
  Admission <- MCAlways
  Preambles <- MCAlways
  EarlyHandover = FALSE
  HandoverIn <- MCHandoverIn
  ReconfIn <- MCReconfIn
  ReleaseIn <- MCNone
  MaxHandovers = 1
  MaxReconfs = 0
  MaxReleases = 0
  StartConnected = TRUE
PROPERTY ServingContextKept
CHECK_DEADLOCK FALSE
