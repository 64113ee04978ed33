\* Attach, handovers and reconfigurations with nothing lost: everything ends.
SPECIFICATION FairSpec
CONSTANTS
  Cells <- MCTwoCells
  MaxRnti = 3
  NBearers = 2
  Expirable <- MCNone
  Lossy = FALSE
  EqualDelays = FALSE
  Admission <- MCAlways
  Preambles <- MCAlways
  EarlyHandover = FALSE
  HandoverIn <- MCHandoverIn
  ReconfIn <- MCReconfIn
  ReleaseIn <- MCNone
  MaxHandovers = 3
  MaxReconfs = 2
  MaxReleases = 0
  StartConnected = FALSE
INVARIANTS NoAbort
PROPERTIES ContextsResolve UeGetsBearers
CHECK_DEADLOCK FALSE
