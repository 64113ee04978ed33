\* Attach and one handover while messages get lost and timers run out.
SPECIFICATION Spec
CONSTANTS
  Cells <- MCTwoCells
  MaxRnti = 2
  NBearers = 2
  Expirable <- MCAllTimers
  Lossy = TRUE
  EqualDelays = TRUE
  Admission <- MCBoth
  Preambles <- MCBoth
  EarlyHandover = TRUE
  HandoverIn <- MCHandoverIn
  ReconfIn <- MCReconfIn
  ReleaseIn <- MCConnected
  MaxHandovers = 1
  MaxReconfs = 1
  MaxReleases = 1
  StartConnected = FALSE
INVARIANTS OneAnchor UplinkPath NoDanglingRoutes
CHECK_DEADLOCK FALSE
