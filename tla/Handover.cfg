\* Handovers between three cells on well-behaved links: no timer runs out.
SPECIFICATION Spec
CONSTANTS
  Cells <- MCThreeCells
  MaxRnti = 4
  NBearers = 2
  Expirable <- MCNone
  Lossy = FALSE
  EqualDelays = TRUE
  Admission <- MCBoth
  Preambles <- MCBoth
  EarlyHandover = FALSE
  HandoverIn <- MCHandoverIn
  ReconfIn <- MCReconfIn
  ReleaseIn <- MCNone
  MaxHandovers = 4
  MaxReconfs = 2
  MaxReleases = 0
  StartConnected = TRUE
INVARIANTS TypeOK NoAbort DownlinkPath
PROPERTIES LeavingIsFinal MakesBeforeBreaking
CHECK_DEADLOCK FALSE
