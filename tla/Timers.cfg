\* Losses and timeouts, but no scheduled removal: what the timers rely on.
SPECIFICATION Spec
CONSTANTS
  Cells <- MCTwoCells
  MaxRnti = 2
  NBearers = 2
  Expirable <- MCNoRemoval
  Lossy = TRUE
  EqualDelays = TRUE
  Admission <- MCBoth
  Preambles <- MCAlways
  EarlyHandover = TRUE
  HandoverIn <- MCHandoverIn
  ReconfIn <- MCReconfIn
  ReleaseIn <- MCConnected
  MaxHandovers = 2
  MaxReconfs = 1
  MaxReleases = 1
  StartConnected = FALSE
INVARIANTS TimerDiscipline OnePreparation
CHECK_DEADLOCK FALSE
