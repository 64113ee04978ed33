\* The RIC commands a handover while one of the eNB is scheduled.
SPECIFICATION McSpec
CONSTANTS
  Lte <- MCLte
  Cells <- MCTwoCells
  NRntis = 2
  Barrable <- MCNone
  RicCommands = TRUE
  RicRace = TRUE
  EqualDelays = TRUE
  MaxQueue = 1
INVARIANT McNoAbort
