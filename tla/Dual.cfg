\* Dual connectivity: association updates, RIC commands, cells turned off.
SPECIFICATION McFairSpec
CONSTANTS
  Lte <- MCLte
  Cells <- MCTwoCells
  NRntis = 2
  Barrable <- MCOneOff
  RicCommands = TRUE
  RicRace = FALSE
  EqualDelays = TRUE
  MaxQueue = 1
INVARIANTS McTypeOK McNoAbort EventIsCurrent OneHandover McDownlinkEnds Settled LegFollowsCoordinator
PROPERTIES McSetupEnds HandoverEnds
