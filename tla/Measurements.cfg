\* Measurement reporting of every event, through reconfigurations and handovers.
SPECIFICATION FairSpec
CONSTANTS
  Cells <- MCThreeCells
  Configs <- MCConfigs
  MaxConfigs = 2
INVARIANTS MeasTypeOK FirstRecordIsCallers TriggersMatchEntry EntryIsTimed
PROPERTIES EntryFollowsLevels
