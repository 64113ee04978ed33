\* Two neighbours trigger together and one of them falls back.
SPECIFICATION Spec
CONSTANTS
  Cells <- MCThreeCells
  Configs <- MCSuperA3
  MaxConfigs = 0
PROPERTY NoStaleTrigger
