SPECIFICATION FairSpec
CONSTANTS
  Occupants = {"other", "acecode", "recent"}
  MaxDesktops = 2
  MaxSpawns = 2
  MaxToggles = 1
CHECK_DEADLOCK FALSE
INVARIANT SpawnsAlone
INVARIANT FilesOfServing
INVARIANT RefusesOnlyBesideLive
INVARIANT HeldServes
PROPERTY SparesStrangers
PROPERTY CoupledExit
