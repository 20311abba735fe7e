SPECIFICATION FairSpec
CONSTANTS
  Options <- DefaultOptions
  MaxFaults = 0
PROPERTY InstalledIsHandedOff
