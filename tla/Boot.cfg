SPECIFICATION Spec
CONSTANTS
  None = None
  Cards <- AllCards
  FreshDisk <- Volume
  MaxFaults = 1
  MaxTries = 1
  Clusters = {1, 2, 3, 4, 5, 6, 7, 8, 9, 10}
  Slots = {1, 2, 3, 4, 5, 6}
  Names = {"cfg0", "cfg1"}
  BigRoot = FALSE
  Free = {8, 9}
  MaxActs = 2
INVARIANTS SectorsMeant EntriesOwnClusters
PROPERTIES MountedInItsFormat RomOrError ReachesMain
