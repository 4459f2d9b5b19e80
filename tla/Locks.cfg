CONSTANTS
  Ops = {o1, o2, o3}
  Shells = {o3}
  MaxTroubles = 2
  Footprints <- MCFootprints
SPECIFICATION EffectsSpec
INVARIANTS EffectsInOrder
PROPERTIES EveryWaiterProceeds ImplementsLock
