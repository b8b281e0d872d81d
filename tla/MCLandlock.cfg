CONSTANTS
  Accesses <- MCAccesses
  AbiOf <- MCAbiOf
  Paths = {"home", "etc"}
  Abis <- MCAbis
  MaxLayers = 2

SPECIFICATION LandlockSpec

INVARIANT
  RestrictedAsTold
