SPECIFICATION CodeSpec
CONSTANTS
  Inputs <- MCInputs
  MaskPatterns <- MCMasks
  MaxSymbolNumber = 61
INVARIANT
  RefusedOrWhole
