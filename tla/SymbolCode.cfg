SPECIFICATION CodeSpec
CONSTANTS
  Inputs <- MCInputs
  MaskPatterns <- MCMasks
  MaxSymbolNumber = 61
INVARIANTS
  MessageIsWhole
  UndamagedIsRead
  NeverWeaker
  LayoutsAgree
