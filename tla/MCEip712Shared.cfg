SPECIFICATION Spec
CONSTANTS
  Messages <- TierMessages
  Asked <- TwoTiers
  Fields <- AllFields
  Word = 4
  LibTypes <- Lib
  Clashing <- Ambiguous
INVARIANT
  DisplayedInFull
CHECK_DEADLOCK FALSE
