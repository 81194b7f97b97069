SPECIFICATION Spec
CONSTANTS
  Messages <- AllMessages
  Asked <- Transactions
  Fields <- AllFields
  Word = 4
  LibTypes <- Lib
  Clashing <- Ambiguous
INVARIANTS
  EveryTypeDefined
  PlainMessagesDisplayed
  BodyIsAsAsked
  LostOnlyForListsOrDates
PROPERTIES
  TypesNeverRedefined
CHECK_DEADLOCK FALSE
