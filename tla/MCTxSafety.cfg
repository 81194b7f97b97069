CONSTANTS
  None = None
  Main = Main
  Grantee = Grantee
  Wallets = {Main, Grantee}
  Signer = Signer
  Dispatcher = Dispatcher
  App = App
  NumRequests = 3
  Scenarios <- SafetyScenarios
SPECIFICATION Spec
INVARIANTS
  TypeOK
  NonceRejectionIsFinal
  NoRequestForgotten
  FirstAttemptsInOrder
  SequencesLineUp
  GranteeOnlyIfAllowed
  MergeComesFirst
PROPERTIES
  RefinesRequestLife
CHECK_DEADLOCK FALSE
