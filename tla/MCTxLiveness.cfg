CONSTANTS
  None = None
  Main = Main
  Grantee = Grantee
  Wallets = {Main, Grantee}
  Signer = Signer
  Dispatcher = Dispatcher
  App = App
  NumRequests = 3
  Scenarios <- LivenessScenarios
SPECIFICATION FairSpec
PROPERTIES
  EveryRequestSettles
  EveryRequestResolves
CHECK_DEADLOCK FALSE
