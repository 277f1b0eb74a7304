SPECIFICATION WorkSpec
CONSTANTS
  ModelTools = {"t"}
  Providers = {"openai", "anthropic", "ollama", "copilot"}
  MaxToolRounds = 2
  CallsPerTurn = 2
  Answers <- MCAnswers
  Deliverers = {"u", "v"}
  Products <- MCProducts
  Orders <- MCOrders
  Repositories = {"acme/site", "acme/lib"}
  FilePaths = {"x", "y"}
  HasDefaultToken = TRUE
  MaxDeliveries = 2
  MaxGitHubFaults = 1
  RoutedProviders = {"ollama", "openai"}
  ModelOrder <- MCModelOrder
  Facts <- MCFacts
  Listings <- MCListings
  Settings <- MCSettings
  Requests <- MCRequests
  MaxRoutingRestarts = 1
  ToolchainConfigs <- MCToolchainConfigs
  WordLength <- MCWordLength
  WorkRequests <- MCWorkRequests
  NodeShapes <- MCNodeShapes
  Minimal = TRUE
  ImplementationRetries = 1
  StatRetries = 2
  MaxPodWrites = 2
  MaxSpaceFaults = 1
  MaxWorkRuns = 2
  MaxRemediations = 1
INVARIANTS
  AnswerWhole
  ToolTurnsPaired
  DeliveredWhole
  FailureExplained
  RoutedModelFits
  PushedOrTold
CHECK_DEADLOCK FALSE
