SPECIFICATION ControlSpec
CONSTANTS
  Configs = {1, 2}
  Setups <- MCSetups
  Tags <- MCTags
  Pages <- MCPages
  Pushable <- MCPushable
  PageCap = 1000
  Daemons = {"d1", "d2"}
  Requests = {"q1", "q2"}
  Callers <- MCCallers
  Services <- MCServices
  InitialPolicy <- InForce
  InitialTokens = {"bot"}
  PolicyFiles <- MCPolicyFiles
  TokenFiles <- MCTokenFiles
  Schedules <- MCSchedules
  GroupBinds <- MCGroupBinds
  Federated <- MCFederated
  UIPassword = TRUE
  Governor = TRUE
  Burst = 1
  Calls = {"c1", "c2"}
  Workloads <- MCWorkloads
  KeySets <- MCKeySets
  FirstKeys <- OldKey
  Environments <- MCEnvironments
  TTL = 2
  MinRefresh = 1
  Timeout = 1
  AppTTL = 3
  Margin = 1
  MaxTime = 3
  Scenarios <- MCScenarios
INVARIANTS CurrentIsNewest ClusterFollowsGit
           FreezeHolds GatedWaits FailuresEscalate PolicyIsWhole ScheduleNotLost CredentialsAreFresh
PROPERTIES EveryCallAnswered OnlyForward AdoptsOrConflicts
CHECK_DEADLOCK FALSE
