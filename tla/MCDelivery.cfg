SPECIFICATION DeliverySpec
CONSTANTS
  Strategies <- MCStrategies
  FlagsWhen = "both"
  MaxRollouts = 1
  MaxHolds = 1
  MaxCrashes = 1
  MaxLost = 1
  Templates <- MCTemplates
  Answers <- MCAnswers
  Threshold = 2
  Refs <- K
  Kind <- MCKind
  Source <- MCSource
  Contents = {1, 2}
  Docs <- MCDocs
  Main <- MCMain
  Label <- MCLabel
  Prunes = {"web", "DB"}
  ReapOptIn = {"db", "DB"}
  Verification <- MCVerification
  Repos = {{"web", "db"}, {"db", "DB"}, {"host"}, {}}
  MaxAttempts = 2
  MaxCommits = 1
  MaxFaults = 1
  MaxEdits = 1
  MaxRollbacks = 1
  Users = {u1, u2}
  Binaries = {"v1", "v2", "v3", "v4"}
  Published = {"v1", "v2", "v3"}
  Latest = "v2"
  Signed = {"v2", "v3"}
  Genuine = {"v2", "v4"}
  Declares <- MCDeclares
  RequireSig = TRUE
  MaxInstalls = 1
  MaxBreaks = 1
  Digests = {"i1", "i2"}
  Commits = {"c1", "c2"}
  Settings <- MCSettings
  CosignKey = "ci"
  Attached <- MCAttached
  Attachable <- MCAttachable
  MaxAttached = 4
  MaxMoves = 1
  MaxOutages = 1
INVARIANTS ExposureWithinGate ShiftSurvivesCrash VerdictIsEarned ShipsVouched
           SuccessIsInPlace StampNeverLeads NoStrayProcess OnlyAdmittedRuns
PROPERTIES BakesFully ImplementsExposure CanaryEnds DeletesOnlyOwn SelfHeals EveryLaunchEnds
CHECK_DEADLOCK FALSE
