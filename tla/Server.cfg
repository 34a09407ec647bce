SPECIFICATION Spec
SYMMETRY Symmetry
CHECK_DEADLOCK FALSE
CONSTANTS
  q1 = q1
  q2 = q2
  x1 = x1
  x2 = x2
  Slots <- MCSlots
  Regs <- MCRows
  Runs = {"r1"}
  WpNames = {"n1"}
  WpSources = {"s1"}
  WpDocs <- MCWpDocs
  NoStep = NoStep
  WpContracts = {"single"}
  WpMaxReg = 2
  WpMaxRun = 4
  MaxUses = 2
  TokenMaxRequests = 4
  FeedIDs = {1, 2, 3}
  BatchSize = 2
  FeedMaxClock = 2
  Users = {"mentor", "leader"}
  Leadership = {"leader"}
  EngMaxVersion = 3
  MaxMails = 1
  MSessions <- MCRows
  RetrievalDelay = 1
  RetrievalTries = 2
  MsMaxClock = 2
  MsMaxWrites = 4
  MaxText = 3
  MsMaxNew = 1
  Exports = {"e1"}
  Prints = {"p1"}
  ArtMaxClock = 3
  PostalCodes = {"z1", "z2"}
  Cities = {"A", "B"}
  Nowhere = Nowhere
  MaxRefreshes = 2
  FAILURE_THRESHOLD = 2
  PROBE_COOLDOWN = 2
  Durable = Durable
  OutMaxClock = 4
  MaxWork = 2
  Writes <- MCRows
  WriteTries = 2
  CWindows <- MCSlots
  IdValues = {"a", "A"}
  NoInput = NoInput
  DuplicateMatchRules <- MCRules
  Folded <- MCFolded
  Inactive = {"A"}
  Required = {"name"}
  Seeds <- MCSeeds
  MaxPeople = 2
  MaxChanges = 2
INVARIANTS TypeOK CommitsWholeWalks ActionListsAreLaunchable UsesAreAccountedFor WatermarkLosesNothing FlipsFollowTheLifecycle ScopeIsKept RetrievalIsNotLost ArtifactsAreReclaimed SnapshotIsApplied CrmWorkIsAccountedFor DuplicatesAreDecided
PROPERTY TranscriptOnlyGrows
