SPECIFICATION ServicesSpec
CONSTANTS
  Requests = {r1, r2}
  Conversations = {c1, c2}
  None = None
  Configs <- MCConfigs
  MaxTurns = 3
  MaxEntries = 1
  MaxStoreFaults = 1
  Answerers = {a1, a2}
  NoJob = NoJob
  Slots = 2
  MaxChanges = 2
  RowSets = {d1, d2}
  NoRows = NoRows
  Presentations <- MCPresentations
  Replies <- MCReplies
  NoReply = NoReply
  SummaryLimit = 2
  Inside <- MCInside
  Scripts = {s1, s2}
  Chunks = {k1, k2}
  Collections = {v1, v2}
  Nowhere = Nowhere
  Anywhere = Anywhere
  MaxScripts = 2
  MaxEdits = 1
  MaxEnds = 1
  Shelf <- MCShelf
  Drafts <- MCDrafts
  NoGuidance = NoGuidance
  TopScore = 2
  MinScore = 2
  MinMargin = 1
  TopK = 3
  MaxPerRunbook = 2
  MaxContext = 4
  Callers = {b1, b2}
  QueueSize = 1
  MaxRetrievals = 2
  Rankings <- MCRankings
  NoPlan = NoPlan
  Mentioned <- MCMentioned
  Priors <- MCPriors
  Proposals <- MCProposals
  Tables <- MCTables
  Now <- MCNow
  Weekday <- MCWeekday
  NameOrder <- MCNames
  ServiceOrder <- MCServiceNames
  ResultBound = 2
SYMMETRY Interchangeable
INVARIANTS
  ServicesTypeOK
  ContextIsLastAnswer
  VerifiedMeansComplete
  SlotsConserved
  VerdictSound
  
  NoticeExact
  NothingMissing
  SyncedExactly
  SectionsCovered
  GuidanceSupported
  ComparedOnce
  QueryAnswersQuestion
  TopIsTop
  FallbackAgrees
CHECK_DEADLOCK FALSE
