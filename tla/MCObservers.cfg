INIT ObserverInit
NEXT ObserverNext
CONSTANTS
  None = None
  ShownAgents = {s1}
  ShownConversations = {c1}
  MaxVersions = 2
  MaxLifecycle = 2
  MaxHistoryFetch = 2
  Agents = {a1, a2}
  Conversations = {c1}
  MaxBuffered = 2
  HistoryAttempts = 2
  DocumentLimit = 1
  MaxRecipients = 3
  MaxHistoryFaults = 1
  StepDuration = 2
  WalkLength = 2
  WeatherInterval = 3
  Parts = 2
  MaxSceneChanges = 2
  MaxBoardFaults = 1
  MaxBoardTime = 5
  NotifiedAgents = {d1, d2, d3}
  RejectedActions = {x1, x2}
  DiscordBudgets <- MCDiscordBudgets
  ServerEventIds = {e1, e2}
  AskingAgents = {b1, b2}
  MaxRestarts = 2
  MaxDeliveries = 2
  Rows = 3
  Cols = 3
CHECK_DEADLOCK FALSE
INVARIANTS
  RecordedIsKept
  BufferIsFlushed
  SelectionIsOnScreen
  BoardFollowsTheWorld
  LogEndsWithTheEnd
  ForcedEndsAreConsumed
  AskedAgentsAreUpToDate
  PathIsShortest
PROPERTIES
  ScreenNeverGoesBack
  StoppedScreenStays
  QueuedPollsFollow
  HistoriesInOrder
  RejectionIsKeptUntilShown
