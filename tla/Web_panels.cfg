SPECIFICATION PartsSpec
CONSTANTS
  f1 = f1
  f2 = f2
  typed = typed
  l1 = l1
  l2 = l2
  l3 = l3
  q0 = q0
  q1 = q1
  Files = {f1, f2}
  Accepted = {f1, f2}
  Typed = typed
  Blank = Blank
  Manual = Manual
  Names = {Blank}
  LinesOf <- ImportLines
  Malformed = {l2}
  MaxReads = 2
  Questions = {t1, t2}
  Suggestions = {t3}
  NoText = NoText
  UpdaterCalls = {1, 2}
  MaxAsked = 3
  Tabs = {tab1, tab2}
  Default = "dark"
  States = {"idle", "checking", "ready"}
  NoUpdater = NoUpdater
  PollSlots = {p1, p2}
  CheckSlots = {c1}
  Unset = Unset
  Unanswered = Unanswered
  Refused = Refused
  Steps <- StepTable
  MaxBuckets = 3
  Lists <- AllLists
  Searches = {q0, q1}
  NoSearch = q0
  Matches <- MatchTable
  PageSize = 2
  MaxHistory = 2
INVARIANTS
  StoredUnderOwnName
  AnswersInPlace
  TabsAgree
  BadgeIsCurrent
  ActiveViewInUrl
  PageShowsEvents
  ChartsAddUp
PROPERTIES
  FailedImportKeepsText
  PanelCatchesUp
  PagingMoves
CHECK_DEADLOCK FALSE
