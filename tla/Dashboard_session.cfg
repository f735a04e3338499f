SPECIFICATION FairSpec
CONSTANTS
  e1 = e1
  s1 = s1
  Events = {e1}
  Sources = {s1}
  SourceOf <- OneEvent
  Rank <- OneRank
  Limit = 1
  Evidence <- EveryEvent
  Queries <- AllOrNothing
  Pages = {p1, p2}
  Strict = TRUE
  Import = Import
  Deletion = Deletion
  All = All
  Closed = Closed
  Waiting = Waiting
  NoReport = NoReport
  Unsent = Unsent
  MaxBusy = 2
INVARIANTS
  TypeOK
  BusyMeansInFlight
  FindingsMatchEvents
  FreshWhenQuiet
PROPERTIES
  ImportEnds
