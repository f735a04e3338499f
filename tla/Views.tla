------------------------------- MODULE Views -------------------------------
(***************************************************************************)
(* What the user sees of the events (App.tsx): the active view, which the  *)
(* URL and the browser's history follow, the search, the filter by outcome *)
(* and the pages of the Events view, and the dialog with one event.  The   *)
(* list of events itself is loaded in Dashboard and changes here at will.  *)
(***************************************************************************)
EXTENDS Activity

CONSTANTS
  Lists,       \* lists of events that a load can bring: sets of records
  Searches,    \* search texts; NoSearch is the empty one
  NoSearch,
  Matches,     \* [Searches -> the events whose text contains the search]
  PageSize,    \* rows of a page: 25
  MaxHistory   \* bound: entries of the browser's history

ASSUME ViewsConstants ==
  /\ NoSearch \in Searches
  /\ \A events \in Lists :
       /\ IsFiniteSet(events) /\ events \subseteq Matches[NoSearch]
       /\ \A e \in events : e.id \in Int /\ e.time \in Int /\ e.words \subseteq Words
       /\ \A d, e \in events : d.id = e.id => d = e
  /\ PageSize \in Nat \ {0} /\ MaxHistory \in Nat \ {0}

VARIABLES
  listed,        \* the events on screen
  listLoading,   \* a refresh is in progress
  activeView,
  urls, at,      \* the history: the hash of each entry, and the current entry
  query,
  resultFilter,
  page,          \* of the Events view, which starts at 1 when it is mounted
  detailOpen     \* the dialog of an event

list == <<listed, listLoading>>
address == <<activeView, urls, at>>
choice == <<query, resultFilter>>
viewVars == <<list, address, choice, page, detailOpen>>

Views == {"overview", "assistant", "investigations", "events", "sources", "settings"}

Hash == urls[at]

ReadViewFromHash(hash) == IF hash \in Views THEN hash ELSE "overview"

ViewsInit ==
  /\ listed = {} /\ listLoading = TRUE
  /\ urls \in {<<hash>> : hash \in Views \union {"other"}} /\ at = 1
  /\ activeView = ReadViewFromHash(Hash)
  /\ query = NoSearch /\ resultFilter = "all"
  /\ page = 1 /\ detailOpen = FALSE

-----------------------------------------------------------------------------
(* What is on screen.                                                      *)

SearchedEvents == listed \intersect Matches[query]

VisibleEvents == {e \in SearchedEvents : MatchesResultFilter(e, resultFilter)}

\* An event counts for one outcome at most, the first that fits.
ResultCounts ==
  [filter \in Filters |-> Cardinality({e \in SearchedEvents : MatchesResultFilter(e, filter)})]

PageCount == Max({1, (Cardinality(VisibleEvents) + PageSize - 1) \div PageSize})

CurrentPage_Unclamped == page

CurrentPage == Min({page, PageCount})

\* The API lists the latest events first, and by identifier those of one time.
Before(d, e) == d.time > e.time \/ (d.time = e.time /\ d.id < e.id)

\* What slice cuts out of the list: positions count from 0.
Position(e) == Cardinality({d \in VisibleEvents : Before(d, e)})

PageEvents ==
  {e \in VisibleEvents :
     Position(e) \in ((CurrentPage - 1) * PageSize)..(CurrentPage * PageSize - 1)}

Filtered == query # NoSearch \/ resultFilter # "all"

-----------------------------------------------------------------------------
(* The active view.                                                        *)

\* Another view is mounted, and with it the state of EventsView.
Mount(view) == page' = IF view = activeView THEN page ELSE 1

\* A new entry of the history, unless the hash is there already.
PushHash(hash) ==
  IF Hash = hash THEN UNCHANGED <<urls, at>>
  ELSE /\ at < MaxHistory
       /\ urls' = Append(SubSeq(urls, 1, at), hash)
       /\ at' = at + 1

\* setActiveView
SetActiveView_NoPush(view) ==
  /\ activeView' = view
  /\ Mount(view)
  /\ UNCHANGED <<urls, at>>

SetActiveView(view) ==
  /\ activeView' = view
  /\ Mount(view)
  /\ PushHash(view)

\* The dialog of an event is modal: only its own buttons work.
Navigate(view) ==
  /\ ~detailOpen
  /\ SetActiveView(view)
  /\ UNCHANGED <<list, choice, detailOpen>>

\* Back and forward; the listener of popstate follows, also behind a dialog.
Travel(step) ==
  /\ at + step \in DOMAIN urls
  /\ at' = at + step
  /\ activeView' = ReadViewFromHash(urls[at + step])
  /\ Mount(ReadViewFromHash(urls[at + step]))
  /\ UNCHANGED <<list, urls, choice, detailOpen>>

\* A link, or a hash typed into the address bar.
FollowLink(hash) ==
  /\ Hash # hash
  /\ PushHash(hash)
  /\ activeView' = ReadViewFromHash(hash)
  /\ Mount(ReadViewFromHash(hash))
  /\ UNCHANGED <<list, choice, detailOpen>>

Reload ==
  /\ activeView' = ReadViewFromHash(Hash)
  /\ page' = 1 /\ detailOpen' = FALSE
  /\ query' = NoSearch /\ resultFilter' = "all"
  /\ listed' = {} /\ listLoading' = TRUE
  /\ UNCHANGED <<urls, at>>

\* A finished investigation shows its report, whatever the user does by then.
InvestigationCompleted ==
  /\ SetActiveView("investigations")
  /\ UNCHANGED <<list, choice, detailOpen>>

-----------------------------------------------------------------------------
(* Searching and filtering.                                                *)

\* Typing, Escape and the Clear button.  The page is kept.
Search(text) ==
  /\ ~detailOpen /\ text # query
  /\ query' = text
  /\ UNCHANGED <<list, address, resultFilter, page, detailOpen>>

\* showEvents
ShowEvents(filter, text) ==
  /\ resultFilter' = filter /\ query' = text
  /\ SetActiveView("events")

\* The cards of the overview keep the search, Enter also keeps the filter.
ShowFromOverview(filter) ==
  /\ activeView = "overview" /\ ~detailOpen
  /\ ShowEvents(filter, query)
  /\ UNCHANGED <<list, detailOpen>>

ShowFromSearch ==
  /\ activeView # "events" /\ ~detailOpen
  /\ SetActiveView("events")
  /\ UNCHANGED <<list, choice, detailOpen>>

\* A correlated entity, or the card of a source.
ShowEntity(text) ==
  /\ activeView \in {"investigations", "sources"} /\ ~detailOpen
  /\ ShowEvents("all", text)
  /\ UNCHANGED <<list, detailOpen>>

ChangeFilter(filter) ==
  /\ activeView = "events" /\ ~detailOpen
  /\ page' = 1
  /\ resultFilter' = filter
  /\ UNCHANGED <<list, address, query, detailOpen>>

ClearFilters ==
  /\ activeView = "events" /\ ~detailOpen /\ Filtered
  /\ page' = 1
  /\ query' = NoSearch /\ resultFilter' = "all"
  /\ UNCHANGED <<list, address, detailOpen>>

\* The same button in an empty table leaves the page as it is.
ClearFromTable ==
  /\ activeView = "events" /\ ~detailOpen /\ Filtered
  /\ VisibleEvents = {} /\ ~listLoading
  /\ query' = NoSearch /\ resultFilter' = "all"
  /\ UNCHANGED <<list, address, page, detailOpen>>

PagingShown == activeView = "events" /\ ~listLoading /\ Cardinality(VisibleEvents) > PageSize

Previous_FromPage ==
  /\ PagingShown /\ ~detailOpen /\ CurrentPage # 1
  /\ page' = Max({1, page - 1})
  /\ UNCHANGED <<list, address, choice, detailOpen>>

Previous ==
  /\ PagingShown /\ ~detailOpen /\ CurrentPage # 1
  /\ page' = Max({1, CurrentPage - 1})
  /\ UNCHANGED <<list, address, choice, detailOpen>>

NextPage ==
  /\ PagingShown /\ ~detailOpen /\ CurrentPage # PageCount
  /\ page' = Min({PageCount, CurrentPage + 1})
  /\ UNCHANGED <<list, address, choice, detailOpen>>

-----------------------------------------------------------------------------
(* The dialog of an event.                                                 *)

\* A row of a table, or the evidence of a finding in the report.
SelectEvent ==
  /\ ~detailOpen
  /\ \/ activeView = "overview" /\ SearchedEvents # {}
     \/ activeView = "investigations"
     \/ activeView = "events" /\ PageEvents # {}
  /\ detailOpen' = TRUE
  /\ UNCHANGED <<list, address, choice, page>>

CloseDetail ==
  /\ detailOpen
  /\ detailOpen' = FALSE
  /\ UNCHANGED <<list, address, choice, page>>

\* "Filter" beside a field or an attribute.
FilterFromDetail(text) ==
  /\ detailOpen
  /\ detailOpen' = FALSE
  /\ ShowEvents("all", text)
  /\ UNCHANGED list

-----------------------------------------------------------------------------

RefreshList ==
  /\ ~listLoading
  /\ listLoading' = TRUE
  /\ UNCHANGED <<listed, address, choice, page, detailOpen>>

ListArrives(events) ==
  /\ listLoading
  /\ listed' = events /\ listLoading' = FALSE
  /\ UNCHANGED <<address, choice, page, detailOpen>>

ViewsStep ==
  \/ \E view \in Views : Navigate(view)
  \/ \E step \in {-1, 1} : Travel(step)
  \/ \E hash \in Views \union {"other"} : FollowLink(hash)
  \/ Reload \/ InvestigationCompleted
  \/ \E text \in Searches : Search(text) \/ ShowEntity(text) \/ FilterFromDetail(text)
  \/ \E filter \in {"all", "failure"} : ShowFromOverview(filter)
  \/ ShowFromSearch
  \/ \E filter \in Filters : ChangeFilter(filter)
  \/ ClearFilters \/ ClearFromTable \/ Previous \/ NextPage
  \/ SelectEvent \/ CloseDetail
  \/ RefreshList

ViewsNext == ViewsStep \/ \E events \in Lists : ListArrives(events)

ViewsSpec == ViewsInit /\ [][ViewsNext]_viewVars

-----------------------------------------------------------------------------

\* "The active view lives in the URL hash so reloads, links and the back button
\* keep it": whichever of them changes first, and behind a dialog too.
ActiveViewInUrl == activeView = ReadViewFromHash(Hash)

\* Whatever search, filter or refresh has shortened the list under the page
\* that was open, the Events view shows rows when any event fits, and their
\* number is the one on the button of the filter; with no search, the failures
\* it lists are those that the overview counts.
PageShowsEvents ==
  /\ VisibleEvents # {} => PageEvents # {}
  /\ ResultCounts[resultFilter] = Cardinality(VisibleEvents)
  /\ query = NoSearch => ResultCounts["failure"] = FailureCount(listed)

\* The chart of the overview, the cards of the sources and the counters agree, for
\* every list that a load brings.
ChartsAddUp == ActivityAddsUp(listed)

\* Previous and Next move by one page of those on screen, also after the list
\* has become shorter than the page that was chosen; the rest goes to page 1.
PagingMoves ==
  [][page' # page /\ UNCHANGED <<activeView, choice, listed>> =>
       page' = 1 \/ CurrentPage' \in {CurrentPage - 1, CurrentPage + 1}]_viewVars
=============================================================================
