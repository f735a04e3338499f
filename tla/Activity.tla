------------------------------ MODULE Activity ------------------------------
(***************************************************************************)
(* The charts and counters of the dashboard: buildActivity of              *)
(* lib/activity.ts, and the counts that App.tsx derives from the events    *)
(* on screen.  An event is a record with a time, a source and the words    *)
(* that its result contains, of those the code looks for.                  *)
(***************************************************************************)
EXTENDS Integers, FiniteSets, FiniteSetsExt, Functions, Sequences, SequencesExt

CONSTANTS
  Steps,      \* the widths of a slot, in increasing order; the last is a day
  MaxBuckets  \* slots of the chart: 30

ASSUME ActivityConstants ==
  /\ Steps \in Seq(Nat \ {0}) /\ Steps # <<>>
  /\ \A i, j \in DOMAIN Steps : i < j => Steps[i] < Steps[j]
  /\ MaxBuckets \in Nat \ {0}

Words == {"fail", "error", "warn", "success"}

\* resultTone of App.tsx, for a result that contains these words.
ResultTone(words) ==
  IF words \intersect {"fail", "error"} # {} THEN "danger"
  ELSE IF "warn" \in words THEN "warning"
  ELSE IF "success" \in words THEN "success" ELSE "neutral"

\* ResultPill of the event dialog.
ResultPill(words) ==
  CASE words \intersect {"fail", "error"} # {} -> "danger"
    [] words \in {{"warn"}, {"warn", "success"}} -> "warning"
    [] words = {"success"} -> "success"
    [] words = {} -> "neutral"

Filters == {"all", "failure", "warning", "success"}

MatchesResultFilter(event, filter) ==
  \/ filter = "all"
  \/ filter = "failure" /\ ResultTone(event.words) = "danger"
  \/ filter \in {"warning", "success"} /\ ResultTone(event.words) = filter

\* isFailure and isWarning of lib/activity.ts.
IsFailure(event) == event.words \intersect {"fail", "error"} # {}
IsWarning(event) == "warn" \in event.words

Times(events) == {e.time : e \in events}

Day == Last(Steps)

Span(events) == Max(Times(events)) - Min(Times(events))

\* The first step that is wide enough, or a day.
StepFor(events) ==
  LET fitting == {i \in DOMAIN Steps : Span(events) < MaxBuckets * Steps[i]}
  IN  IF fitting = {} THEN Day ELSE Steps[Min(fitting)]

\* The slots are aligned to multiples of the step.
FirstSlot(events) == (Min(Times(events)) \div StepFor(events)) * StepFor(events)

SlotOf(event, events) == ((event.time - FirstSlot(events)) \div StepFor(events)) + 1

SlotCount(events) ==
  ((Max(Times(events)) - FirstSlot(events)) \div StepFor(events)) + 1

\* A failure is counted before a warning: a result can contain both words.
Bucket_CountsBoth(slot, events) ==
  LET inSlot == {e \in events : SlotOf(e, events) = slot}
  IN  [start    |-> FirstSlot(events) + (slot - 1) * StepFor(events),
       events   |-> Cardinality(inSlot),
       failures |-> Cardinality({e \in inSlot : IsFailure(e)}),
       warnings |-> Cardinality({e \in inSlot : IsWarning(e)})]

Bucket(slot, events) ==
  LET inSlot == {e \in events : SlotOf(e, events) = slot}
  IN  [start    |-> FirstSlot(events) + (slot - 1) * StepFor(events),
       events   |-> Cardinality(inSlot),
       failures |-> Cardinality({e \in inSlot : IsFailure(e)}),
       warnings |-> Cardinality({e \in inSlot : ~IsFailure(e) /\ IsWarning(e)})]

BuildActivity(events) ==
  IF events = {} THEN <<>>
  ELSE [slot \in 1..SlotCount(events) |-> Bucket(slot, events)]

\* chartData: what the bar of a slot shows besides failures and warnings.
Other(bucket) == bucket.events - bucket.failures - bucket.warnings

FailureCount(events) == Cardinality({e \in events : ResultTone(e.words) = "danger"})

\* sources: what the cards of the Sources view show.
SourceCards(events) ==
  [s \in {e.source : e \in events} |->
     LET own == {e \in events : e.source = s}
     IN  [events |-> Cardinality(own), latest |-> Max(Times(own))]]

\* The slots that events which span less than maxBuckets days can need: one more
\* than maxBuckets when the first slot begins before the first event.
SlotLimit(events) ==
  MaxBuckets + (IF FirstSlot(events) = Min(Times(events)) THEN 0 ELSE 1)

\* The chart, the cards and the counters agree, though each reads results with
\* code of its own (resultTone, isFailure and isWarning, ResultPill).  Every
\* event is counted in the slot its time falls into, "other" is never negative,
\* and the slots stay below the limit that the code keeps.  That is not what
\* activity.ts:20 says ("at most maxBuckets"): the slot by which an unaligned chart
\* exceeds it is allowed here, and so is any number when the events span more than
\* maxBuckets days.
ActivityAddsUp(events) ==
  LET chart == BuildActivity(events)
      cards == SourceCards(events)
  IN  /\ SumFunction([slot \in DOMAIN chart |-> chart[slot].failures]) = FailureCount(events)
      /\ SumFunction([slot \in DOMAIN chart |-> chart[slot].events])
           = SumFunction([s \in DOMAIN cards |-> cards[s].events])
      /\ \A slot \in DOMAIN chart : Other(chart[slot]) >= 0
      /\ \A e \in events :
           /\ SlotOf(e, events) \in DOMAIN chart
           /\ e.time - chart[SlotOf(e, events)].start \in 0..(StepFor(events) - 1)
           /\ ResultPill(e.words) = ResultTone(e.words)
      /\ events # {} /\ Span(events) < MaxBuckets * Day => Len(chart) <= SlotLimit(events)
=============================================================================
