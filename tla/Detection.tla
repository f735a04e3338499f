------------------------------ MODULE Detection -----------------------------
(***************************************************************************)
(* What an investigation computes from the stored events: the latest of    *)
(* them (SearchEventsTool), the findings of the one registered rule,       *)
(* RepeatedAuthenticationFailureRule, and the groups of                    *)
(* EventCorrelationService.  The state is the store, which only grows      *)
(* here; the properties compare what is computed with what a reader of a   *)
(* report takes it to mean, over every store up to a size.                 *)
(*                                                                         *)
(* Values are abstract: Null is a missing user or address, Blank one that  *)
(* is present but empty (user=""), and Folded says which values differ     *)
(* only in case.  Time is in units of the model.                           *)
(***************************************************************************)
EXTENDS Naturals, FiniteSets

CONSTANTS
  Kinds,      \* [user, ip, failed]: what the saved events can look like
  Null,       \* a missing user or address
  Blank,      \* a user or address that is there but has no characters
  Folded,     \* [values -> values]: equal for values that differ only in case
  Window,     \* ten minutes
  Threshold,  \* three
  MaxTime,    \* bound: events happen at 0..MaxTime
  MaxEvents   \* bound: events in the store

ASSUME BoundAssumption ==
  /\ Window \in Nat
  /\ Threshold \in Nat \ {0}
  /\ MaxTime \in Nat
  /\ MaxEvents \in Nat

VARIABLE stored   \* the events of the repository

-----------------------------------------------------------------------------
(* SearchAsync and SearchEventsTool *)

\* The order of the events in time; the repository breaks ties by identifier.
Earlier(d, e) == d.time < e.time \/ (d.time = e.time /\ d.id < e.id)

\* The repository returns the latest events first, and a search keeps the first
\* of them.
Listed(d, e) == d.time > e.time \/ (d.time = e.time /\ d.id < e.id)

Latest(events, limit) ==
  {e \in events : Cardinality({d \in events : Listed(d, e)}) < limit}

-----------------------------------------------------------------------------
(* RepeatedAuthenticationFailureRule *)

IsAuthenticationFailure(e) == e.failed /\ (e.user /= Null \/ e.ip /= Null)

Failures(events) == {e \in events : IsAuthenticationFailure(e)}

Groups_ByAddress(events) ==
  {{e \in Failures(events) : e.ip = f.ip} : f \in Failures(events)}

\* The failures of one user and address, which a group compares exactly.
Groups(events) ==
  {{e \in Failures(events) : e.user = f.user /\ e.ip = f.ip} : f \in Failures(events)}

Ordered(group) ==
  [n \in 1..Cardinality(group) |->
     CHOOSE e \in group : Cardinality({d \in group : Earlier(d, e)}) = n - 1]

\* The evidence that begins at start: Threshold failures, and those after them
\* that lie within the window of the first.
EndOf(ordered, size, start) ==
  CHOOSE end \in (start + Threshold - 1)..size :
    /\ \A n \in (start + Threshold)..end : ordered[n].time - ordered[start].time <= Window
    /\ end < size => ordered[end + 1].time - ordered[start].time > Window

Starts_WholeGroup(ordered, size) ==
  {start \in {1} : size >= Threshold /\ ordered[size].time - ordered[1].time <= Window}

Starts_SkipsLast(ordered, size) ==
  {start \in {n \in 1..size : n + Threshold - 1 < size} :
     EndOf(ordered, size, start) - start + 1 >= Threshold}

\* Where evidence of sufficient length begins.
Starts(ordered, size) ==
  {start \in {n \in 1..size : n + Threshold - 1 <= size} :
     EndOf(ordered, size, start) - start + 1 >= Threshold}

\* The loop stops at the first start: one finding for a group.
FindingOf(group) ==
  LET ordered == Ordered(group)
      size    == Cardinality(group)
      start   == CHOOSE s \in Starts(ordered, size) : \A t \in Starts(ordered, size) : s <= t
      end     == EndOf(ordered, size, start)
  IN  [user      |-> ordered[start].user,
       ip        |-> ordered[start].ip,
       evidence  |-> {ordered[n] : n \in start..end},
       firstSeen |-> ordered[start].time,
       lastSeen  |-> ordered[end].time]

Evaluate(events) ==
  {FindingOf(group) : group \in
     {g \in Groups(events) : Starts(Ordered(g), Cardinality(g)) /= {}}}

-----------------------------------------------------------------------------
(* EventCorrelationService *)

Correlate_AboveThreshold(events, field) ==
  LET valued == {e \in events : e[field] \notin {Null, Blank}}
      Same(e) == {d \in valued : Folded[d[field]] = Folded[e[field]]}
  IN  {group \in {Same(e) : e \in valued} : Cardinality(group) > Threshold}

\* The events that share a user or an address, ignoring case, when there are
\* several.
Correlate(events, field) ==
  LET valued == {e \in events : e[field] \notin {Null, Blank}}
      Same(e) == {d \in valued : Folded[d[field]] = Folded[e[field]]}
  IN  {group \in {Same(e) : e \in valued} : Cardinality(group) > 1}

-----------------------------------------------------------------------------
Init == stored = {}

\* SaveAsync of an event that was not stored: it can be older than the others.
Save ==
  /\ Cardinality(stored) < MaxEvents
  /\ \E time \in 0..MaxTime, kind \in Kinds :
       stored' = stored \union
         {[id |-> Cardinality(stored) + 1, time |-> time,
           user |-> kind.user, ip |-> kind.ip, failed |-> kind.failed]}

Next == Save

Spec == Init /\ [][Next]_stored

-----------------------------------------------------------------------------
(* Properties *)

\* Three failures of one identity within the window of the first of them.
Burst(events, user, ip) ==
  \E first \in events :
    Cardinality({e \in events :
      /\ e.failed /\ e.user = user /\ e.ip = ip
      /\ first.time <= e.time /\ e.time <= first.time + Window}) >= Threshold

Detected(events, user, ip) == \E f \in Evaluate(events) : f.user = user /\ f.ip = ip

Identities == {<<kind.user, kind.ip>> : kind \in Kinds} \ {<<Null, Null>>}

\* No burst of an identity goes without a finding for that identity, however the
\* events arrive, tie, or are mixed with others.
NoMissedBurst ==
  \A id \in Identities : Burst(stored, id[1], id[2]) => Detected(stored, id[1], id[2])

\* A finding rests on enough failures, all of the identity it names, from its
\* FirstSeen to its LastSeen, and leaves out none of them in between.
EvidenceIsARun ==
  \A f \in Evaluate(stored) :
    /\ Cardinality(f.evidence) >= Threshold
    /\ \A e \in f.evidence :
         /\ e.failed /\ e.user = f.user /\ e.ip = f.ip
         /\ f.firstSeen <= e.time /\ e.time <= f.lastSeen
    /\ \A e \in Failures(stored) :
         e.user = f.user /\ e.ip = f.ip /\ f.firstSeen < e.time /\ e.time < f.lastSeen =>
           e \in f.evidence

\* An investigation looks at the latest events, up to a limit.  Whatever that is, an
\* event that is saved, even one older than those of a finding, makes the finding's
\* identity disappear from the report only if it pushes some of the evidence out
\* of the events that are looked at.
DetectionSurvivesSave ==
  [][\A limit \in 1..MaxEvents : \A f \in Evaluate(Latest(stored, limit)) :
       f.evidence \subseteq Latest(stored', limit) =>
         Detected(Latest(stored', limit), f.user, f.ip)]_stored

\* A search limited to the latest events can hide an identity, but never reports
\* one that the whole store would not show.
LimitOnlyHides ==
  \A limit \in 1..MaxEvents : \A id \in Identities :
    Detected(Latest(stored, limit), id[1], id[2]) => Detected(stored, id[1], id[2])

\* The rule and the correlation agree although one compares names exactly and the
\* other ignores case: the evidence of a finding lies within one correlation of
\* its user, and within one of its address, unless they are missing or blank.
EvidenceIsCorrelated ==
  \A f \in Evaluate(stored) :
    /\ f.user \notin {Null, Blank} => \E group \in Correlate(stored, "user") : f.evidence \subseteq group
    /\ f.ip \notin {Null, Blank} => \E group \in Correlate(stored, "ip") : f.evidence \subseteq group

\* RepeatedAuthenticationFailureRule.cs:21: "Finds three or more failed
\* authentication events for the same identity and IP in ten minutes."
WithinTenMinutes == \A f \in Evaluate(stored) : f.lastSeen - f.firstSeen <= Window
=============================================================================
