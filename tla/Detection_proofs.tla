-------------------------- MODULE Detection_proofs ---------------------------
(***************************************************************************)
(* Theorems about Detection, for stores of any size, any Threshold and     *)
(* Window, and events that tie, arrive late or share names.  The search    *)
(* for evidence never gives up on a group that is large enough, so a       *)
(* finding for an identity depends on the number of its failures alone:    *)
(* DetectedExactly, from which the properties of the reports follow.       *)
(***************************************************************************)
EXTENDS Detection, NaturalLemmas, FiniteSetTheorems, FunctionTheorems, TLAPS

\* Events that can be ordered: a finite set, with times and distinct identifiers.
EventSet(events) ==
  /\ IsFiniteSet(events)
  /\ \A e \in events : e.id \in Nat /\ e.time \in Nat
  /\ \A d, e \in events : d.id = e.id => d = e

\* A subset of such a set is one.
LEMMA SubsetOfEvents ==
  ASSUME NEW events, EventSet(events), NEW some \in SUBSET events
  PROVE  EventSet(some) /\ Cardinality(some) \in Nat /\ Cardinality(some) <= Cardinality(events)
<1>1. IsFiniteSet(some) /\ Cardinality(some) <= Cardinality(events)
  BY FS_Subset DEF EventSet
<1> QED BY <1>1, FS_CardinalityType DEF EventSet

\* Sorting by time, and by identifier where times are equal, gives every event one
\* place, and later places to later events.
LEMMA OrderedPlaces ==
  ASSUME NEW group, EventSet(group)
  PROVE  LET ordered == Ordered(group)
             size    == Cardinality(group)
         IN  /\ size \in Nat
             /\ DOMAIN ordered = 1..size
             /\ \A n \in 1..size : ordered[n] \in group
             /\ \A e \in group : \E n \in 1..size : ordered[n] = e
             /\ \A m, n \in 1..size : ordered[m] = ordered[n] => m = n
             /\ \A m, n \in 1..size : m <= n => ordered[m].time <= ordered[n].time
<1> DEFINE ordered == Ordered(group)
           size == Cardinality(group)
           before == [e \in group |-> {d \in group : Earlier(d, e)}]
<1>1. /\ before \in [group -> SUBSET group]
      /\ \A e \in group : before[e] = {d \in group : Earlier(d, e)}
  OBVIOUS
<1>2. ordered = [n \in 1..size |-> CHOOSE e \in group : Cardinality({d \in group : Earlier(d, e)}) = n - 1]
  BY DEF Ordered
<1>3. \A d, e \in group : d \in before[e] <=> Earlier(d, e)
  BY <1>1
<1> HIDE DEF before
<1>4. /\ \A e \in group : e.id \in Nat /\ e.time \in Nat
      /\ \A d, e \in group : d.id = e.id => d = e
      /\ IsFiniteSet(group)
  BY DEF EventSet
<1>5. \A e \in group : e \notin before[e]
  BY <1>3, <1>4 DEF Earlier
<1>6. ASSUME NEW d \in group, NEW e \in group, d \in before[e]
      PROVE  before[d] \subseteq before[e]
  <2>1. ASSUME NEW c \in group, Earlier(c, d)
        PROVE  Earlier(c, e)
    <3>1. Earlier(d, e)
      BY <1>3, <1>6
    <3> QED BY <1>4, <2>1, <3>1 DEF Earlier
  <2> QED BY <1>1, <1>3, <2>1
<1>7. \A d, e \in group : d /= e => d \in before[e] \/ e \in before[d]
  <2>1. ASSUME NEW d \in group, NEW e \in group, d /= e
        PROVE  Earlier(d, e) \/ Earlier(e, d)
    BY <1>4, <2>1 DEF Earlier
  <2> QED BY <1>3, <2>1
<1>8. /\ size \in Nat
      /\ \A e \in group : Cardinality(before[e]) \in 0..(size - 1)
      /\ \A d, e \in group : d \in before[e] <=> Cardinality(before[d]) < Cardinality(before[e])
      /\ \A n \in 0..(size - 1) : \E e \in group : Cardinality(before[e]) = n
      /\ \A d, e \in group : Cardinality(before[d]) = Cardinality(before[e]) => d = e
  BY <1>1, <1>4, <1>5, <1>6, <1>7, Places
<1>9. DOMAIN ordered = 1..size
  BY <1>2
<1>10. ASSUME NEW n \in 1..size
       PROVE  ordered[n] \in group /\ Cardinality(before[ordered[n]]) = n - 1
  <2>1. n - 1 \in 0..(size - 1)
    BY <1>8
  <2>2. PICK e \in group : Cardinality(before[e]) = n - 1
    BY <1>8, <2>1
  <2>3. Cardinality({d \in group : Earlier(d, e)}) = n - 1
    BY <1>1, <2>2
  <2>4. ordered[n] = CHOOSE x \in group : Cardinality({d \in group : Earlier(d, x)}) = n - 1
    BY <1>2
  <2>5. /\ ordered[n] \in group
        /\ Cardinality({d \in group : Earlier(d, ordered[n])}) = n - 1
    <3> HIDE DEF ordered
    <3> QED BY <2>3, <2>4, Zenon
  <2> QED BY <1>1, <2>5
<1> HIDE DEF ordered, size
<1>11. ASSUME NEW e \in group
       PROVE  \E n \in 1..size : ordered[n] = e
  <2>1. PICK n \in Nat : n = Cardinality(before[e]) + 1 /\ n \in 1..size
    BY <1>8
  <2>2. ordered[n] \in group /\ Cardinality(before[ordered[n]]) = Cardinality(before[e])
    BY <1>8, <1>10, <2>1
  <2> QED BY <1>8, <2>1, <2>2
<1>12. \A m, n \in 1..size : ordered[m] = ordered[n] => m = n
  BY <1>8, <1>10
<1>13. ASSUME NEW m \in 1..size, NEW n \in 1..size, m <= n
       PROVE  ordered[m].time <= ordered[n].time
  <2>1. CASE m = n
    BY <1>4, <1>10, <2>1
  <2>2. CASE m < n
    <3>1. ordered[m] \in before[ordered[n]]
      BY <1>8, <1>10, <2>2
    <3>2. Earlier(ordered[m], ordered[n])
      BY <1>3, <1>10, <3>1
    <3> QED BY <1>4, <1>10, <3>2 DEF Earlier
  <2> QED BY <1>8, <1>13, <2>1, <2>2
<1> QED BY <1>8, <1>9, <1>10, <1>11, <1>12, <1>13 DEF ordered, size

\* The while loop ends, at the last event within the window or before it, and never
\* before Threshold events, wherever it starts.
LEMMA EndExists ==
  ASSUME NEW ordered, NEW size \in Nat, NEW start \in Nat \ {0},
         start + Threshold - 1 <= size,
         \A n \in 1..size : ordered[n].time \in Nat
  PROVE  EndOf(ordered, size, start) \in (start + Threshold - 1)..size
<1> DEFINE Within(n) == ordered[n].time - ordered[start].time <= Window
           Beyond(n) == ordered[n].time - ordered[start].time > Window
           shortest == start + Threshold - 1
           Good == {end \in shortest..size : \A n \in (start + Threshold)..end : Within(n)}
<1>1. /\ Threshold \in Nat \ {0} /\ Window \in Nat /\ shortest \in Nat
      /\ shortest + 1 = start + Threshold /\ start \in 1..size
  BY BoundAssumption
<1>2. ASSUME NEW n \in 1..size, ~Within(n)
      PROVE  Beyond(n)
  <2>1. ordered[n].time \in Nat /\ ordered[start].time \in Nat
    BY <1>1
  <2> QED BY <1>1, <1>2, <2>1
<1>3. EndOf(ordered, size, start) = CHOOSE end \in shortest..size :
        /\ \A n \in (start + Threshold)..end : Within(n)
        /\ end < size => Beyond(end + 1)
  BY DEF EndOf
<1> HIDE DEF Within, Beyond, shortest
<1>4. Good \subseteq Nat /\ \A x \in Good : x <= size
  BY <1>1
<1>5. shortest \in Good
  BY <1>1 DEF shortest
<1>6. PICK end \in Good : \A x \in Good : x <= end
  <2> HIDE DEF Good
  <2> QED BY <1>4, <1>5, GreatestNumber
<1>7. ASSUME end < size
      PROVE  Beyond(end + 1)
  <2>1. end + 1 \in shortest..size /\ end + 1 \in 1..size /\ end + 1 \notin Good
    BY <1>1, <1>4, <1>6, <1>7
  <2>2. PICK n \in (start + Threshold)..(end + 1) : ~Within(n)
    BY <2>1
  <2>3. n = end + 1
    BY <1>1, <1>6, <2>1, <2>2
  <2> QED BY <1>2, <2>1, <2>2, <2>3
<1>8. \E e \in shortest..size :
        /\ \A n \in (start + Threshold)..e : Within(n)
        /\ e < size => Beyond(e + 1)
  BY <1>6, <1>7
<1>9. EndOf(ordered, size, start) \in shortest..size
  BY <1>3, <1>8, Zenon
<1> QED BY <1>9 DEF shortest

\* A group has a finding when, and only when, it has Threshold failures, and its
\* evidence is a stretch of the group in its order.
LEMMA FindingOfGroup ==
  ASSUME NEW group, EventSet(group)
  PROVE  LET ordered == Ordered(group)
             size    == Cardinality(group)
             finding == FindingOf(group)
         IN  /\ Starts(ordered, size) /= {} <=> size >= Threshold
             /\ size >= Threshold =>
                  \E start, end \in 1..size :
                    /\ end - start + 1 >= Threshold
                    /\ finding.user = ordered[start].user
                    /\ finding.ip = ordered[start].ip
                    /\ finding.evidence = {ordered[n] : n \in start..end}
                    /\ finding.firstSeen = ordered[start].time
                    /\ finding.lastSeen = ordered[end].time
<1> DEFINE ordered == Ordered(group)
           size == Cardinality(group)
           starts == Starts(ordered, size)
<1>1. /\ size \in Nat /\ \A n \in 1..size : ordered[n] \in group
      /\ Threshold \in Nat \ {0}
  BY OrderedPlaces, BoundAssumption
<1>2. \A n \in 1..size : ordered[n].time \in Nat
  BY <1>1 DEF EventSet
<1> HIDE DEF ordered, size
<1>3. ASSUME NEW n \in 1..size, n + Threshold - 1 <= size
      PROVE  EndOf(ordered, size, n) \in (n + Threshold - 1)..size
  BY <1>1, <1>2, <1>3, EndExists
<1>4. starts = {n \in 1..size : n + Threshold - 1 <= size}
  <2>1. ASSUME NEW n \in 1..size, n + Threshold - 1 <= size
        PROVE  EndOf(ordered, size, n) - n + 1 >= Threshold
    <3>1. EndOf(ordered, size, n) \in (n + Threshold - 1)..size
      BY <1>3, <2>1
    <3> QED BY <1>1, <3>1
  <2> QED BY <2>1 DEF Starts
<1>5. starts /= {} <=> size >= Threshold
  <2>1. ASSUME size >= Threshold
        PROVE  1 \in starts
    BY <1>1, <1>4, <2>1
  <2> QED BY <1>1, <1>4, <2>1
<1>6. ASSUME size >= Threshold
      PROVE  \E start, end \in 1..size :
               /\ end - start + 1 >= Threshold
               /\ FindingOf(group).user = ordered[start].user
               /\ FindingOf(group).ip = ordered[start].ip
               /\ FindingOf(group).evidence = {ordered[n] : n \in start..end}
               /\ FindingOf(group).firstSeen = ordered[start].time
               /\ FindingOf(group).lastSeen = ordered[end].time
  <2> DEFINE start == CHOOSE s \in starts : \A t \in starts : s <= t
             end == EndOf(ordered, size, start)
  <2>1. start \in starts
    <3>1. starts \subseteq Nat /\ starts /= {}
      BY <1>1, <1>4, <1>5, <1>6
    <3> HIDE DEF starts
    <3>2. \E s \in starts : \A t \in starts : s <= t
      BY <3>1, LeastNumber
    <3> QED BY <3>2
  <2>2. FindingOf(group) = [user      |-> ordered[start].user,
                            ip        |-> ordered[start].ip,
                            evidence  |-> {ordered[n] : n \in start..end},
                            firstSeen |-> ordered[start].time,
                            lastSeen  |-> ordered[end].time]
    BY DEF FindingOf, ordered, size
  <2> HIDE DEF start
  <2>3. start \in 1..size /\ start + Threshold - 1 <= size
    BY <1>4, <2>1
  <2>4. end \in (start + Threshold - 1)..size
    BY <1>3, <2>3
  <2> HIDE DEF end
  <2>5. end \in 1..size /\ end - start + 1 >= Threshold
    BY <1>1, <2>3, <2>4
  <2> QED BY <2>2, <2>3, <2>5
<1> QED BY <1>5, <1>6 DEF ordered, size

\* The failures of one user and address.
FailuresOf(events, user, ip) == {e \in Failures(events) : e.user = user /\ e.ip = ip}

\* Every finding is that of the failures of the identity it names.
LEMMA FindingIsOfItsIdentity ==
  ASSUME NEW events, EventSet(events), NEW f \in Evaluate(events)
  PROVE  LET group == FailuresOf(events, f.user, f.ip)
         IN  /\ group \subseteq Failures(events) /\ EventSet(group)
             /\ Cardinality(group) >= Threshold
             /\ f = FindingOf(group)
<1>1. PICK group \in Groups(events) :
        /\ f = FindingOf(group)
        /\ Starts(Ordered(group), Cardinality(group)) /= {}
  BY DEF Evaluate
<1>2. PICK failure \in Failures(events) : group = FailuresOf(events, failure.user, failure.ip)
  BY DEF Groups, FailuresOf
<1>3. /\ group \subseteq Failures(events) /\ group \subseteq events
      /\ \A e \in group : e.user = failure.user /\ e.ip = failure.ip
  BY <1>2 DEF FailuresOf, Failures
<1>4. EventSet(group)
  BY <1>3, SubsetOfEvents
<1>5. Cardinality(group) >= Threshold
  BY <1>1, <1>4, FindingOfGroup
<1>6. PICK start \in 1..Cardinality(group) :
        f.user = Ordered(group)[start].user /\ f.ip = Ordered(group)[start].ip
  BY <1>1, <1>4, <1>5, FindingOfGroup
<1>7. Ordered(group)[start] \in group
  BY <1>4, OrderedPlaces
<1>8. f.user = failure.user /\ f.ip = failure.ip
  BY <1>3, <1>6, <1>7
<1>9. group = FailuresOf(events, f.user, f.ip)
  BY <1>2, <1>8
<1> QED BY <1>1, <1>3, <1>4, <1>5, <1>9

\* The report names an identity exactly when it has Threshold failures: the window
\* decides about the evidence alone.
THEOREM DetectedExactly ==
  ASSUME NEW events, EventSet(events), NEW user, NEW ip
  PROVE  Detected(events, user, ip) <=> Cardinality(FailuresOf(events, user, ip)) >= Threshold
<1>1. ASSUME Detected(events, user, ip)
      PROVE  Cardinality(FailuresOf(events, user, ip)) >= Threshold
  BY <1>1, FindingIsOfItsIdentity DEF Detected
<1>2. ASSUME Cardinality(FailuresOf(events, user, ip)) >= Threshold
      PROVE  Detected(events, user, ip)
  <2> DEFINE group == FailuresOf(events, user, ip)
             f == FindingOf(group)
  <2>1. /\ group \subseteq Failures(events) /\ group \subseteq events
        /\ \A e \in group : e.user = user /\ e.ip = ip
    BY DEF FailuresOf, Failures
  <2>2. EventSet(group)
    BY <2>1, SubsetOfEvents
  <2>3. group /= {}
    BY <1>2, FS_EmptySet, BoundAssumption
  <2>4. group \in Groups(events)
    <3>1. PICK e \in group : e \in Failures(events) /\ e.user = user /\ e.ip = ip
      BY <2>1, <2>3
    <3>2. group = {d \in Failures(events) : d.user = e.user /\ d.ip = e.ip}
      BY <3>1 DEF FailuresOf
    <3> QED BY <3>1, <3>2 DEF Groups
  <2>5. Starts(Ordered(group), Cardinality(group)) /= {}
    BY <1>2, <2>2, FindingOfGroup
  <2>6. f \in Evaluate(events)
    BY <2>4, <2>5 DEF Evaluate
  <2>7. f.user = user /\ f.ip = ip
    <3>1. PICK start \in 1..Cardinality(group) :
            f.user = Ordered(group)[start].user /\ f.ip = Ordered(group)[start].ip
      BY <1>2, <2>2, FindingOfGroup
    <3>2. Ordered(group)[start] \in group
      BY <2>2, OrderedPlaces
    <3> QED BY <2>1, <3>1, <3>2
  <2> QED BY <2>6, <2>7 DEF Detected
<1> QED BY <1>1, <1>2

\* More events keep every identity in the report.
LEMMA DetectedInMore ==
  ASSUME NEW events, EventSet(events), NEW some \in SUBSET events, NEW user, NEW ip,
         Detected(some, user, ip)
  PROVE  Detected(events, user, ip)
<1>1. EventSet(some)
  BY SubsetOfEvents
<1>2. /\ FailuresOf(some, user, ip) \subseteq FailuresOf(events, user, ip)
      /\ FailuresOf(some, user, ip) \subseteq some
      /\ FailuresOf(events, user, ip) \subseteq events
  BY DEF FailuresOf, Failures
<1>3. /\ EventSet(FailuresOf(events, user, ip))
      /\ Cardinality(FailuresOf(events, user, ip)) \in Nat
      /\ Cardinality(FailuresOf(some, user, ip)) \in Nat
      /\ Cardinality(FailuresOf(some, user, ip)) <= Cardinality(FailuresOf(events, user, ip))
  BY <1>1, <1>2, SubsetOfEvents
<1>4. Cardinality(FailuresOf(some, user, ip)) >= Threshold
  BY <1>1, DetectedExactly
<1>5. Cardinality(FailuresOf(events, user, ip)) >= Threshold
  BY <1>3, <1>4, BoundAssumption
<1> QED BY <1>5, DetectedExactly

\* The evidence of a finding is a stretch of the failures of its identity, in the
\* order of time: none in between is left out.
LEMMA EvidenceOf ==
  ASSUME NEW events, EventSet(events), NEW f \in Evaluate(events)
  PROVE  /\ Cardinality(f.evidence) >= Threshold /\ f.evidence \subseteq events
         /\ f.evidence \subseteq Failures(events)
         /\ \A e \in f.evidence :
              /\ e.failed /\ e.user = f.user /\ e.ip = f.ip
              /\ f.firstSeen <= e.time /\ e.time <= f.lastSeen
         /\ \A e \in Failures(events) :
              e.user = f.user /\ e.ip = f.ip /\ f.firstSeen < e.time /\ e.time < f.lastSeen
                => e \in f.evidence
<1> DEFINE group == FailuresOf(events, f.user, f.ip)
           ordered == Ordered(group)
           size == Cardinality(group)
<1>1. EventSet(group) /\ size >= Threshold /\ f = FindingOf(group)
  BY FindingIsOfItsIdentity
<1>2. PICK start \in 1..size, end \in 1..size :
        /\ end - start + 1 >= Threshold
        /\ f.evidence = {ordered[n] : n \in start..end}
        /\ f.firstSeen = ordered[start].time
        /\ f.lastSeen = ordered[end].time
  BY <1>1, FindingOfGroup
<1>3. /\ size \in Nat
      /\ \A n \in 1..size : ordered[n] \in group
      /\ \A e \in group : \E n \in 1..size : ordered[n] = e
      /\ \A m, n \in 1..size : ordered[m] = ordered[n] => m = n
      /\ \A m, n \in 1..size : m <= n => ordered[m].time <= ordered[n].time
  BY <1>1, OrderedPlaces
<1>4. \A e \in group : e.failed /\ e.user = f.user /\ e.ip = f.ip /\ e.time \in Nat
  BY <1>1 DEF FailuresOf, Failures, IsAuthenticationFailure, EventSet
<1>5. /\ group \subseteq events /\ group \subseteq Failures(events)
      /\ \A e \in Failures(events) : e.user = f.user /\ e.ip = f.ip => e \in group
  BY DEF FailuresOf, Failures
<1> HIDE DEF group, ordered, size
<1>6. Cardinality(f.evidence) = end - start + 1
  <2> DEFINE h == [n \in start..end |-> ordered[n]]
  <2>1. /\ start \in Nat /\ end \in Nat /\ start..end \subseteq 1..size
        /\ start <= end + 1
    BY <1>2, <1>3, BoundAssumption
  <2>2. /\ h \in [start..end -> f.evidence]
        /\ \A m, n \in start..end : h[m] = h[n] => m = n
        /\ \A e \in f.evidence : \E n \in start..end : h[n] = e
    BY <1>2, <1>3, <2>1
  <2> HIDE DEF h
  <2>3. h \in Surjection(start..end, f.evidence) /\ h \in Injection(start..end, f.evidence)
    BY <2>2, Fun_IsSurj, Fun_IsInj
  <2>4. IsFiniteSet(start..end) /\ Cardinality(start..end) = end - start + 1
    BY <2>1, FS_Interval
  <2> QED BY <2>3, <2>4, FS_Surjection
<1>7. ASSUME NEW e \in f.evidence
      PROVE  /\ e.failed /\ e.user = f.user /\ e.ip = f.ip
             /\ f.firstSeen <= e.time /\ e.time <= f.lastSeen
  <2>1. PICK n \in start..end : e = ordered[n]
    BY <1>2
  <2>2. n \in 1..size /\ start <= n /\ n <= end
    BY <1>3, <2>1
  <2>3. e \in group /\ ordered[start].time <= e.time /\ e.time <= ordered[end].time
    BY <1>3, <2>1, <2>2
  <2> QED BY <1>2, <1>4, <2>3
<1>8. ASSUME NEW e \in Failures(events), e.user = f.user, e.ip = f.ip,
             f.firstSeen < e.time, e.time < f.lastSeen
      PROVE  e \in f.evidence
  <2>1. PICK n \in 1..size : ordered[n] = e
    BY <1>3, <1>5, <1>8
  <2>2. /\ e.time \in Nat /\ ordered[start].time \in Nat /\ ordered[end].time \in Nat
        /\ ordered[start].time < e.time /\ e.time < ordered[end].time
    BY <1>2, <1>3, <1>4, <1>5, <1>8
  <2>3. start <= n
    <3>1. CASE n <= start
      BY <1>3, <2>1, <2>2, <3>1
    <3> QED BY <1>3, <3>1
  <2>4. n <= end
    <3>1. CASE end <= n
      BY <1>3, <2>1, <2>2, <3>1
    <3> QED BY <1>3, <3>1
  <2>5. n \in start..end
    BY <1>3, <2>3, <2>4
  <2> QED BY <1>2, <2>1, <2>5
<1>9. Cardinality(f.evidence) >= Threshold
  BY <1>2, <1>6
<1>10. f.evidence \subseteq events /\ f.evidence \subseteq Failures(events)
  <2>1. start..end \subseteq 1..size
    BY <1>2, <1>3
  <2> QED BY <1>2, <1>3, <1>5, <2>1
<1> QED BY <1>7, <1>8, <1>9, <1>10

\* Events with one value that is there are in one correlation.
LEMMA OneCorrelation ==
  ASSUME NEW events, EventSet(events), NEW some \in SUBSET events, Cardinality(some) > 1,
         NEW field, NEW value, value \notin {Null, Blank}, \A e \in some : e[field] = value
  PROVE  \E group \in Correlate(events, field) : some \subseteq group
<1> DEFINE valued == {e \in events : e[field] \notin {Null, Blank}}
           group == {d \in valued : Folded[d[field]] = Folded[value]}
<1>1. some \subseteq group /\ group \subseteq events
  OBVIOUS
<1>2. PICK e \in some : e \in valued /\ e[field] = value
  BY <1>1, FS_EmptySet
<1>3. Cardinality(group) > 1
  <2> HIDE DEF group
  <2>1. EventSet(group)
    BY <1>1, SubsetOfEvents
  <2>2. /\ Cardinality(some) \in Nat /\ Cardinality(group) \in Nat
        /\ Cardinality(some) <= Cardinality(group)
    BY <1>1, <2>1, SubsetOfEvents
  <2> QED BY <2>2
<1>4. group \in Correlate(events, field)
  BY <1>2, <1>3 DEF Correlate
<1> QED BY <1>1, <1>4

-----------------------------------------------------------------------------
(* The store *)

\* Every stored event is new when it is saved: its identifier is its rank.
StoreInv ==
  /\ IsFiniteSet(stored)
  /\ \A e \in stored : e.id \in 1..Cardinality(stored) /\ e.time \in Nat
  /\ \A d, e \in stored : d.id = e.id => d = e

\* The invariant says what the lemmas above ask of a store.
LEMMA StoreIsEventSet == StoreInv => EventSet(stored)
BY DEF StoreInv, EventSet

\* A new identifier is larger than those in the store.
LEMMA Next_Inv ==
  ASSUME StoreInv, [Next]_stored
  PROVE  StoreInv' /\ stored \subseteq stored'
<1>1. CASE stored' = stored
  BY <1>1 DEF StoreInv
<1>2. CASE Next
  <2>1. PICK time \in 0..MaxTime, kind \in Kinds :
          stored' = stored \union
            {[id |-> Cardinality(stored) + 1, time |-> time,
              user |-> kind.user, ip |-> kind.ip, failed |-> kind.failed]}
    BY <1>2 DEF Next, Save
  <2> DEFINE new == [id |-> Cardinality(stored) + 1, time |-> time,
                     user |-> kind.user, ip |-> kind.ip, failed |-> kind.failed]
  <2>2. stored' = stored \union {new} /\ new.id = Cardinality(stored) + 1 /\ new.time \in Nat
    BY <2>1, BoundAssumption
  <2> HIDE DEF new
  <2>3. Cardinality(stored) \in Nat
    BY FS_CardinalityType DEF StoreInv
  <2>4. new \notin stored
    BY <2>2, <2>3 DEF StoreInv
  <2>5. IsFiniteSet(stored') /\ Cardinality(stored') = Cardinality(stored) + 1
    BY <2>2, <2>4, FS_AddElement DEF StoreInv
  <2> QED BY <2>2, <2>3, <2>5 DEF StoreInv
<1> QED BY <1>1, <1>2

\* The store stays one that the lemmas apply to.
THEOREM StoreIsOrdered == Spec => []StoreInv
<1>1. Init => StoreInv
  BY FS_EmptySet DEF Init, StoreInv
<1> QED BY <1>1, Next_Inv, PTL DEF Spec

-----------------------------------------------------------------------------
(* The reports *)

\* No burst of failures goes unreported, for any window, threshold, order of arrival
\* and ties.
THEOREM NoBurstIsMissed == Spec => []NoMissedBurst
<1>1. StoreInv => NoMissedBurst
  <2> SUFFICES ASSUME StoreInv, NEW id \in Identities, Burst(stored, id[1], id[2])
               PROVE  Detected(stored, id[1], id[2])
    BY DEF NoMissedBurst
  <2>1. EventSet(stored)
    BY StoreIsEventSet
  <2>2. id[1] /= Null \/ id[2] /= Null
    BY DEF Identities
  <2>3. PICK first \in stored :
          Cardinality({e \in stored :
            /\ e.failed /\ e.user = id[1] /\ e.ip = id[2]
            /\ first.time <= e.time /\ e.time <= first.time + Window}) >= Threshold
    BY DEF Burst
  <2> DEFINE burst == {e \in stored :
               /\ e.failed /\ e.user = id[1] /\ e.ip = id[2]
               /\ first.time <= e.time /\ e.time <= first.time + Window}
             all == FailuresOf(stored, id[1], id[2])
  <2>4. burst \subseteq all /\ all \subseteq stored
    BY <2>2 DEF FailuresOf, Failures, IsAuthenticationFailure
  <2> HIDE DEF burst
  <2>5. EventSet(all)
    BY <2>1, <2>4, SubsetOfEvents
  <2>6. /\ Cardinality(burst) \in Nat /\ Cardinality(all) \in Nat
        /\ Cardinality(burst) <= Cardinality(all)
    BY <2>4, <2>5, SubsetOfEvents, FS_CardinalityType DEF EventSet
  <2>7. Cardinality(all) >= Threshold
    BY <2>3, <2>6, BoundAssumption DEF burst
  <2> QED BY <2>1, <2>7, DetectedExactly
<1> QED BY <1>1, StoreIsOrdered, PTL

\* The evidence of a finding is a run of its identity's failures, none left out, and
\* long enough.
THEOREM EvidenceLeavesNoneOut == Spec => []EvidenceIsARun
<1>1. StoreInv => EvidenceIsARun
  BY StoreIsEventSet, EvidenceOf DEF EvidenceIsARun
<1> QED BY <1>1, StoreIsOrdered, PTL

\* A limit can only hide: what the latest events show, the whole store shows.
THEOREM LimitHidesOnly == Spec => []LimitOnlyHides
<1>1. StoreInv => LimitOnlyHides
  <2>1. \A limit : Latest(stored, limit) \subseteq stored
    BY DEF Latest
  <2> QED BY <2>1, StoreIsEventSet, DetectedInMore DEF LimitOnlyHides
<1> QED BY <1>1, StoreIsOrdered, PTL

\* Whatever the limit of an investigation: a save takes an identity out of the report
\* only by taking evidence out of the events that are looked at.  What is left of
\* the evidence can move, but there is always enough of it for a finding.
THEOREM SavesKeepDetections == Spec => DetectionSurvivesSave
<1> DEFINE Kept(limit) ==
      \A f \in Evaluate(Latest(stored, limit)) :
        f.evidence \subseteq Latest(stored', limit) =>
          Detected(Latest(stored', limit), f.user, f.ip)
<1>1. ASSUME StoreInv, StoreInv', NEW limit PROVE Kept(limit)
  <2> DEFINE R == Latest(stored, limit)
             S == Latest(stored', limit)
  <2> SUFFICES ASSUME NEW f \in Evaluate(R), f.evidence \subseteq S
               PROVE  Detected(S, f.user, f.ip)
    OBVIOUS
  <2>1. EventSet(stored) /\ EventSet(stored') /\ R \subseteq stored /\ S \subseteq stored'
    BY <1>1, StoreIsEventSet DEF Latest, StoreInv, EventSet
  <2> HIDE DEF R, S
  <2>2. EventSet(R) /\ EventSet(S)
    BY <2>1, SubsetOfEvents
  <2>3. /\ Cardinality(f.evidence) >= Threshold
        /\ f.evidence \subseteq R /\ f.evidence \subseteq Failures(R)
        /\ \A e \in f.evidence : e.user = f.user /\ e.ip = f.ip
    BY <2>2, EvidenceOf
  <2> DEFINE all == FailuresOf(S, f.user, f.ip)
  <2>4. f.evidence \subseteq all /\ all \subseteq S
    BY <2>3 DEF FailuresOf, Failures
  <2>5. EventSet(all)
    BY <2>2, <2>4, SubsetOfEvents
  <2> HIDE DEF all
  <2>6. /\ Cardinality(f.evidence) \in Nat /\ Cardinality(all) \in Nat
        /\ Cardinality(f.evidence) <= Cardinality(all)
    BY <2>4, <2>5, SubsetOfEvents
  <2>7. Cardinality(all) >= Threshold
    BY <2>3, <2>6, BoundAssumption
  <2> QED BY <2>2, <2>7, DetectedExactly DEF all
<1>2. StoreInv /\ StoreInv' => [\A limit \in 1..MaxEvents : Kept(limit)]_stored
  BY <1>1
<1> QED BY <1>2, StoreIsOrdered, PTL DEF DetectionSurvivesSave

\* The evidence of a finding with a user lies in one correlation of that user, and
\* the same for its address: events whose names the rule takes for equal are never
\* told apart by the correlation.  Threshold is above one because a correlation
\* takes two events.
THEOREM EvidenceStaysTogether ==
  ASSUME Threshold > 1
  PROVE  Spec => []EvidenceIsCorrelated
<1>1. StoreInv => EvidenceIsCorrelated
  <2> SUFFICES ASSUME StoreInv, NEW f \in Evaluate(stored)
               PROVE  /\ f.user \notin {Null, Blank} =>
                           \E group \in Correlate(stored, "user") : f.evidence \subseteq group
                      /\ f.ip \notin {Null, Blank} =>
                           \E group \in Correlate(stored, "ip") : f.evidence \subseteq group
    BY DEF EvidenceIsCorrelated
  <2>1. /\ EventSet(stored) /\ f.evidence \in SUBSET stored
        /\ Cardinality(f.evidence) >= Threshold
        /\ \A e \in f.evidence : e.user = f.user /\ e.ip = f.ip
    BY StoreIsEventSet, EvidenceOf
  <2>2. Cardinality(f.evidence) > 1
    <3>1. Cardinality(f.evidence) \in Nat
      BY <2>1, SubsetOfEvents
    <3> QED BY <2>1, <3>1, BoundAssumption
  <2>3. \A e \in f.evidence : e["user"] = f.user /\ e["ip"] = f.ip
    BY <2>1
  <2>4. ASSUME f.user \notin {Null, Blank}
        PROVE  \E group \in Correlate(stored, "user") : f.evidence \subseteq group
    BY <2>1, <2>2, <2>3, <2>4, OneCorrelation
  <2>5. ASSUME f.ip \notin {Null, Blank}
        PROVE  \E group \in Correlate(stored, "ip") : f.evidence \subseteq group
    BY <2>1, <2>2, <2>3, <2>5, OneCorrelation
  <2> QED BY <2>4, <2>5
<1> QED BY <1>1, StoreIsOrdered, PTL
=============================================================================
