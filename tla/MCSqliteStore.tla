---------------------------- MODULE MCSqliteStore ---------------------------
(* Small instances of SqliteStore for TLC. *)
EXTENDS SqliteStore, TLC

CONSTANTS api, worker, c1, c2, c3, e1, e2, v1, v2, s1, s2

Event(i, v) == [kind |-> "event", id |-> i, copy |-> v]
Blank == [kind |-> "blank"]
Corrupt == [kind |-> "corrupt"]

\* Two calls in the API, one in the worker.
ThreeCallers == (c1 :> api) @@ (c2 :> api) @@ (c3 :> worker)
\* One call in each process.
OnePerProcess == (c1 :> api) @@ (c2 :> worker)

\* Without any event: gates and calls that end do not depend on rows.
NoSources == <<>>
OneSource == (e1 :> s1)
TwoSources == (e1 :> s1) @@ (e2 :> s2)

OneLine == <<Event(e1, v1)>>
\* e1 was appended twice with different contents, e2 once.
TwoCopies == <<Event(e1, v1), Event(e1, v2), Event(e2, v1)>>
\* A line that is not JSON, after a blank one.
DamagedLegacy == <<Blank, Corrupt>>
=============================================================================
