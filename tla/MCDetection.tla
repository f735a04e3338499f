----------------------------- MODULE MCDetection ----------------------------
(* A small instance of Detection for TLC. *)
EXTENDS Detection, TLC

CONSTANTS admin, Admin, ip1

Kind(user, ip, failed) == [user |-> user, ip |-> ip, failed |-> failed]

\* Failures of one user, of the same name in another case, of an address with
\* no user and with a blank one, and a success.
FiveKinds ==
  {Kind(admin, ip1, TRUE), Kind(Admin, ip1, TRUE), Kind(Null, ip1, TRUE),
   Kind(Blank, ip1, TRUE), Kind(admin, ip1, FALSE)}

IgnoringCase == (admin :> admin) @@ (Admin :> admin) @@ (ip1 :> ip1)
=============================================================================
