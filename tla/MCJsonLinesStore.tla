-------------------------- MODULE MCJsonLinesStore --------------------------
(* Small instances of JsonLinesStore for TLC. *)
EXTENDS JsonLinesStore, TLC

CONSTANTS e1, e2, s1, s2

OneSource == (e1 :> s1)
TwoSources == (e1 :> s1) @@ (e2 :> s2)
=============================================================================
