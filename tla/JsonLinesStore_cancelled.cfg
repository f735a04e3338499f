SPECIFICATION Spec
CONSTANTS
  e1 = e1
  e2 = e2
  s1 = s1
  s2 = s2
  Absent = Absent
  NoCaller = NoCaller
  Callers = {c1, c2}
  Ids = {e1, e2}
  Copies = {v1}
  Sources = {s1, s2}
  SourceOf <- TwoSources
  MaxPieces = 3
  Interrupts = {"cancel"}
INVARIANTS
  OneObjectPerLine
