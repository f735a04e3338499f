SPECIFICATION FairSpec
CONSTANTS
  api = api
  worker = worker
  c1 = c1
  c2 = c2
  c3 = c3
  e1 = e1
  e2 = e2
  v1 = v1
  v2 = v2
  s1 = s1
  s2 = s2
  Absent = Absent
  NoCaller = NoCaller
  Ids = {}
  Copies = {}
  Sources = {}
  SourceOf <- NoSources
  Procs = {api, worker}
  Callers = {c1, c2, c3}
  ProcOf <- ThreeCallers
  Migrating = {api}
  Legacy <- DamagedLegacy
  Schemas = {"old"}
INVARIANTS
  GateExclusive
PROPERTIES
  EveryCallEnds
