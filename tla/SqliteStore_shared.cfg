SPECIFICATION Spec
CONSTANTS
  api = api
  worker = worker
  c1 = c1
  c2 = c2
  c3 = c3
  e1 = e1
  e2 = e2
  v1 = v1
  v2 = v2
  s1 = s1
  s2 = s2
  Absent = Absent
  NoCaller = NoCaller
  Procs = {api, worker}
  Callers = {c1, c2}
  ProcOf <- OnePerProcess
  Ids = {e1, e2}
  Copies = {v1, v2}
  Sources = {s1, s2}
  SourceOf <- TwoSources
  Schemas = {"none", "old", "current"}
  Migrating = {api, worker}
  Legacy <- TwoCopies
INVARIANTS
  TypeOK
  NoMissingTable
  InitializedMeansReady
PROPERTIES
  DeletedStaysDeleted
  ImplementsEventStore
