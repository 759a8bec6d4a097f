SPECIFICATION ServerSpec
CONSTANTS
  r1 = r1
  r2 = r2
  r3 = r3
  None = None
  Regs = {r1, r2, r3}
  s1 = s1
  s2 = s2
  q1 = q1
  q2 = q2
  Nothing = Nothing
  Sessions = {s1, s2}
  Requests = {q1, q2}
  Kinds = {"revive", "open", "restart", "resume", "release", "delete", "exit", "stop"}
  MaxMishaps = 1
  t1 = t1
  t2 = t2
  t3 = t3
  Absent = Absent
  Transitions = {t1, t2, t3}
  Live = {t3}
  OperationId <- OperationIds
  Target <- Targets
  Base <- InitialSelection
  MaxGeneration = 1
  d1 = d1
  d2 = d2
  d3 = d3
  Unreserved = Unreserved
  Attempts = {d1, d2, d3}
  Relayed = {d2}
  Address <- AddressOf
  Content <- ContentOf
  MaxFaults = 2
  h1 = h1
  h2 = h2
  j1 = j1
  j2 = j2
  j3 = j3
  Hosts = {h1, h2}
  Jobs = {j1, j2, j3}
  Owner <- OwnerOf
  Limit <- LimitOf
  MaxQueued = 2
CHECK_DEADLOCK FALSE
INVARIANTS TypeOK TornDownInFull NoOverlap   OneAdmission ReceiptTruth SubmittedIsAdmitted LimitKept
PROPERTIES NothingStartsAborted MountSettles DisposalSettles StopKeepsRecords Answered NoLostUpdate CommitsAreCurrent TransitionSettles OutcomesFinal  Fifo WaiterServed
