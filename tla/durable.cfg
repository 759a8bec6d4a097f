SPECIFICATION DurableSpec
CONSTANTS
  p1 = p1
  p2 = p2
  p3 = p3
  p4 = p4
  None = None
  Procs = {p1, p2, p3, p4}
  Legacy = {p4}
  s1 = s1
  s2 = s2
  e1 = e1
  e2 = e2
  NoEnvelope = NoEnvelope
  Envelopes = {e1, e2}
  Sender <- SenderOf
  DeliveryId <- DeliveryIdOf
  MaxDisruptions = 2
CHECK_DEADLOCK FALSE
INVARIANTS Inv MutualExclusion NoLitter PromptedOnce OutboxTells
PROPERTIES LiveLockKept DeadOwnerRecovered DeliverySettles
