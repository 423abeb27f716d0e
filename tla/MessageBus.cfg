SPECIFICATION Spec
CONSTANTS
  Envelopes = {e1, e2}
  Topics = {t1}
  Names = {s1}
  None = None
  MaxSubs = 3
  MaxServices = 2
  Capacity = 2
  MaxClients = 2
  MaxSubIds = 3
  MaxServiceIds = 2
  MaxHeld = 1
  MaxPublished = 2
INVARIANT RefsExact
PROPERTIES ExactlyOnce EventuallyFreed
CHECK_DEADLOCK FALSE
