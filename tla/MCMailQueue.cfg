CONSTANTS
  plain = plain
  urgent = urgent
  s1 = s1
  s2 = s2
  Messages = {plain, urgent}
  Critical = {urgent}
  Priority <- MCPriority
  Senders = {s1, s2}
  Tries = 1
  Bulk = 1
  MaxCrashes = 1
  MaxBeside = 1
  Scenes <- MCScenes
  None = None
SPECIFICATION Spec
INVARIANTS DeliveriesRecorded DoubledByOverrun StrandedByAccident
PROPERTIES SentIsFinal QueueDrains
