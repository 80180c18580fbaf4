\* Two hooks for one conversation that may come under two titles, a document, two saves, a crash and a change of day.
CONSTANTS
  Documents = {d1}
  Conversations = {c1}
  Headers = {t1, t2}
  Adders = {a1}
  Hooks = {h1, h2}
  Savers = {s1, s2}
  Chunks = {1}
  MaxDays = 2
  MaxLines = 3
  MaxFaults = 1
  Nothing = Nothing
  Free = Free
SPECIFICATION Spec
SYMMETRY Alike
CONSTRAINT TwoAtOnce
ACTION_CONSTRAINT DayMatters
INVARIANTS RegistryKeeps AnsweredIsStored ConversationsOnce MarkedAfterSave
PROPERTY ImplementsDeliveries
