\* any method beside one of three others, three connections
SPECIFICATION Spec
CONSTANTS
  r1 = r1
  r2 = r2
  Slots <- Slots2
  PoolSize = 3
  Methods <- Methods2
INVARIANTS TypeOK AllOrNothing AnswersTrue StallExplained
PROPERTIES ConnectionsReturned
