SPECIFICATION FairSpec
CONSTANTS
  Callers = {c1, c2}
  Loop = loop
  NoThread = nobody
  MaxTasks = 2
INVARIANTS
  PerCallerOrder
  NoTaskLost
PROPERTIES
  ImplementsTaskQueue
  PushedTaskRuns
  QuitEndsRun
