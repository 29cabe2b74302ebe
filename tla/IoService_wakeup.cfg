SPECIFICATION Spec
CONSTANTS
  Callers = {c1}
  Loop = loop
  NoThread = nobody
  MaxTasks = 1
PROPERTY
  WakeEndsWait
