SPECIFICATION Spec
CONSTANTS
  Callers = {a, b, c, d, e}
  MaxCount = 2
  CompactAt = 1
  Freed = Freed
INVARIANTS CounterExact NoLostWakeup QueueIsWaiters
PROPERTIES ImplementsFifo EventuallyGranted
