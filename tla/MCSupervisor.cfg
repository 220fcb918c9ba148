CONSTANTS
  Users = {ua}
  MaxKeys = 2
  Hosts = {h1, h2}
  Callers = {c}
  Anyone = Anyone
  CallFor = {Anyone}
  None = None
  CrashLoop = 2
  MaxEvents = 3
SPECIFICATION Spec
\* The app may quit.
CHECK_DEADLOCK FALSE
INVARIANTS OneHost RestartsNothingTwice CallsReachTheHost ReportIsTrue
PROPERTIES HostComesUp WaitersHear
