SPECIFICATION QueuesSpec
CONSTANTS
  NULL = NULL
  t1 = t1
  t2 = t2
  t3 = t3
  Tasks = {t1, t2, t3}
  MicrosPerSec = 2
  MaxSec = 2
  Clock <- MCClock
  Delays <- MCDelays
  a = a
  b = b
  c = c
  Value = Value
  Wired = Wired
  Insts = {a, b, c}
  Ports = {Value, Wired}
  WiringPort = Wired
  Wirable <- MCWirable
  Linkable <- MCLinkable
  Handled <- MCHandled
  MaxSends = 2
  Reentrant = TRUE
  Relink = FALSE
INVARIANT CursorLive
CHECK_DEADLOCK FALSE
