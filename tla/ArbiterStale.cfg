SPECIFICATION Spec
CONSTANTS
  Clients = {c1, c2}
  NoClient = NoClient
  Timers = {t1, t2, t3}
  NoTimer = NoTimer
PROPERTY
  ReplacedTimerHarmless
