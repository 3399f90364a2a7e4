CONSTANTS
  Threads = {t1, t2, t3}
  NoThread = NoThread
  Modulus = 8
  WorkPeriod = 2
  MaxLoops = 9
  Programs = {"nonblockpulserec", "reptimer", "death_pulse", "kbd_ev", "kbd_ist"}
  Pids = {p1, p2, p3}
  Burst = 3
  MaxEvents = 6
  KillParents = TRUE
SPECIFICATION ChosenSpec
INVARIANTS
  TypeOK
  VarsAgree
  CountsUpdates
  EveryPeriodAnnounced
  TypesOK
  EachEventOnce
  ZombieAsReported
  MutexRecovered
PROPERTIES
  JoinReturns
  EveryEventHandled
  ParentsGetThrough
CHECK_DEADLOCK FALSE
