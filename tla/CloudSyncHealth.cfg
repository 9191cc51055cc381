SPECIFICATION Spec

CONSTANTS
  Threads = {t1, t2}
  Nobody = Nobody
  Absent = Absent
  RetryTicks = 2
  MaxStatus = 2

INVARIANT
  HealthIsAlwaysHonest
