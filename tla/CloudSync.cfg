SPECIFICATION Spec

CONSTANTS
  Threads = {t1, t2, t3}
  Nobody = Nobody
  Absent = Absent
  RetryTicks = 2
  MaxStatus = 3

INVARIANT
  HealthIsHonest
PROPERTY
  RowNeverGoesBack
