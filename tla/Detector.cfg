SPECIFICATION Spec
CONSTANTS
  MaxCalls = 3
  RingMinCap = 2
  Zero = zero
  Targets = {t1, t2, query}
  Places = {t1, t2}
  Inside = {t1}
  NoTarget = none
  Windows = {0, 1}
  RateWindow = 1
  MaxTime = 2
  MaxObserved = 5
\* A session may fall silent for good.
CHECK_DEADLOCK FALSE
INVARIANTS
  TypeOK
  EvictedSlotsCleared
  CountsAreHonest
  ReportsNameTheCall
PROPERTIES
  ImplementsHistory
