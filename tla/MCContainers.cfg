\* Six addresses, a list that counts to three; six timers, a heap of three levels, four
\* expiries.
CONSTANTS
  m1 = m1
  m2 = m2
  m3 = m3
  m4 = m4
  m5 = m5
  m6 = m6
  t1 = t1
  t2 = t2
  t3 = t3
  t4 = t4
  t5 = t5
  t6 = t6
  Contexts <- SixContexts
  itemCount = 3
  Timers <- SixTimers
  Expiries <- OneToFour
SPECIFICATION BothSpec
SYMMETRY TimersAlike
INVARIANTS
  LossIsBounded
  HeapShape
PROPERTY ImplementsSet
\* When every context is lost or freed nothing is left to do.
CHECK_DEADLOCK FALSE
