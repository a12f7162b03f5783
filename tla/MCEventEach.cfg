SPECIFICATION EventSpec
CONSTANTS
  t1 = t1
  t2 = t2
  t3 = t3
  a = a
  b = b
  w = w
  NoCall = NoCall
  Threads = {t1, t2}
  Flags = {a, b}
  Wide = {}
  Profiles <- Apart
PROPERTY SleepersWake
