\* Three goroutines over two keys: two can contend on one key while the third
\* drops or creates the entry of either.
CONSTANTS
  c1 = c1  c2 = c2  c3 = c3
  k1 = k1  k2 = k2
  m1 = m1  m2 = m2  m3 = m3
  Caller <- MCCaller
  Key <- MCKey
  Mutex <- MCMutex
  NoKey = NoKey
  NoMutex = NoMutex
  NoCaller = NoCaller
SPECIFICATION Spec
INVARIANTS TypeOK MutualExclusion OnlyKeysInUse
PROPERTY OneLockPerKey
