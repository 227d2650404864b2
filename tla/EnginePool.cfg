\* Three threads share two permits; one cached key and one that is not cached.
\* At most 2 pooled and 2 uncached engines live at a time: 4 addresses.
CONSTANTS
  Threads = {t1, t2, t3}
  Engines = {e1, e2, e3, e4}
  Keys = {cached, uncached}
  CachedKeys = {cached}
  Permits = 2
  NoThread = NoThread
  NoEngine = NoEngine
SPECIFICATION FairSpec
INVARIANTS TypeOK PermitsAddUp OneThreadPerEngine LeasesMatchHolders PoolStaysSmall
PROPERTIES PromiseKept WaitingEnds
