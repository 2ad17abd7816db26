CONSTANTS
  w1 = w1
  w2 = w2
  w3 = w3
  t1 = t1
  t2 = t2
  Nobody = Nobody
  Workers <- ThreeWorkers
  IOThreads <- TwoIOThreads
SPECIFICATION FairSpec
INVARIANTS TypeOK BufferSafe PostedWhenDone OneHolder ClearedAlone
PROPERTIES RequestsServed RunEnds
