CONSTANTS t1 = t1 Nobody = Nobody Tick = t1 Threads = {t1}
  AnchorCapacity = 2 MaxAttempts = 2 MaxFaults = 1
  QueueCap = 2 DecisionCapacity = 1 MaxDecisions = 3 MaxCrashes = 1
SPECIFICATION FairSpec
CHECK_DEADLOCK FALSE
INVARIANTS AttestedCountsLosses NotAccused DeliveryFaceTrue
 
