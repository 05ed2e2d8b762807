SPECIFICATION Spec
CONSTANTS
  s1 = s1
  s2 = s2
  w1 = w1
  Procs = {s1, s2, w1}
  MaxFaults = 2
  CommandOf <- Deployment
  AppScheduler = FALSE
  WorkerQueues = {"default", "thumbnails"}
  Interval = 2
  LeaseTime = 3
  MaxJobs = 2
  Nobody = Nobody
  Dead = Dead
CHECK_DEADLOCK FALSE
INVARIANTS
  TypeOK
PROPERTIES
  Spaced
  PruneRecurs
