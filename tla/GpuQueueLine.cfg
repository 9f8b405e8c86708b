\* Three connection threads, a cap of two and the racers behind it; no symmetry, for liveness.
SPECIFICATION FairSpec
CONSTANTS
  t1 = t1
  t2 = t2
  t3 = t3
  Threads <- ThreeThreads
  Cap = 2
  MaxTickets = 5
INVARIANTS
  TypeOK
  MutualExclusion
  NoTicketAbandoned
  NoLostWakeup
PROPERTIES
  EveryRequestIsServed
  ImplementsAdmission
