\* proc_sched is not interrupted; five slots would take minutes, four show
\* every shape of the ring: empty, one, two and three processes.
CONSTANTS
  NumProcs = 4
  Preemptible = FALSE
  NULL = null
SPECIFICATION FairSpec
INVARIANTS TypeOK RingIsReady OnlyReadyRun WorkConserving PicksReady
PROPERTY NoStarvation
