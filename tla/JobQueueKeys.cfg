SPECIFICATION Spec
CONSTANTS
  j1 = j1  j2 = j2  p1 = p1  p2 = p2  q1 = q1  q2 = q2  k1 = k1
  NoKey = NoKey  None = None
  Jobs <- MCJobs
  Procs <- MCProcs
  Producers <- MCProducers
  WorkerIds <- MCProcs
  WorkerIdOf <- MCIdOf
  Keys = {k1}
  KeyOf <- SharedKey
  CallbackOf <- MCCallback
  Priority <- MCPriority
  MaxAttempts <- MCMax
  AttemptBatch = 1
  AttemptCap = 2
  LeaseSeconds = 1
  RetryDelay <- MCDelay
  ReapBatch = 1
  EnqueueDelays <- MCDelays
  MaxTime = 2
SYMMETRY Symmetry
INVARIANT QueueSafety
PROPERTIES StepSafety KeepsContract
