CONSTANTS
  MaxBytes = 4
  BufferSize = 3
  Window = 1
  Unreliable = {"client"}
SPECIFICATION Spec
INVARIANT TypeOK
INVARIANT NoLossNoReorder
INVARIANT ShutdownAfterDrain
INVARIANT CleanEndIsComplete
INVARIANT ErrorOnlyAfterReset
INVARIANT NoLostWakeup
INVARIANT UndestroyedOnlyWhenPending
PROPERTY ImplementsPipe
PROPERTY FinishedGetNothing
CHECK_DEADLOCK FALSE
