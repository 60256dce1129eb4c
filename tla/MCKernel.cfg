SPECIFICATION KernelSpec
CONSTANTS
  t1 = t1
  t2 = t2
  Thread <- MCThread
  Timer = Timer
  Free = Free
  M = 4
  Wants = {0, 1, 2}
VIEW View
INVARIANTS
  FlagRestored
  OneOwner
  OneUse
  SizeMapped
  HeapSound
PROPERTIES
  ImplementsTimedSleep
  SleepReturns
  AllUp
  LostOnlyByFork
  ImplementsImages
