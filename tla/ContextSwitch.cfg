CONSTANTS
  KernelFrames = 3
  StackFrames = 2
  Contents = {0, 1, 2}
SPECIFICATION Spec
INVARIANTS SpBalanced PushesContained
PROPERTIES ContextKept BRunsOnce AResumed
