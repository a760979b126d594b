CONSTANTS
  c1 = c1
  c2 = c2
  Controllers <- OneController
  WorkerCycle_ms = 1
SPECIFICATION Spec
INVARIANTS
  HookBeforeWorker
