CONSTANTS
  Keys = {k1, k2}
  Runtimes = {r1, r2, r3}
  Users = {u1, u2, u3}
  NoRuntime = NoRuntime
  NoKey = NoKey
SPECIFICATION Spec
INVARIANTS SharedEngine
CHECK_DEADLOCK FALSE
