CONSTANTS
  Every = Every
  Loaded = Loaded
  Other = Other
  Keys = {Every, Loaded, Other}
  Live <- MCLive
  Runtimes = {r1, r2}
  Users = {u1, u2}
  Sockets = {s1, s2}
  NoRuntime = NoRuntime
  NoSocket = NoSocket
  NoSub = NoSub
  NoKey = NoKey
  MaxSeq = 2
SPECIFICATION StreamSpec
INVARIANTS StreamShownWhole EntriesAreLive NothingLeaked
PROPERTIES StreamShowsWanted
CONSTRAINT Asked
SYMMETRY StreamSymmetry
CHECK_DEADLOCK FALSE
