CONSTANTS
  Conns = {c1, c2, c3}
  Names = {alice}
  Root = root
  Fds = {3, 4, 5}
  Parts = 2
  Room = 2
  Listener = Listener
  Free = Free
  Leaked = Leaked
  Faults = {"die", "refuse", "decline", "nomem"}
  Scripts <- BusyScript
  Mute <- NoneMute
SPECIFICATION Spec
INVARIANTS TypeOK NoAbort DescriptorsOwned LegsPaired StreamsIntact
PROPERTIES AnswerComplete RelaySpec
SYMMETRY ConnsSymmetry
