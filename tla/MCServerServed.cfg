CONSTANTS
  Conns = {c1, c2, c3}
  Names = {alice}
  Root = root
  Fds = {3, 4, 5, 6, 7, 8}
  Parts = 1
  Room = 1
  Listener = Listener
  Free = Free
  Leaked = Leaked
  Faults = {}
  Scripts <- BusyScript
  Mute <- FirstMute
SPECIFICATION FairSpec
INVARIANTS StreamsIntact
PROPERTIES Served
