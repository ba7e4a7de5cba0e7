CONSTANTS
  Conns = {c1, c2}
  Names = {alice}
  Root = root
  Fds = {3, 4, 5, 6}
  Parts = 2
  Room = 1
  Listener = Listener
  Free = Free
  Leaked = Leaked
  Faults = {"die", "refuse", "decline"}
  Scripts <- AnyScript
  Mute <- NoneMute
SPECIFICATION FairSpec
PROPERTIES NobodyHangs
