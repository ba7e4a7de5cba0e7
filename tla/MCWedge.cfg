CONSTANTS
  c1 = c1
  c2 = c2
  c3 = c3
  alice = alice
  bob = bob
  Conns = {c1, c2, c3}
  Owners = {alice, bob}
  OwnerOf <- OwnersOf
  Server = Server
  Poll = Poll
  Cap = 1
  Sizes = {1, 2}
SPECIFICATION FairSpec
INVARIANTS TypeOK WedgedByLarge OnlyWedged
PROPERTIES WedgeStays Answered
