CONSTANTS
  Word = 2
  Base = 64
  NotRead = NotRead
  Sent <- SmallPackets
  More <- Follow
SPECIFICATION Spec
INVARIANTS WholeOnly RoundTrip PrefixHonest SerializerContract
