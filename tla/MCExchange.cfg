CONSTANTS
  Word = 1
  Base = 4096
  NotRead = NotRead
  Byte <- Digit
  Junk = Junk
  Calls <- EveryCall
  Errors <- NoEntry
  Pipe = 2
  HangUps = {"refuse", "decline", "cut"}
  Leftovers <- OldStack
SPECIFICATION FairSpec
INVARIANTS TypeOK CallTrue Delivered NoCrash
PROPERTIES Returns
