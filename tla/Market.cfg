SPECIFICATION Spec
CONSTANTS
  Coins = {"BTC", "PURR"}
  Spots <- TwoSpots
  Garbage <- SomeGarbage
  MaxListed = 2
  None = None
  Table <- OneInTable
  Unmargined = "USDC"
  Width = 64
  Frames <- TwoFrames
  Day = 4
  MaxTime = 8
  MaxLimit = 2
  MaxLevels = 2
  High <- SomeHighs
  Low <- SomeLows
  Close <- SomeCloses
INVARIANTS RowsRight MemoryOwned RightMarket BookRight CandlesRight
