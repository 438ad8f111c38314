SPECIFICATION WireSpec
CONSTANTS
  Inputs <- ShortInputs
  Texts <- SomeTexts
  Names <- SomeNames
  Unit = 1000
  Readings <- SomeReadings
  JointCounts = {0, 1, 2}
  Counts = {1, 2}
  MaxCycles = 2
  Payloads <- SomePayloads
  Sent <- SomeSent
  Lines <- OddLines
  Messages <- SomeMessages
INVARIANTS ParsedAsSent RightHandler ResultSurvives CodecIsStandard RefusedWhole
INVARIANTS TelemetrySurvives FrameFresh IsCRC32 ToldApart
CHECK_DEADLOCK FALSE
