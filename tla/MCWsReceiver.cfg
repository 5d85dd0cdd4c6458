SPECIFICATION FairStream
CONSTANTS
  Base = 8
  Text = 1
  Binary = 2
  Close = 3
  Ping = 0
  Intercom = 3
  MaxFrames = 2
  Silence = Silence
  ByteXor <- BitXor
  Magic <- MagicBytes
  ServerFrames <- Frames
INVARIANTS
  InStep
  OnlyBuiltPackets
PROPERTIES
  ReadsEverything
CHECK_DEADLOCK FALSE
