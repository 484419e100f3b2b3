SPECIFICATION Spec
CHECK_DEADLOCK FALSE
CONSTANTS
  Base = 3
  KxKeyBytes = 1
  SignKeyBytes = 1
  SignatureBytes = 1
  Int32Bytes = 2
  Error = Error
  MaxLength = 9
  UInt16Values = 32
  UInt32Values = 64
  ULongValues = 300
  Invalid = Invalid
  Default = Default
  InputKeys = {"request_ms", "RESPONSE"}
  Sections = {"server", "rate_limiting", "timeouts"}
  Texts <- MCTexts
  VersionLists <- MCVersionLists
  MaxLines = 3
INVARIANTS
  ReaderExact
  HellosRoundTrip
  MessagesRoundTrip
  LastValidWins
