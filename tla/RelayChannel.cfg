SPECIFICATION Spec
CONSTANTS
  a = a
  b = b
  crab = crab
  zero = zero
  space = space
  Chars = {a, b, crab, zero, space}
  Bytes <- MCBytes
  Invisible = {zero}
  Whitespace = {space}
  Alphanumeric = {a, b}
  TRIFECTA_PATTERNS <- MCTrifecta
  INJECTION_PATTERNS <- MCInjection
  ForeignUrls <- MCForeignUrls
  MAX_MESSAGE_BYTES = 10
  Senders = {"alice", "stranger"}
  Allowed = {"alice"}
  InboundTexts <- MCInboundTexts
  OutboundTexts <- MCOutboundTexts
  NOSTR_DM_LIMIT = 5
  MaxInbound = 2
  MaxSends = 2
CHECK_DEADLOCK FALSE
INVARIANTS
  TypeOK
  EverythingReported
  AdmittedReadsClean
  ReceivedWasApproved
  SentIsReceived
  ChunksFit
