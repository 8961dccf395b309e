SPECIFICATION PureSpec
CONSTANTS
  mm = mm
  bigM = bigM
  sk = sk
  zero = zero
  space = space
  open = open
  close = close
  redacted = redacted
  NoInput = NoInput
  Byte = {0, 1}
  HASH_LEN = 2
  NONCE_LEN = 2
  EXPIRY_LEN = 1
  ByteStrings <- MCByteStrings
  RRF_K = 2
  MaxRank = 3
  Scale = 60
  Docs = {1, 2, 3, 4}
  Chars = {mm, bigM, sk, zero, space, open, close, redacted}
  Bytes <- MCBytes
  Invisible = {zero}
  Whitespace = {space}
  Alphanumeric = {mm, bigM, sk}
  TRIFECTA_PATTERNS <- MCNoPatterns
  INJECTION_PATTERNS <- MCNoPatterns
  ForeignUrls <- MCNoPatterns
  MAX_MESSAGE_BYTES = 10
  Lower <- MCLower
  OVERRIDE_MARKERS <- MCMarkers
  LeakKinds <- MCLeakKinds
  LeakLength <- MCLeakLength
  REDACTED = redacted
  Open = open
  Close = close
  Space = space
  Texts <- MCTexts
  ReadTexts <- MCReadTexts
  Pubkeys = {"vector", "zero"}
  AllowlistedSigners = {"vector"}
  DecodableKeys = {"vector"}
  Nonces = {"n1"}
  Actions = {"x", "y"}
  Times = {0, 1, 2}
  Garbled = Garbled
  NoSigner = NoSigner
  APPROVAL_PUBKEY = "vector"
  ZeroKey = "zero"
  SignedAction = "x"
  OtherAction = "y"
  VectorNonce = "n1"
  EndOfTime = 2
CHECK_DEADLOCK FALSE
INVARIANTS
  HashBinds
  FusionIsFair
  ScansHold
  SummariesDiffer
  Defended
