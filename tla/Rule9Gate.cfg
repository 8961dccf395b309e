SPECIFICATION Spec
CONSTANTS
  alice = alice
  bob = bob
  carol = carol
  a1 = a1
  a2 = a2
  n1 = n1
  n2 = n2
  h1 = h1
  h2 = h2
  Pubkeys = {alice, bob, carol}
  AllowlistedSigners = {alice, carol}
  DecodableKeys = {alice, bob}
  Nonces = {n1, n2}
  Actions = {a1, a2}
  Times = {0, 1}
  Garbled = Garbled
  NoSigner = NoSigner
  Handles = {h1, h2}
  NoAction = NoAction
  NoEvidence = NoEvidence
  MonotonicClock = TRUE
  MaxSigned = 2
  MaxSubmissions = 2
SYMMETRY Symmetry
CHECK_DEADLOCK FALSE
INVARIANTS
  TypeOK
  GrantAuthorised
  SingleUse
  OneGrantPerSubmission
  DenialsBounded
  ExpiryRespected
PROPERTIES
  ImplementsLedger
  ApprovalStaysUsable
