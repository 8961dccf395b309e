SPECIFICATION Spec
CONSTANTS
  nostr = nostr
  alice = alice
  lightning = lightning
  n1 = n1
  n2 = n2
  Channels = {nostr}
  ChannelActions = {}
  Rails = {lightning}
  Amounts = {2, 3}
  per_spend_msat = 2
  Pubkeys = {alice}
  AllowlistedSigners = {alice}
  DecodableKeys = {alice}
  Nonces = {n1, n2}
  Times = {0, 1}
  Garbled = Garbled
  NoSigner = NoSigner
  MaxSigned = 2
  MaxRequests = 2
  MaxRestarts = 1
SYMMETRY Symmetry
CHECK_DEADLOCK FALSE
INVARIANTS
  PendingIsLastRefused
  ReplaysBounded
