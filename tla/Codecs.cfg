SPECIFICATION Spec
CONSTANTS
  ADDRESS_LENGTH = 2
  CHECKSUM_LENGTH = 1
  ADDRESS_STR_LENGTH = 5
  SEED_LENGTH = 21
  SEED_WORDS = 16
  Digest <- MCDigest
  Key <- MCKey
  Seed <- MCSeed
  Address <- MCAddress
  Value <- MCValue
  Text <- MCText
  Capacity = {0, 1, 2, 3, 4, 5}
  Phrase <- MCPhrase
INVARIANTS AddressGivesItsKey MnemonicGivesItsSeed Base64GivesItsValue TextsFit
CHECK_DEADLOCK FALSE
