SPECIFICATION Spec
CONSTANTS
  s1 = s1
  s2 = s2
  Seeds <- MCSeeds
  Fingerprint <- MCFingerprint
  KeyAt <- MCKeyAt
  BIP0341_NUMS_PUBKEY = nums
  Templates <- MCTemplates
  Partial = partial
  Parses <- MCParses
  DistinctKeys <- MCDistinctKeys
  Sane <- MCSane
  Emits <- MCEmits
  MAX_WALLET_NAME_LENGTH = 4
  MAX_DESCRIPTOR_TEMPLATE_LENGTH_V1 = 40
  MAX_DESCRIPTOR_TEMPLATE_LENGTH_V2 = 512
  MAX_N_KEYS_IN_WALLET_POLICY = 2
  MAX_BIP32_PATH_STEPS = 8
  BIP44_COIN_TYPE = 1
  MAX_BIP44_ACCOUNT_RECOMMENDED = 100
  MAX_BIP44_ADDRESS_INDEX_RECOMMENDED = 2
  BIP32_FIRST_HARDENED_CHILD = 4
  BIP32_PUBKEY_VERSION = 7
  Headers <- MCHeaders
  Ids <- MCIds
  Paths <- MCPaths
  Indexes = {2, 3, 4}
  Changes = {1, 2}
  MAX_HMACS = 1
INVARIANTS   AddressIsOurs DefaultIsExportable
  ExportIsConfirmed RegisteredIsAccepted
