CONSTANTS
  NULL = NULL
  Docs <- Dictionaries
  Name <- Names
  NameHash <- NameHashes
  Number <- Numbers
  NumberHash <- NumberHashes
  MAX_CHAIN_LENGTH = 12
  TABLE_SIZE = 24
  Garbage = {0, 7}
  MAX_EXCHANGES = 4
  Cuts = {3, 10, 19, 24, 40, 57}
SPECIFICATION Spec
INVARIANTS TypeOK NoOverrun LastDefinitionFound HeaderArrives RoundTrip ResultArrives Survival
