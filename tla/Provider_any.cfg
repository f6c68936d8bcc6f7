SPECIFICATION Spec
CONSTANTS
  Network = {"testnet", "mainnet"}
  MinFee <- MCMinFee
  DefaultFee = 2
  Release <- MCReleases
  Fields <- MCFields
  ValidRounds = 2
  MaxRound = 1
  MaxCalls = 1
INVARIANTS NoForeignHash
PROPERTIES OfflineParamsFit
