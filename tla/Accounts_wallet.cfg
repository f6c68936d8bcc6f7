SPECIFICATION Spec
CONSTANTS
  SECRET_ACCOUNTS_MAXIMUM_COUNT = 2
  ACCOUNTS_MAXIMUM_COUNT = 1
  Name = {alice, full}
  FullName = {full}
  Key = {k0, k1}
  ZeroKey = {k0}
  LocalAddress = {a1}
  Password = {pw, other}
  WalletCalls = {"free", "freeall", "short", "crash"}
SYMMETRY Symmetry
INVARIANTS UniqueNames KeysMatch HandleKeepsItsAccount
PROPERTIES LoadGivesSavedOrNothing
