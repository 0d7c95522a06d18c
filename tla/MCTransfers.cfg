SPECIFICATION Spec
CONSTANTS
  None = None
  buy = buy
  Agents = {a1, a2}
  Transfers = {t1, t2}
  Announcements = {}
  Actions = {buy}
  InfoCommands = {}
  Catalogue <- MCCatalogue
  Payloads <- MCPayloads
  InitialMoney = 1
  MaxMoney = 2
  MaxItems = 1
  FailingWrites = {"debit", "credit", "refund", "recover", "writeback"}
SYMMETRY Symmetry
INVARIANTS
  TypeOK
  TransferRoles
  TimersMatchState
  MemoryMatchesDisk
PROPERTIES
  ValueConserved
  ImplementsLedger
