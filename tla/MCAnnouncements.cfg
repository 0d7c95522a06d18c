SPECIFICATION Spec
CONSTANTS
  None = None
  buy = buy
  Agents = {a1, a2}
  Transfers = {t1}
  Announcements = {n1, n2}
  Actions = {buy}
  InfoCommands = {"get_map"}
  Catalogue <- MCCatalogue
  Payloads <- MCPayloads
  InitialMoney = 1
  MaxMoney = 2
  MaxItems = 1
  FailingWrites = {"refund"}
SYMMETRY Symmetry
INVARIANTS
  AnnouncementsAwaitMovers
  OfferedIsAccepted
PROPERTIES
  MoversHearAnnouncements
  OnlyWindowsInterrupt
