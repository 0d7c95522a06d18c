SPECIFICATION Spec
CONSTANTS
  None = None
  buy = buy
  Agents = {a1}
  Transfers = {}
  Announcements = {n1}
  Actions = {buy}
  InfoCommands = {}
  Catalogue <- MCCatalogue
  Payloads <- MCCoins
  InitialMoney = 1
  MaxMoney = 2
  MaxItems = 1
  FailingWrites = {}
PROPERTIES
  VenueItemChangesNoState
