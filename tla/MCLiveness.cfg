SPECIFICATION FairSpec
CONSTANTS
  None = None
  buy = buy
  Agents = {a1, a2}
  Transfers = {t1}
  Announcements = {n1}
  Actions = {}
  InfoCommands = {"get_map"}
  Catalogue <- MCCatalogue
  Payloads <- MCCoins
  InitialMoney = 1
  MaxMoney = 2
  MaxItems = 1
  FailingWrites = {"refund"}
PROPERTIES
  OfferSettles
  AwaitedAnnouncementArrives
