SPECIFICATION FairSpec
CONSTANTS
  None = None
  Agents = {a1, a2, a3}
  Conversations = {c1}
  Transfers = {t1}
  Announcements = {}
  Actions = {}
  InfoCommands = {}
  Catalogue <- MCCatalogue
  Payloads <- MCPayloads
  InitialMoney = 1
  MaxMoney = 2
  MaxItems = 1
  MaxTurns = 5
  MaxParticipants = 3
  InactiveCheckTurns = 2
INVARIANTS
  InvitationsAgree
  ConversationsAreTimed
  OffersStayBetweenMembers
  MoneyIsConserved
PROPERTIES
  MembersComeAndGoInTurn
  ClosingIsFinal
  ConversationsEnd
