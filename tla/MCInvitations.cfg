SPECIFICATION Spec
CONSTANTS
  None = None
  Agents = {a1, a2}
  Conversations = {c1}
  Transfers = {}
  Announcements = {n1}
  Actions = {}
  InfoCommands = {}
  Catalogue <- MCCatalogue
  Payloads <- MCPayloads
  InitialMoney = 1
  MaxMoney = 2
  MaxItems = 1
  MaxTurns = 3
  MaxParticipants = 3
  InactiveCheckTurns = 2
INVARIANTS
  InterruptionDissolvesInvitations
