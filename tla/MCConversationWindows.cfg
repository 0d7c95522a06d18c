SPECIFICATION Spec
CONSTANTS
  None = None
  Agents = {a1, a2, a3}
  Conversations = {c1}
  Transfers = {}
  Announcements = {n1}
  Actions = {}
  InfoCommands = {}
  Catalogue <- MCCatalogue
  Payloads <- MCPayloads
  InitialMoney = 1
  MaxMoney = 2
  MaxItems = 1
  MaxTurns = 5
  MaxParticipants = 3
  InactiveCheckTurns = 2
SYMMETRY Symmetry
INVARIANTS
  MembershipAgrees
  TimersMatchState
