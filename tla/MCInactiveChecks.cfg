SPECIFICATION Spec
CONSTANTS
  None = None
  Agents = {a1, a2, a3, a4}
  Conversations = {c1}
  Transfers = {}
  Announcements = {}
  Actions = {}
  InfoCommands = {}
  Catalogue <- MCCatalogue
  Payloads <- MCPayloads
  InitialMoney = 1
  MaxMoney = 2
  MaxItems = 1
  MaxTurns = 5
  MaxParticipants = 4
  InactiveCheckTurns = 2
SYMMETRY Symmetry
INVARIANTS
  InactiveChecksTimeOut
