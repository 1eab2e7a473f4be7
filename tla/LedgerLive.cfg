SPECIFICATION LiveSpec
CONSTANTS
  owner = owner
  teammate = teammate
  NULL = NULL
  Users <- MCUsers
  Policies <- MCAllPolicies
  InitialFunds <- MCOwnFunds
  Edits = {}
  Edited <- MCEdited
  Sponsor = owner
  GrantLimit = 1
  Holds = {h1}
  Calls = {c1, c2}
  Purposes = {"image", "video", "tts", "stt", "web_search", "phone", "ai"}
  Amounts = {1, 2}
  Deposits = {1}
  Costs = {1, 2}
  MaxFunds = 4
  MaxHold = 3
  MaxMonth = 1
INVARIANTS
  SpendExplained
PROPERTIES
  ReconciliationCloses
  RecordedUsageSettles
