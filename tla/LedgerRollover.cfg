SPECIFICATION Spec
CONSTANTS
  owner = owner
  teammate = teammate
  NULL = NULL
  Users <- MCUsers
  Policies <- MCAllPolicies
  InitialFunds <- MCOwnFunds
  Edits = {}
  Edited <- MCEdited
  Sponsor = owner
  GrantLimit = 0
  Holds = {h1}
  Calls = {c1}
  Purposes = {"ai"}
  Amounts = {1, 2}
  Deposits = {}
  Costs = {1, 2}
  MaxFunds = 4
  MaxHold = 3
  MaxMonth = 2
SYMMETRY MCHoldSymmetry
INVARIANTS
  SpendExplained
