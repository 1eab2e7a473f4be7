SPECIFICATION Spec
CONSTANTS
  owner = owner
  teammate = teammate
  NULL = NULL
  Users <- MCUsers
  Policies <- MCPolicies
  InitialFunds <- MCFunds
  Edits = {e1}
  Edited <- MCEdited
  Sponsor = owner
  GrantLimit = 2
  Holds = {h1, h2}
  Calls = {c1}
  Purposes = {"image"}
  Amounts = {1, 2}
  Deposits = {}
  Costs = {1}
  MaxFunds = 4
  MaxHold = 3
  MaxMonth = 2
SYMMETRY MCHoldSymmetry
INVARIANTS
  TypeOK
  BooksBalance
  SpendExplained
  LimitNotEroded
  GrantWithinBudget
  ConfirmedWorkIsCharged
  PayerFrozen
PROPERTIES
  AllowanceCoversHolds
  SpendStaysInLimit
  ImplementsEscrow
