CONSTANTS
  ana = ana
  bia = bia
  Accounts <- MCAccounts
  Passwords <- MCPasswords
  None = None
  MaxRequests = 1
  MaxVisits = 2
  MaxDisabled = 0
SPECIFICATION SessionSpec
INVARIANTS
  SuccessHasAUser
CHECK_DEADLOCK FALSE
