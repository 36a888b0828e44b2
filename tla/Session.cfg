CONSTANTS
  ana = ana
  bia = bia
  Accounts <- MCAccounts
  Passwords <- MCPasswords
  None = None
  MaxRequests = 2
  MaxVisits = 4
  MaxDisabled = 1
SPECIFICATION SessionSpec
INVARIANTS
  StoreFollowsTheSignIn
  ProfilesAreFiledRightly
  HomeIsTheirs
  AccountsHaveProfiles
\* the bounds end the behaviours
CHECK_DEADLOCK FALSE
