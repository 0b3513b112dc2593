\* Two consents that may reach one account or two, two requests, every removal:
\* refreshes race with connects, reconnects and removals.
CONSTANTS
  r1 = r1  r2 = r2  cb1 = cb1  cb2 = cb2
  work = work  home = home
  Req <- TwoReqs
  Callback <- TwoCallbacks
  Account <- TwoAccounts
  AnyAccount = AnyAccount
  NoRow = NoRow
  NoRefresh = NoRefresh
  MaxRow = 2
  MaxRotation = 2
  MaxFaults = 0
  GivesRefresh <- Sometimes
  GivesExpiry <- Hour
  Removals <- RowRemovals
SPECIFICATION Spec
INVARIANTS TypeOK OneRowPerAccount
PROPERTY RemovedStaysRemoved
