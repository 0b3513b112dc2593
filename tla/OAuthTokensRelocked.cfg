\* One account, connected, removed and connected again: a request that waited with
\* the old row in hand and one with the new row refresh at the same time.
CONSTANTS
  r1 = r1  r2 = r2  cb1 = cb1  cb2 = cb2
  work = work  home = home
  Req <- TwoReqs
  Callback <- TwoCallbacks
  Account <- OneAccount
  AnyAccount = AnyAccount
  NoRow = NoRow
  NoRefresh = NoRefresh
  MaxRow = 2
  MaxRotation = 2
  MaxFaults = 0
  GivesRefresh <- Always
  GivesExpiry <- Hour
  Removals <- TokenRemovals
SPECIFICATION Spec
INVARIANT OneRefreshPerRow
