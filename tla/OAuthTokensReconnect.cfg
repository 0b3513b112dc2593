\* One account, reconnected by a consent that may return no refresh token, while
\* requests refresh it.
CONSTANTS
  r1 = r1  r2 = r2  cb1 = cb1  cb2 = cb2
  work = work  home = home
  Req <- TwoReqs
  Callback <- TwoCallbacks
  Account <- OneAccount
  AnyAccount = AnyAccount
  NoRow = NoRow
  NoRefresh = NoRefresh
  MaxRow = 2
  MaxRotation = 2
  MaxFaults = 0
  GivesRefresh <- Sometimes
  GivesExpiry <- Hour
  Removals <- NoRemovals
SPECIFICATION Spec
INVARIANT StoredRefreshIsLive
