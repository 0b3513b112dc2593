\* One account, connected and reconnected once, two requests, one fault: refreshes
\* race with each other, with the reconnection and with failures.  No removal, and
\* every consent returns a refresh token.
CONSTANTS
  r1 = r1  r2 = r2  cb1 = cb1  cb2 = cb2
  work = work  home = home
  Req <- TwoReqs
  Callback <- TwoCallbacks
  Account <- OneAccount
  AnyAccount = AnyAccount
  NoRow = NoRow
  NoRefresh = NoRefresh
  MaxRow = 1
  MaxRotation = 2
  MaxFaults = 1
  GivesRefresh <- Always
  GivesExpiry <- Hour
  Removals <- ConfigRemoval
SPECIFICATION Spec
INVARIANTS OneRefreshPerRow RefreshesWhatIsStored StoredRefreshIsLive
PROPERTIES RotationNeverReverts RequestsFinish
