\* Three invocations, two hosts, device codes that live 15 s, three releases.  The loads
\* bound the rest.
CONSTANTS
  c1 = c1  c2 = c2  c3 = c3  h1 = h1  h2 = h2
  Proc <- ThreeProcs
  Host <- TwoHosts
  Releases <- ThreeReleases
  Loads <- CliLoads
  Start = Start  NoCred = NoCred  NoAsk = NoAsk  NoEntry = NoEntry
  NoRelease = NoRelease  Unreadable = Unreadable  Dev = Dev
  NoSkill = NoSkill  EditedSkill = EditedSkill
  ExpiresIn = 15
SPECIFICATION Spec
PROPERTIES   NoDowngrade DeviceLoginsEnd
CHECK_DEADLOCK FALSE
