SPECIFICATION Spec
CONSTANTS
  Browser = {b1, b2}
  Account <- MCAccount
  NoAccount = NoAccount
  Legacy <- MCLegacy
  Target = {"/", "/ggircs/swrs-browser", "/user/profile"}
  MaxOpens = 1
  MaxLogins = 2
  MaxEnds = 2
  MaxDownloads = 1
  MaxFaults = 1
INVARIANT RefusedForAReason
INVARIANT LoginReturns
INVARIANT LogNamesTheDownloader
PROPERTY RequestsAreAnswered
CHECK_DEADLOCK FALSE
