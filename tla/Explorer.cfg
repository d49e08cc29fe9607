\* The block explorer.  Pages may be left for good and all answers may be in,
\* so that nothing is left to do within the bounds.
SPECIFICATION Spec
CONSTANTS
  s1 = s1
  s2 = s2
  w1 = w1
  NoOne = NoOne
  Subjects <- MCSubjects
  Wallets <- MCWallets
  Kinds <- MCKinds
  MaxOpens <- MCMaxOpens
  MaxClicks <- MCMaxClicks
  MaxFails <- MCMaxFails
  MaxPage = 2
  HistoryLimit = 1
  MaxRequests = 3
  RecentLimit = 3
  StripLimit = 2
  MaxHeight = 4
  MaxVisits = 1
  MaxMoves = 4
INVARIANTS
  TypeOK
  PageTellsTheTruth
  BlocksInOrder
  NoTimerLeftBehind
PROPERTIES
  PollingGoesOn
CHECK_DEADLOCK FALSE
