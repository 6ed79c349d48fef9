CONSTANTS
  ServiceCount = 2
  PoolSlots = 6
  MailboxDepth = 1
  Message = {blank, led, scan}
  Blank = blank
  blank = blank
  led = led
  scan = scan
  Subscribers <- Subscriptions
  StatMax = 1
  None = None
  Network = {home, office}
  NoNetwork = NoNetwork
  Depth = 1
  Configs = {slow, fast, other}
  Default = slow
  NoRecord = NoRecord
  Span = 4
  MaxRelease = 2
  Broken = Broken
  Limit = 2
  ExpectedSizes = {0, 2}
  Chunks = {1, 2}
  MaxRedirects = 1
SPECIFICATION Spec
VIEW WithoutStalePool
INVARIANTS
  TypeOK
  EverySlotHasOneOwner
  ExhaustionTellsOfLoss
  ServicesReadTheirOwn
  ConnectedHasLink
  
  
  
  AlwaysBootable
  AcceptedIsExact
PROPERTIES
  
  ConsoleReturns
  DurableUnlessErased
  ReplayRefused
  UnconfirmedRollsBack
