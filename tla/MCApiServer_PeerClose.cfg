\* A client that closes its end: does the server go back to accepting?
CONSTANTS
  sw = sw  btn = btn  sen = sen
  kSw = kSw  kBtn = kBtn  kSen = kSen  kNone = kNone
  pwCfg = pwCfg  pwBad = pwBad
  Order <- MCOrderSwitchOnly
  SensorSection <- MCSensorSectionNone
  Kind <- MCKind
  KeyOf <- MCKeyOf
  ForeignKey = kNone
  Password = pwCfg
  WrongPassword = pwBad
  HeapSize = 3
  MaxConns = 2
  MaxFrames = 2
  MaxOut = 4
SPECIFICATION FairSpec
PROPERTIES
  PeerCloseReturnsToListen
\* The RPC thread may block for good: the client stops sending.
CHECK_DEADLOCK FALSE
