\* Is the payload buffer of every request freed?
CONSTANTS
  sw = sw  btn = btn  sen = sen
  kSw = kSw  kBtn = kBtn  kSen = kSen  kNone = kNone
  pwCfg = pwCfg  pwBad = pwBad
  Order <- MCOrder
  SensorSection <- MCSensorSection
  Kind <- MCKind
  KeyOf <- MCKeyOf
  ForeignKey = kNone
  Password = pwCfg
  WrongPassword = pwBad
  HeapSize = 3
  MaxConns = 2
  MaxFrames = 2
  MaxOut = 4
SPECIFICATION Spec
INVARIANTS
  PayloadBuffersFreed
CHECK_DEADLOCK FALSE
