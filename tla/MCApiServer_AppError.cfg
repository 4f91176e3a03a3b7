\* A command for an unknown key: does the connection stay open?
CONSTANTS
  sw = sw  btn = btn  sen = sen
  kSw = kSw  kBtn = kBtn  kSen = kSen  kNone = kNone
  pwCfg = pwCfg  pwBad = pwBad
  Order <- MCOrder
  SensorSection <- MCSensorSection
  Kind <- MCKind
  KeyOf <- MCKeyOf
  ForeignKey = kNone
  Password = pwCfg
  WrongPassword = pwBad
  HeapSize = 3
  MaxConns = 2
  MaxFrames = 2
  MaxOut = 4
SPECIFICATION Spec
PROPERTIES
  AppErrorKeepsConnection
\* The RPC thread blocks in recv on an idle client and halts on a fault.
CHECK_DEADLOCK FALSE
