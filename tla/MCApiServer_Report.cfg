\* Does every SwitchStateResponse report the level the switch is driven to?
CONSTANTS
  sw = sw  btn = btn  sen = sen
  kSw = kSw  kBtn = kBtn  kSen = kSen  kNone = kNone
  pwCfg = pwCfg  pwBad = pwBad
  Order <- MCOrderSwitchOnly
  SensorSection <- MCSensorSectionNone
  Kind <- MCKind
  KeyOf <- MCKeyOf
  ForeignKey = kNone
  Password = pwCfg
  WrongPassword = pwBad
  HeapSize = 3
  MaxConns = 2
  MaxFrames = 2
  MaxOut = 4
SPECIFICATION Spec
PROPERTIES
  ReportedStateMatchesPin
\* The RPC thread blocks in recv on an idle client and halts on a fault.
CHECK_DEADLOCK FALSE
