SPECIFICATION Spec
CONSTANTS
  net = net
  mode = mode
  fee = fee
  label = label
  v = v
  None = None
  CLEAR = CLEAR
  Empty = Empty
  Anywhere = Anywhere
  Wallet = Wallet
  Callers = {c1, c2}
  Networks = {net}
  Fields = {mode, fee}
  Names = {label}
  Values = {v}
  Asks <- MCAsks
  Settled <- MCSettled
  Retries = 1
  MaxCalls = 3
INVARIANTS SettingsInv SoleWriterPrevails
PROPERTIES OnlyAsAsked
SYMMETRY Interchangeable
CHECK_DEADLOCK FALSE
