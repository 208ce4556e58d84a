SPECIFICATION Spec
CONSTANTS
  username = username
  password = password
  x = x
  capital = capital
  Lines = {username, password}
  EchoesOf <- MCEchoesOf
  Columns = 4
  KEYNUM = 8
  KeyKind <- MCKeyKind
  Chars = {x, capital}
  CharOf <- MCCharOf
  Space = x
  InitText <- MCInitText
  MaxText = 2
INVARIANTS
  TypeOK
  InputIsShown
  ServesOneLine
  OneKeyIsLit
PROPERTIES
  IsAForm
