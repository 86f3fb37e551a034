SPECIFICATION Spec
CONSTANTS
  NL = NL
  SP = SP
  NUL = NUL
  Junk = x
  two = two
  seven = seven
  x = x
  c = c
  d = d
  e = e
  Bytes = {NL, SP, NUL, two, seven, x, c, d, e}
  Plain = {c}
  Sized = {d}
  Other = {e}
  Args = {two, seven, x}
  Payloads <- MCPayloads
  Size <- MCSize
  BUFSZ = 3
  Patience = 4
  MaxSent = 4
INVARIANTS
  RoomToRead
PROPERTIES
  ImplementsChannel
  AllDelivered
