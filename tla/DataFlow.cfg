\* Two slots: the third push wraps to the slot before one that waits.
CONSTANTS
  N = 2
  ByteRange = 256
  Entries = {AirMouse, Key}
  Values = {v1, v2}
  Length = Length
  Nothing = Nothing
SPECIFICATION Spec
INVARIANT DataNotOverwritten
