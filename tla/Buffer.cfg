CONSTANTS
  Base = {4, 9}
  Size = {4}
  Alignment = {0, 3}
  DefaultAlignment = 2
  Usage = {0, 5}
  SliceUsage = {0, 2}
SPECIFICATION Spec
INVARIANTS AreasInBuffer SlicesUsable
PROPERTY FreshMemory
