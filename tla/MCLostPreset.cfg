SPECIFICATION Spec
CONSTANTS
  Editor = {e1}
  Setter = {s1}
  Saver = saver
  State = {off, lit}
  Default = off
  MaxId = 1
  None = None
INVARIANT WrittenEditsDurable
