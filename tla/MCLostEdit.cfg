SPECIFICATION Spec
CONSTANTS
  Editor = {e1}
  Setter = {}
  Saver = saver
  State = {off}
  Default = off
  MaxId = 2
  None = None
PROPERTY StoredKept
