SPECIFICATION Spec
CONSTANTS
  Editor = {e1, e2}
  Setter = {s1}
  Saver = saver
  State = {off}
  Default = off
  MaxId = 2
  None = None
INVARIANTS
  TypeOK
  IdsFresh
  EditsDurable
PROPERTY EditsAtomic
