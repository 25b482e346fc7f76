SPECIFICATION Spec
CONSTANTS
  Requests = {r1, r2}
  Domains = {d1, d2}
  Locals = {info}
  MaxBoxes = 3
  None = None
SYMMETRY Symmetry
INVARIANTS
  OnePrimary
  AliasesHaveMailboxes
PROPERTIES
  BoxesLeaveAsked
