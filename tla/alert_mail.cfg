SPECIFICATION Spec
CONSTANTS
  Runs = {r1, r2}
  Graded = {disk}
  Single = {}
  Settings <- CriticalOrNone
  Repeat = 2
  MaxCrashes = 1
  Never = Never
INVARIANT
  MailsAreRemembered
PROPERTIES
  MailsAreSpaced
  CriticalIsMailed
