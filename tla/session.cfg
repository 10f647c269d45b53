SPECIFICATION Spec
CONSTANTS
  Senders = {s1, s2}
  Forcing = {s2}
  MaxMessages = 3
  MaxOpenings = 2
INVARIANTS TypeOK NumbersAreUnique NumbersHaveNoGaps OpeningIsGuarded
CHECK_DEADLOCK FALSE
