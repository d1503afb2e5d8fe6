SPECIFICATION Spec
CONSTANTS
  Users = {u1, u2}
  Founder = u1
  Root = root
  First = a
  Channels = {b}
  Sidebars = {s}
  MaxDepth = 3
  MaxRequests = 3
  MaxMisplaced = 2
INVARIANTS
  TypeOK
  Consistent
  KnownToAdmitted
  ThrowsOnlyMisplaced
  RepairedIsRight
CHECK_DEADLOCK FALSE
