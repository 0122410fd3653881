SPECIFICATION Spec
CONSTANTS
  Namespaces = {n1}
  MaxAnnounces = 2
PROPERTY
  RemovesOwnEntry
CHECK_DEADLOCK FALSE
