SPECIFICATION Spec
CONSTANTS
  c1 = c1
  c2 = c2
  n1 = n1
  Client = {c1, c2}
  Name = {n1}
  NoClient = NoClient
  NoName = NoName
  Listing <- MCListing
  MaxFile = 2
  Torn = {"clients", "list"}
INVARIANTS FreedHasCause FoundByName
PROPERTY HandlerFinishes
CHECK_DEADLOCK FALSE
