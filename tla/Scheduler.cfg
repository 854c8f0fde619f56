CONSTANTS
  a1 = a1 a2 = a2 b1 = b1 b2 = b2 c1 = c1
  alice = alice bob = bob carol = carol
  Items = {a1, a2, b1, b2, c1}
  Principals = {alice, bob, carol}
  PriorityOf <- TwoPriorities
  PrincipalOf <- Owners
  MaxArrivals = 5
SPECIFICATION Spec
INVARIANTS Coherent FirstInFirstOut NoOneIsPassedTwice
PROPERTY StrictPriority
CHECK_DEADLOCK FALSE
