SPECIFICATION Spec
CONSTANTS
  Class = {1, 2}
  MaxEvents = 2
  Limits = {1, 2}
  MaxAdded = 4
INVARIANTS Accounted DropsCounted
PROPERTIES OldestFirst ImplementsLifecycle
