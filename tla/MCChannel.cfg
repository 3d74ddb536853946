SPECIFICATION Spec
CONSTANTS
  Endpoints = {1, 2}
  Values = {1, 2}
  MaxEvents = 4
INVARIANT
  LineIntact
PROPERTY
  ImplementsBroadcast
