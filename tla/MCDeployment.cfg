\* The private profile, which has every resource; brokered and passthrough.
SPECIFICATION Spec
CONSTANTS
  Private = TRUE
  None = None
INVARIANT PolicyIsComplete
INVARIANT ClosureMeansClosed
INVARIANT NeverStuck
INVARIANT EndsAsAsked
PROPERTY BrokeredGoesScoped
