\* A scale that fails while it replaces the containers, and the reconcile its
\* error message asks for.
CONSTANTS
  Actors = {u1}
  Nil = Nil
  Apps = {}
  Misnamed = {}
  Old = FALSE
  RolloutKinds = {"scale", "reconcile"}
  MaxRollouts = 2
  MaxMishaps = 1
SPECIFICATION RolloutSpec
PROPERTIES ReconcileApplies
CHECK_DEADLOCK FALSE
