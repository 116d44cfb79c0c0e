SPECIFICATION Spec
CONSTANTS
  Catalogue <- Layered
  Orders <- LayeredOrders
  Paths <- Requests
  MaxRoutes = 4
INVARIANTS
  GuardsHold
CHECK_DEADLOCK FALSE
