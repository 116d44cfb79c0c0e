SPECIFICATION Spec
CONSTANTS
  Catalogue <- Site
  Orders <- SiteOrders
  Paths <- Requests
  MaxRoutes = 5
INVARIANTS
  FindsMostSpecific
  FindsWhatFits
  FavoursLongerPrefix
  ParamsAreMatched
CHECK_DEADLOCK FALSE
