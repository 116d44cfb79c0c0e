SPECIFICATION Spec
CONSTANTS
  Id <- MCId
  Route <- MCRoute
  RouteOf <- MCRouteOf
  Path <- MCPath
  Loc <- TwoLoc
  MaxRuns = 2
  HasLoader = {"root"}
  HasBeforeLoad = {}
  LazyRoutes = {}
  Blocking = {}
  NoPreload = {}
  NotFoundRoutes = {}
  PendingRoutes = {}
  ViewTransition = FALSE
  BeforeOutcomes = {"ok"}
  LoaderOutcomes = {"ok", "abort"}
  FailingChunks = {}
  Expiry = FALSE
  EagerResults = FALSE
  MaxRedirects = 0
  Start = "/"
  RedirectTo = "/"
  Budgets <- TwoInvalidations
INVARIANTS
  RevalidationNotLost
CHECK_DEADLOCK FALSE
