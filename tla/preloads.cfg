SPECIFICATION Spec
CONSTANTS
  Id <- MCId
  Route <- MCRoute
  RouteOf <- MCRouteOf
  Path <- MCPath
  Loc <- MCLoc
  MaxRuns = 3
  HasLoader = {"a", "b"}
  HasBeforeLoad = {"a"}
  LazyRoutes = {}
  Blocking = {}
  NoPreload = {"b"}
  NotFoundRoutes = {}
  PendingRoutes = {}
  ViewTransition = FALSE
  BeforeOutcomes = {"ok", "notFound"}
  LoaderOutcomes = {"ok", "error", "redirect", "abort", "timeout"}
  FailingChunks = {}
  Expiry = TRUE
  EagerResults = FALSE
  MaxRedirects = 1
  Start = "/"
  RedirectTo = "/a"
  Budgets <- NavigateAndPreload
INVARIANTS
  PoolsDisjoint
  SingleFlight
  LocksAreHeld
PROPERTIES
  NoLostWaiter
CHECK_DEADLOCK FALSE
