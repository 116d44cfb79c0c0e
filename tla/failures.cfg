SPECIFICATION Spec
CONSTANTS
  Id <- MCId
  Route <- MCRoute
  RouteOf <- MCRouteOf
  Path <- MCPath
  Loc <- MCLoc
  MaxRuns = 3
  HasLoader = {"root", "a", "b"}
  HasBeforeLoad = {"a"}
  LazyRoutes = {"a", "b"}
  Blocking = {}
  NoPreload = {}
  NotFoundRoutes = {"a"}
  PendingRoutes = {"a"}
  ViewTransition = TRUE
  BeforeOutcomes = {"ok", "error", "redirect", "notFound"}
  LoaderOutcomes = {"ok", "error", "redirect", "notFound", "abort"}
  FailingChunks = {"b"}
  Expiry = TRUE
  EagerResults = TRUE
  MaxRedirects = 1
  Start = "/"
  RedirectTo = "/"
  Budgets <- NavigateAndClear
INVARIANTS
  TypeOK
  PathPools
  Settled
  PageSettled
CHECK_DEADLOCK FALSE
