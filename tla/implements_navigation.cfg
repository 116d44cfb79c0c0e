SPECIFICATION Spec
CONSTANTS
  Id <- MCId
  Route <- MCRoute
  RouteOf <- MCRouteOf
  Path <- MCPath
  Loc <- MCLoc
  MaxRuns = 3
  HasLoader = {"a", "b"}
  HasBeforeLoad = {"a"}
  LazyRoutes = {}
  Blocking = {}
  NoPreload = {}
  NotFoundRoutes = {}
  PendingRoutes = {}
  ViewTransition = FALSE
  BeforeOutcomes = {"ok", "redirect", "notFound"}
  LoaderOutcomes = {"ok", "error", "redirect", "notFound"}
  FailingChunks = {}
  Expiry = FALSE
  EagerResults = FALSE
  MaxRedirects = 1
  Start = "/"
  RedirectTo = "/"
  Budgets <- TwoNavigations
INVARIANTS
  SameBag
  DataShown
PROPERTIES
  ImplementsNavigation
  ResolvedRendered
CHECK_DEADLOCK FALSE
