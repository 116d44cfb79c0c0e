SPECIFICATION Spec
CONSTANTS
  Id <- MCId
  Route <- MCRoute
  RouteOf <- MCRouteOf
  Path <- MCPath
  Loc <- MCLoc
  MaxRuns = 3
  HasLoader = {"a", "b"}
  HasBeforeLoad = {"a"}
  LazyRoutes = {}
  Blocking = {"b"}
  NoPreload = {}
  NotFoundRoutes = {}
  PendingRoutes = {}
  ViewTransition = FALSE
  BeforeOutcomes = {"ok"}
  LoaderOutcomes = {"ok"}
  FailingChunks = {}
  Expiry = FALSE
  EagerResults = FALSE
  MaxRedirects = 0
  Start = "/"
  RedirectTo = "/"
  Budgets <- NavigateBackOrInvalidate
INVARIANTS
  Settled
PROPERTIES
  NoLostWaiter
  SupersededAborted
  ResolvedAfterCommit
  SyncWaits
CHECK_DEADLOCK FALSE
