----------------------------- MODULE RouterCore -----------------------------
(***************************************************************************)
(* router.ts on the client: navigate, load, invalidate, preloadRoute,      *)
(* clearCache and the resolution of navigation promises, over any number   *)
(* of overlapping calls of loadMatches.                                    *)
(*                                                                         *)
(* History is reduced to what the router sees of it: a push or replace     *)
(* that no blocker stops calls router.load synchronously.                  *)
(***************************************************************************)
EXTENDS LoadMatches

CONSTANTS
  Start,      \* the location the application has loaded at first
  RedirectTo, \* where user code redirects to
  Budgets     \* bounds: each a [kind of user action -> how often it happens]

Act == {"navigate", "back", "invalidate", "preload", "clear"}
ASSUME RouterAssumption ==
  /\ Start \in Loc /\ RedirectTo \in Loc
  /\ Budgets \subseteq [Act -> Nat]

VARIABLES
  latest,     \* latestLocation, which history.location equals
  status,     \* stores.status: "idle" or "pending"
  resolved,   \* stores.resolvedLocation
  latestLoad, \* latestLoadPromise: the run that owns it, or 0
  commitP,    \* commitLocationPromise is defined and unresolved
  budget      \* user actions left

vars == <<loadVars, latest, status, resolved, latestLoad, commitP, budget>>
routerVars == <<latest, status, resolved, latestLoad, commitP, budget>>

InitialMatch(m) ==
  [status |-> "success", fetching |-> "no", invalid |-> FALSE, preload |-> FALSE,
   error |-> "none", obj |-> 0, ctrl |-> <<"run", 0>>, cause |-> "enter",
   gnf |-> FALSE, data |-> RouteOf[m] \in HasLoader]

\* The application is mounted and its first location loaded.
Init ==
  /\ mem = [active |-> [m \in PathIds(Start) |-> InitialMatch(m)],
            pending |-> [m \in {} |-> 0], cached |-> [m \in {} |-> 0],
            bag |-> [m \in Id |-> [o \in Obj |-> EmptyBag]],
            resolved |-> {}, aborted |-> {},
            lazy |-> [rt \in Route |->
              IF rt \in LazyRoutes /\ \A m \in PathIds(Start) : RouteOf[m] # rt
              THEN "idle" ELSE "loaded"],
            isLoading |-> FALSE, commits |-> 0]
  /\ run = [r \in Run |-> FreeRun]
  /\ cpu = 0 /\ redirects = 0
  /\ latest = Start /\ status = "idle" /\ resolved = Start
  /\ latestLoad = 0 /\ commitP = FALSE
  /\ budget \in Budgets

-----------------------------------------------------------------------------
FreeRuns == {r \in Run : run[r].kind = "free"}
NextRun == CHOOSE r \in FreeRuns : TRUE
NoHeld == [m \in {} |-> 0]

\* load up to the first beforeLoad; rs is the run table it starts from and s
\* the memory.
Load(s, rs, l, sync) ==
  LET r == NextRun IN
  /\ FreeRuns # {}
  /\ mem' = [IngestPending(s, l, r) EXCEPT !.isLoading = TRUE]
  /\ run' = [rs EXCEPT ![r] = NewRun("load", l, resolved = l, sync, NoHeld)]
  /\ cpu' = r
  /\ latest' = l /\ status' = "pending" /\ latestLoad' = r
  /\ UNCHANGED <<resolved, redirects>>

Spend(a) == Drained /\ budget[a] > 0 /\ budget' = [budget EXCEPT ![a] = @ - 1]

\* navigate: buildAndCommitLocation, commitLocation, history.push, load.
\* The new commitLocationPromise resolves the one it replaces.
Navigate(l) ==
  /\ Spend("navigate")
  /\ Load(mem, run, l, FALSE)
  /\ commitP' = TRUE

\* The browser's back and forward buttons: history notifies router.load.
PopState(l) ==
  /\ l # latest /\ Spend("back")
  /\ Load(mem, run, l, FALSE)
  /\ UNCHANGED commitP

Invalidate(forcePending, sync) ==
  /\ Spend("invalidate")
  /\ Load(InvalidateAll(mem, forcePending), run, latest, sync)
  /\ UNCHANGED commitP

StartPreload(s, rs, l) ==
  LET r == NextRun
      held == [m \in DOMAIN s.active \cup DOMAIN s.pending |-> GetMatch(s, m).obj] IN
  /\ FreeRuns # {}
  /\ mem' = IngestPreload(s, l, r)
  /\ run' = [rs EXCEPT ![r] = NewRun("preload", l, FALSE, FALSE, held)]
  /\ cpu' = r
  /\ UNCHANGED <<latest, status, resolved, latestLoad, commitP, redirects>>

Preload(l) == Spend("preload") /\ StartPreload(mem, run, l)

ClearCache(S) ==
  /\ Spend("clear") /\ S # {} /\ S \subseteq DOMAIN mem.cached
  /\ mem' = [mem EXCEPT !.cached = Drop(@, S)]
  /\ UNCHANGED <<run, cpu, redirects, latest, status, resolved, latestLoad, commitP>>

-----------------------------------------------------------------------------
\* What remains of a run whose loadMatches has ended.
Done(rec) == [FreeRun EXCEPT !.kind = rec.kind, !.pc = "done", !.loc = rec.loc,
                !.rendered = rec.rendered, !.bg = rec.bg, !.held = rec.held,
                !.sync = rec.sync, !.force = rec.force]

\* A background reload of r threw a redirect before r was ready, so r has
\* committed nothing: the catch that navigates there runs in the next
\* microtask, and load needs two to see that loadMatches has ended.
Outrun(r) ==
  /\ mem.isLoading /\ mem.commits = 0
  /\ \E m \in Id : run[r].bg[m].st = "redirect"

\* Mutant of EndLoad: an outdated load resolves the promises as well.
EndAnyLoad(r) ==
  /\ run[r].pc = "end" /\ cpu = 0 /\ run[r].kind = "load"
  /\ run[r].res # "redirect" /\ ~Outrun(r)
  /\ run' = [run EXCEPT ![r] = Done(@)]
  /\ latestLoad' = 0 /\ commitP' = FALSE
  /\ UNCHANGED <<mem, cpu, redirects, latest, status, resolved, budget>>

\* load after loadMatches: the latest load resolves the navigations.
EndLoad(r) ==
  /\ run[r].pc = "end" /\ cpu = 0 /\ run[r].kind = "load"
  /\ run[r].res # "redirect" /\ ~Outrun(r)
  /\ run' = [run EXCEPT ![r] = Done(@)]
  /\ IF latestLoad = r THEN latestLoad' = 0 /\ commitP' = FALSE
     ELSE UNCHANGED <<latestLoad, commitP>>
  /\ UNCHANGED <<mem, cpu, redirects, latest, status, resolved, budget>>

\* load of a run that was redirected: it navigates there, whether or not a
\* newer load has superseded it.
FollowRedirect(r) ==
  /\ run[r].pc = "end" /\ cpu = 0 /\ run[r].kind = "load"
  /\ run[r].res = "redirect"
  /\ Load(mem, [run EXCEPT ![r] = Done(@)], RedirectTo, FALSE)
  /\ commitP' = TRUE
  /\ UNCHANGED budget

EndPreload(r) ==
  /\ run[r].pc = "end" /\ cpu = 0 /\ run[r].kind = "preload"
  /\ IF run[r].res = "redirect"
     THEN StartPreload(mem, [run EXCEPT ![r] = Done(@)], RedirectTo)
     ELSE /\ run' = [run EXCEPT ![r] = Done(@)]
          /\ UNCHANGED <<mem, cpu, redirects, latest, status, resolved,
                         latestLoad, commitP>>
  /\ UNCHANGED budget

\* A background reload that ended in a redirect navigates.
BackgroundRedirect(r, m) ==
  /\ cpu = 0 /\ run[r].bg[m].st = "redirect"
  /\ Load(mem, [run EXCEPT ![r] = [@ EXCEPT !.bg[m] = At("ok")]], RedirectTo, FALSE)
  /\ commitP' = TRUE
  /\ UNCHANGED budget

\* Mutant of Resolve: isLoading is not looked at.
ResolveWhileLoading ==
  /\ Drained /\ status = "pending"
  /\ \A m \in DOMAIN mem.active : mem.active[m].status # "pending"
  /\ status' = "idle" /\ resolved' = latest
  /\ UNCHANGED <<loadVars, latest, latestLoad, commitP, budget>>

\* The Transitioner component: nothing is pending any more.
Resolve ==
  /\ Drained /\ status = "pending" /\ ~mem.isLoading
  /\ \A m \in DOMAIN mem.active : mem.active[m].status # "pending"
  /\ status' = "idle" /\ resolved' = latest
  /\ UNCHANGED <<loadVars, latest, latestLoad, commitP, budget>>

-----------------------------------------------------------------------------
LoadMatchesStep(r) ==
  (UserResult(r) \/ Continuation(r)) /\ UNCHANGED routerVars
EnvironmentStep == Environment /\ UNCHANGED routerVars

UserAction ==
  \/ \E l \in Loc : Navigate(l) \/ PopState(l) \/ Preload(l)
  \/ \E f, s \in BOOLEAN : Invalidate(f, s)
  \/ \E S \in SUBSET Id : ClearCache(S)

RouterStep(r) ==
  \/ EndLoad(r) \/ FollowRedirect(r) \/ EndPreload(r)
  \/ \E m \in Id : BackgroundRedirect(r, m)

Next ==
  \/ UserAction
  \/ \E r \in Run : LoadMatchesStep(r) \/ RouterStep(r)
  \/ EnvironmentStep
  \/ Resolve

\* JavaScript runs its continuations, timers fire, chunks arrive and user
\* functions return; users need not act.  What is left to do is finite, so that
\* fairness to the event loop is fairness to every run.
Fairness ==
  WF_vars((\E r \in Run : LoadMatchesStep(r) \/ RouterStep(r))
          \/ EnvironmentStep \/ Resolve)

Spec == Init /\ [][Next]_vars /\ Fairness

-----------------------------------------------------------------------------
(* Types *)

\* Every variable holds a value of its kind: each pool maps match ids to
\* match records, each task of each run is in a state of loadRouteMatch.
TypeOK ==
  /\ IsMemory(mem)
  /\ DOMAIN run = Run /\ \A r \in Run : IsRun(run[r])
  /\ cpu \in Obj /\ redirects \in Nat
  /\ latest \in Loc /\ resolved \in Loc /\ status \in {"idle", "pending"}
  /\ latestLoad \in Obj /\ commitP \in BOOLEAN
  /\ budget \in [Act -> Nat]

-----------------------------------------------------------------------------
(* The pools *)

\* A cached match is neither active nor pending: getMatch (which looks in
\* the cache first) and updateMatch (which looks there last) mean the same
\* record, through every commit, preload, redirect and clearing.
PoolsDisjoint ==
  DOMAIN mem.cached \cap (DOMAIN mem.active \cup DOMAIN mem.pending) = {}

\* isLoading says that matches await their commit, and these are the matches
\* of the latest location; when there are none, the latest location is
\* rendered.  What is rendered is always one location, never a mixture.
PathPools ==
  /\ mem.isLoading <=> DOMAIN mem.pending # {}
  /\ IF mem.isLoading THEN DOMAIN mem.pending = PathIds(latest)
                      ELSE DOMAIN mem.active = PathIds(latest)
  /\ \E l \in Loc : DOMAIN mem.active = PathIds(l)

\* A match that stays across a navigation has one _nonReactive object, so
\* the promises of the rendered record are those the load resolves.
SameBag ==
  \A m \in DOMAIN mem.active \cap DOMAIN mem.pending :
    mem.active[m].obj = mem.pending[m].obj

\* A component rendered for a match with a loader finds its loaderData: no
\* interleaving of loads and errors makes a match successful without it.
\* The root that shows a globalNotFound renders without.  (Without lazy
\* routes: a superseded load that awaits a lazy chunk after its loader marks
\* the match that a third navigation has made anew successful.)
DataShown ==
  \A m \in DOMAIN mem.active :
    /\ mem.active[m].status = "success" /\ RouteOf[m] \in HasLoader
    => mem.active[m].data \/ mem.active[m].gnf

-----------------------------------------------------------------------------
(* Loads in flight *)

TaskOf(r, k, m) == run[r][k][m]
InFlight(m) == {x \in Run \X {"fg", "bg"} : TaskOf(x[1], x[2], m).st = "run"}

\* The run is inside the beforeLoad of m that it executes for object o.
Executes(x, m, o) == x.pc = "before" /\ Path[x.loc][x.idx] = m /\ x.bobj = o

\* The run's loader call for m is under way: in the foreground, or in the
\* background, which the foreground does not wait for.
Busy == {"run", "lazy", "chunk", "returned"}
AtWork(x, m) ==
  \/ x.fg[m].st \in Busy /\ x.bg[m].st = "none"
  \/ x.bg[m].st \in Busy

\* The promises of the matches in memory s belong to runs of rs that are still
\* at work on them.
LocksHeld(s, rs) ==
  \A m \in Id, q \in Run :
    LET o == GetMatch(s, m).obj IN
    Known(s, m) =>
      /\ s.bag[m][o].beforeP = q => Executes(rs[q], m, o)
      /\ s.bag[m][o].loaderP = q => AtWork(rs[q], m)

\* beforeLoadPromise and loaderPromise are locks without a timeout: who finds
\* one waits for its run.  No interleaving of runs, failures, redirects,
\* cancellations and commits leaves a known match with a promise whose run
\* has ended, or has moved on from the match.
LocksAreHeld == LocksHeld(mem, run)

\* loaderPromise makes concurrent loads and preloads share a loader call:
\* the loader of a match never runs twice at once for one _nonReactive.
\* (Holds of a load and a preload: a run that has waited for another's
\* promise calls the loader without making one that a third could wait for.)
SingleFlight ==
  \A m \in Id : \A x, y \in InFlight(m) :
    x # y => TaskOf(x[1], x[2], m).obj # TaskOf(y[1], y[2], m).obj

\* Run x[1] waits for a promise of run x[2] on match x[3] that is not resolved,
\* and x[2] is not at work on the match.
Abandoned ==
  {x \in Run \X Run \X Id :
     \/ /\ run[x[1]].pc = "waitB" /\ x[2] = run[x[1]].bkey /\ x[3] = Current(x[1])
        /\ ~BeforeResolved(x[1])
        /\ ~(run[x[2]].pc = "before" /\ Current(x[2]) = x[3])
     \/ /\ run[x[1]].fg[x[3]].st = "wait" /\ x[2] = run[x[1]].fg[x[3]].key
        /\ ~LoaderResolved(x[1], x[3]) /\ ~AtWork(run[x[2]], x[3])}

-----------------------------------------------------------------------------
(* When everything has come to rest *)

RunsOver ==
  \A r \in Run : /\ run[r].pc \in {"idle", "done"}
                 /\ \A m \in Id : run[r].bg[m].st \in {"none", "ok"}
AtRest == RunsOver /\ Drained /\ mem.commits = 0

\* Below a match whose beforeLoad failed nothing was loaded.
BelowFailure(m) ==
  \E i, j \in 1..Len(Path[latest]) :
    /\ i < j /\ Path[latest][j] = m
    /\ LET d == mem.active[Path[latest][i]]
       IN d.status \in {"error", "notFound"} \/ d.gnf

\* However loads, preloads and failures interleaved: in the end the latest
\* location is rendered, nothing awaits its commit and no navigation promise
\* is left.  (Unless the chunk of an errorComponent or notFoundComponent
\* fails to load: that load ends without a commit.)
PageSettled ==
  AtRest => /\ ~mem.isLoading /\ DOMAIN mem.active = PathIds(latest)
            /\ latestLoad = 0 /\ ~commitP

\* And no rendered match is pending (but below a failure), fetching or locked
\* by a promise.  (A match whose lazy chunk failed to load may stay pending;
\* of several loads whose functions fail, one may leave behind a match that
\* another has marked redirected.)
Settled ==
  AtRest =>
    \A m \in {x \in DOMAIN mem.active : mem.lazy[RouteOf[x]] # "failed"} :
      LET d == mem.active[m] IN
      /\ d.status = "pending" => BelowFailure(m)
      /\ d.status # "redirected" /\ d.fetching = "no"
      /\ mem.bag[m][d.obj].loaderP = 0 /\ mem.bag[m][d.obj].beforeP = 0

\* invalidate "forces beforeLoad and load to be called again"
\* (RouterType.md:141): at rest nothing that is rendered still awaits the
\* reload it was invalidated for.
RevalidationNotLost ==
  AtRest => \A m \in DOMAIN mem.active :
    mem.active[m].invalid => mem.active[m].status # "success"

-----------------------------------------------------------------------------
(* What a step may never do *)

\* resolvedLocation, and the onResolved event, follow the page.
ResolvedRendered ==
  [][resolved' # resolved => DOMAIN mem.active = PathIds(resolved')]_vars

\* The promise of the latest navigation is resolved once its matches are
\* rendered (without view transitions, whose commit comes later, and unless a
\* lazy chunk fails to load).
ResolvedAfterCommit ==
  [][commitP /\ ~commitP' => DOMAIN mem'.active = PathIds(latest')]_vars

\* The promise of invalidate({sync: true}) waits for every loader, unless the
\* load has been superseded.  (Nor may a superseded load that was still in a
\* beforeLoad launch its loaders by then.)
SyncWaits ==
  [][\A r \in Run : EndLoad(r) /\ latestLoad = r /\ run[r].sync /\ run[r].res = "ok" =>
       \A m \in DOMAIN mem.active \cap PathIds(run[r].loc) :
         mem.bag[m][mem.active[m].obj].loaderP = 0]_vars

\* Who awaits the beforeLoadPromise or loaderPromise of another run is not
\* abandoned by it, whatever that run meets.  There is one exception, and in
\* it the code leaves the waiter for good: a third run has removed the match by
\* the time the loader returns, and loadRouteMatch throws before it resolves
\* the promise.  (As long as no lazy chunk fails.)
NoLostWaiter ==
  [][\A x \in Abandoned' \ Abandoned : run'[x[2]].fg[x[3]].st = "crash"]_vars

\* The loader calls of the latest load are cancelled by the load that
\* supersedes it (unless beforeLoads of several loads fail on one match).
SupersededAborted ==
  [][\A r \in Run : latestLoad = r /\ latestLoad' \notin {r, 0} =>
       \A m \in Id : run[r].fg[m].st = "run" =>
         <<m, run[r].fg[m].ctrl>> \in mem'.aborted]_vars

-----------------------------------------------------------------------------
(* What the application may rely on *)

Nav == INSTANCE Navigation WITH
         Page <- [l \in Loc |-> PathIds(l)], Home <- Start, target <- latest,
         shown <- DOMAIN mem.active, phase <- status, owed <- commitP

\* The router implements Navigation: only the latest location is ever shown,
\* and it is shown in the end.
ImplementsNavigation == Nav!Spec
=============================================================================
