----------------------------- MODULE MatchPools -----------------------------
(***************************************************************************)
(* The route matches a router holds and the primitive operations on them.  *)
(*                                                                         *)
(* A match is known by its id (route id, path parameters and loader deps). *)
(* stores.ts keeps three pools of match records: "active" (rendered),      *)
(* "pending" (the navigation under way) and "cached" (exited or preloaded).*)
(* Records are immutable values, but every record of a match carries the   *)
(* same mutable _nonReactive object, which is shared when matchRoutes      *)
(* copies an existing record.  Those objects are "bag[m][o]" here, where o *)
(* is the run (the load or preload) whose matchRoutes created it.          *)
(*                                                                         *)
(* Everything a JavaScript statement may write sits in one value, the      *)
(* memory s, and each helper below maps a memory to a memory, so that a    *)
(* handler is a chain of LETs in the order of its statements.              *)
(*                                                                         *)
(* A controlled promise is named by the run that created it.  Bounds: at   *)
(* most MaxRuns loads and preloads; times are abstracted to choices (a     *)
(* record may or may not be past its staleTime or gcTime).                 *)
(***************************************************************************)
EXTENDS Naturals, Sequences

CONSTANTS
  Id,           \* match ids
  Route,        \* route ids
  RouteOf,      \* [Id -> Route]
  Loc,          \* locations (hrefs)
  Path,         \* [Loc -> Seq(Id)]: what getMatchedRoutes finds, root first
  MaxRuns,      \* bound: loads and preloads ever started
  HasLoader,    \* routes with a loader
  HasBeforeLoad,\* routes with a beforeLoad
  LazyRoutes    \* routes whose options come from a lazy chunk

Run == 1..MaxRuns
Obj == 0..MaxRuns
PathIds(l) == {Path[l][i] : i \in 1..Len(Path[l])}

ASSUME PathAssumption ==
  /\ RouteOf \in [Id -> Route]
  /\ Path \in [Loc -> Seq(Id)]
  /\ \A l \in Loc : Path[l] # <<>>
  /\ \A l \in Loc : \A i, j \in 1..Len(Path[l]) : i # j => Path[l][i] # Path[l][j]
  /\ MaxRuns \in Nat
  /\ HasLoader \subseteq Route /\ HasBeforeLoad \subseteq Route
  /\ LazyRoutes \subseteq Route

Status   == {"pending", "success", "error", "redirected", "notFound"}
Fetching == {"no", "beforeLoad", "loader"}
Failure  == {"none", "error", "redirect", "notFound"}

\* An AbortController: made by matchRoutes ("new"), by executeBeforeLoad
\* ("run") or by handleSerialError ("err") of a run.
Controller == {"new", "run", "err"} \X Obj

\* obj names the _nonReactive object, ctrl the abortController, gnf is
\* globalNotFound, data says whether loaderData is there.
Match == [status: Status, fetching: Fetching, invalid: BOOLEAN,
          preload: BOOLEAN, error: Failure, obj: Obj, ctrl: Controller,
          cause: {"enter", "stay"}, gnf: BOOLEAN, data: BOOLEAN]

\* _nonReactive: beforeP and loaderP hold the run that created the promise
\* (0: undefined), timer the run whose onReady the pending timeout will call.
Bag == [loadP: {"none", "open", "done"}, beforeP: Obj, loaderP: Obj,
        err: Failure, timer: Obj, fired: BOOLEAN]
EmptyBag == [loadP |-> "none", beforeP |-> 0, loaderP |-> 0,
             err |-> "none", timer |-> 0, fired |-> FALSE]

PoolName == {"active", "pending", "cached"}
IsPool(f) == DOMAIN f \subseteq Id /\ f \in [DOMAIN f -> Match]

\* The memory: the pools, the promises resolved so far, the controllers
\* aborted, the state of each lazy chunk, stores.isLoading and the number of
\* view transitions still to run.
IsMemory(s) ==
  /\ DOMAIN s = PoolName \cup {"bag", "resolved", "aborted", "lazy",
                               "isLoading", "commits"}
  /\ IsPool(s.active) /\ IsPool(s.pending) /\ IsPool(s.cached)
  /\ s.bag \in [Id -> [Obj -> Bag]]
  /\ s.resolved \subseteq {"before", "loader"} \X Id \X Obj
  /\ s.aborted \subseteq Id \X Controller
  /\ s.lazy \in [Route -> {"idle", "loading", "loaded", "failed"}]
  /\ s.isLoading \in BOOLEAN /\ s.commits \in Nat

-----------------------------------------------------------------------------
(* Reading and writing matches *)

Known(s, m) == \E p \in PoolName : m \in DOMAIN s[p]
Drop(f, S) == [m \in DOMAIN f \ S |-> f[m]]

\* getMatch looks in cached, then pending, then active ...
GetMatch(s, m) ==
  IF m \in DOMAIN s.cached THEN s.cached[m]
  ELSE IF m \in DOMAIN s.pending THEN s.pending[m] ELSE s.active[m]

\* ... whereas updateMatch applies its updater to the record it finds in
\* pending, then active, then cached.
Stored(s, m) ==
  IF m \in DOMAIN s.pending THEN s.pending[m]
  ELSE IF m \in DOMAIN s.active THEN s.active[m] ELSE s.cached[m]

\* Mutant of SetMatch: an active record is updated before a pending one.
SetActiveFirst(s, m, d) ==
  IF m \in DOMAIN s.active THEN [s EXCEPT !.active[m] = d]
  ELSE IF m \in DOMAIN s.pending THEN [s EXCEPT !.pending[m] = d]
  ELSE IF m \in DOMAIN s.cached THEN [s EXCEPT !.cached[m] = d] ELSE s

\* updateMatch: d is the record the updater returned for Stored(s, m).
SetMatch(s, m, d) ==
  IF m \in DOMAIN s.pending THEN [s EXCEPT !.pending[m] = d]
  ELSE IF m \in DOMAIN s.active THEN [s EXCEPT !.active[m] = d]
  ELSE IF m \notin DOMAIN s.cached THEN s
  ELSE IF d.status = "redirected" THEN [s EXCEPT !.cached = Drop(@, {m})]
  ELSE [s EXCEPT !.cached[m] = d]

-----------------------------------------------------------------------------
(* The promises of a _nonReactive object *)

ResolveBefore(s, m, o) ==
  IF s.bag[m][o].beforeP = 0 THEN s
  ELSE [s EXCEPT !.bag[m][o].beforeP = 0,
                 !.resolved = @ \cup {<<"before", m, s.bag[m][o].beforeP>>}]

\* Mutant of ResolveLoader: the promise is resolved but kept.
ResolveLoaderKept(s, m, o) ==
  [s EXCEPT !.resolved = @ \cup ({<<"loader", m, s.bag[m][o].loaderP>>} \ {<<"loader", m, 0>>})]

ResolveLoader(s, m, o) ==
  IF s.bag[m][o].loaderP = 0 THEN s
  ELSE [s EXCEPT !.bag[m][o].loaderP = 0,
                 !.resolved = @ \cup {<<"loader", m, s.bag[m][o].loaderP>>}]

\* The promises of successive loads are chained, so resolving the current
\* one also wakes a component that suspended on an earlier one.
ResolveLoad(s, m, o) ==
  IF s.bag[m][o].loadP = "none" THEN s ELSE [s EXCEPT !.bag[m][o].loadP = "done"]

ClearTimer(s, m, o) ==
  [s EXCEPT !.bag[m][o].timer = 0, !.bag[m][o].fired = FALSE]

-----------------------------------------------------------------------------
(* router.ts: cancelMatches, matchRoutes, the commit, the cache *)

\* Mutant of Doomed: only rendered matches are cancelled.
DoomedActive(s) ==
  {m \in DOMAIN s.active : s.active[m].status = "pending" \/ s.active[m].fetching = "loader"}

\* The matches a new load cancels.
Doomed(s) ==
  DOMAIN s.pending \cup
  {m \in DOMAIN s.active : s.active[m].status = "pending" \/ s.active[m].fetching = "loader"}

CancelMatches(s) ==
  LET doomed == Doomed(s)
  IN [s EXCEPT
        !.aborted = @ \cup {<<m, GetMatch(s, m).ctrl>> : m \in doomed},
        !.bag = [m \in Id |-> IF m \in doomed
                  THEN [@[m] EXCEPT ![GetMatch(s, m).obj].timer = 0,
                                    ![GetMatch(s, m).obj].fired = FALSE]
                  ELSE @[m]]]

NeedsLoad(m) == RouteOf[m] \in HasLoader \cup HasBeforeLoad \cup LazyRoutes

Cause(s, m) ==
  IF \E d \in DOMAIN s.active : RouteOf[d] = RouteOf[m] THEN "stay" ELSE "enter"

NewMatch(s, m, r) ==
  [status |-> IF NeedsLoad(m) THEN "pending" ELSE "success", fetching |-> "no",
   invalid |-> FALSE, preload |-> FALSE, error |-> "none", obj |-> r,
   ctrl |-> <<"new", r>>, cause |-> Cause(s, m), gnf |-> FALSE,
   data |-> FALSE]

\* Mutant of Matched: a match in error starts afresh.
MatchedAfresh(s, m, r) ==
  IF Known(s, m) /\ GetMatch(s, m).status # "error"
  THEN [GetMatch(s, m) EXCEPT !.cause = Cause(s, m), !.gnf = FALSE]
  ELSE NewMatch(s, m, r)

\* The record matchRoutes makes for m: a copy of the existing one, or new.
Matched(s, m, r) ==
  IF Known(s, m) THEN [GetMatch(s, m) EXCEPT !.cause = Cause(s, m), !.gnf = FALSE]
  ELSE NewMatch(s, m, r)

\* New records come with an open loadPromise in a new object.
NewBags(s, S, r) ==
  [m \in Id |-> IF m \in S /\ ~Known(s, m)
                THEN [s.bag[m] EXCEPT ![r] = [EmptyBag EXCEPT !.loadP = "open"]]
                ELSE s.bag[m]]

\* beforeLoad: cancel, match the latest location, ingest it as pending.
IngestPending(s0, l, r) ==
  LET s == CancelMatches(s0)
  IN [s EXCEPT !.bag = NewBags(s, PathIds(l), r),
               !.pending = [m \in PathIds(l) |-> Matched(s, m, r)],
               !.cached = Drop(@, PathIds(l))]

\* Mutant of IngestPreload: what is not cached is cached, even if rendered.
IngestOverActive(s, l, r) ==
  LET new == PathIds(l) \ DOMAIN s.cached
  IN [s EXCEPT !.bag = NewBags(s, new, r),
               !.cached = [m \in DOMAIN @ \cup new |->
                             IF m \in new THEN NewMatch(s, m, r) ELSE @[m]]]

\* preloadRoute: matches found in no pool become cached ones.
IngestPreload(s, l, r) ==
  LET new == {m \in PathIds(l) : ~Known(s, m)}
  IN [s EXCEPT !.bag = NewBags(s, new, r),
               !.cached = [m \in DOMAIN @ \cup new |->
                             IF m \in new THEN NewMatch(s, m, r) ELSE @[m]]]

\* clearExpiredCache: old is the set of entries past their gcTime.
Expired(cached, old) ==
  {m \in DOMAIN cached : \/ RouteOf[m] \notin HasLoader
                         \/ cached[m].status = "error"
                         \/ m \in old}

\* The commit of onReady: pending matches become active, usable exiting ones
\* are cached, expired cache entries are dropped.
Commit(s, old) ==
  LET exiting == {m \in DOMAIN s.active \ DOMAIN s.pending :
                    s.active[m].status \notin {"error", "notFound", "redirected"}}
      cached  == [m \in DOMAIN s.cached \cup exiting |->
                    IF m \in exiting THEN s.active[m] ELSE s.cached[m]]
  IN IF DOMAIN s.pending = {} THEN s
     ELSE [s EXCEPT !.active = s.pending,
                    !.pending = [m \in {} |-> 0],
                    !.cached = Drop(cached, Expired(cached, old))]

\* invalidate with no filter, on every pool.
InvalidateMatch(d, forcePending) ==
  IF forcePending \/ d.status \in {"error", "notFound"}
  THEN [d EXCEPT !.invalid = TRUE, !.status = "pending", !.error = "none"]
  ELSE [d EXCEPT !.invalid = TRUE]

InvalidateAll(s, forcePending) ==
  [s EXCEPT
     !.active = [m \in DOMAIN @ |-> InvalidateMatch(@[m], forcePending)],
     !.pending = [m \in DOMAIN @ |-> InvalidateMatch(@[m], forcePending)],
     !.cached = [m \in DOMAIN @ |-> InvalidateMatch(@[m], forcePending)]]
=============================================================================
