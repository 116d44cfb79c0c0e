---------------------------- MODULE LoadMatches -----------------------------
(***************************************************************************)
(* load-matches.ts: what one call of loadMatches does, for any number of   *)
(* calls in flight on the same match pools.                                *)
(*                                                                         *)
(* A run is one call: a load (of router.load) or a preload (of             *)
(* preloadRoute).  It executes the beforeLoads serially, then one task per *)
(* match (loadRouteMatch), waits for all of them and finishes.  JavaScript *)
(* runs each stretch between two awaits to completion: "cpu" is the run    *)
(* inside such a stretch, 0 when the thread is free.  Continuations whose  *)
(* promise is resolved are taken in any order; results of user functions   *)
(* arrive at any moment the thread is free; clicks, timers and chunks wait *)
(* until no continuation is ready (Drained).                               *)
(***************************************************************************)
EXTENDS MatchPools

CONSTANTS
  Blocking,        \* routes whose staleReloadMode is 'blocking'
  NoPreload,       \* routes with preload: false
  NotFoundRoutes,  \* routes with a notFoundComponent
  PendingRoutes,   \* routes with a pendingComponent and a finite pendingMs
  ViewTransition,  \* commits go through document.startViewTransition
  BeforeOutcomes,  \* how a user's beforeLoad may end
  LoaderOutcomes,  \* how a user's loader may end
  FailingChunks,   \* lazy routes whose import may reject
  EagerResults,    \* user functions may return between two continuations
  Expiry,          \* cached matches may outlive their gcTime
  MaxRedirects     \* bound: redirects thrown by user code

ASSUME OutcomeAssumption ==
  /\ BeforeOutcomes \subseteq {"ok", "error", "redirect", "notFound"}
  /\ LoaderOutcomes \subseteq
       {"ok", "error", "redirect", "notFound", "abort", "timeout"}
  /\ \A rt \in PendingRoutes : rt \in HasLoader \cup HasBeforeLoad \cup LazyRoutes
  /\ FailingChunks \subseteq LazyRoutes
  /\ {ViewTransition, EagerResults, Expiry} \subseteq BOOLEAN
  /\ MaxRedirects \in Nat

VARIABLES
  mem,       \* the pools and everything else shared by the runs
  run,       \* [Run -> the InnerLoadContext and position of a run]
  cpu,       \* the run executing a synchronous stretch, or 0
  redirects  \* redirects thrown so far (bounded by MaxRedirects)

loadVars == <<mem, run, cpu, redirects>>

\* The position of loadRouteMatch (fg) or of its background reload (bg).
TaskState == {"none", "wait", "run", "lazy", "chunk", "returned", "ok",
              "redirect", "notFound", "crash"}
Task == [st: TaskState, key: Obj, obj: Obj, ctrl: Controller, at: Nat,
         preload: BOOLEAN]
NoTask == [st |-> "none", key |-> 0, obj |-> 0, ctrl |-> <<"new", 0>>, at |-> 0,
           preload |-> FALSE]

At(st) == [NoTask EXCEPT !.st = st]

\* idx is the match the loop is at; bad, bnf and nf are the positions of the
\* first failed beforeLoad, of one that was a notFound and of the boundary
\* shown; gone: no pool knew the match of that notFound any more; bobj and bkey
\* belong to the beforeLoad under way or awaited; held maps the matches a
\* preload must not touch to their objects.
IsRun(rec) ==
  /\ DOMAIN rec = {"kind", "loc", "force", "sync", "pc", "idx", "bad", "serial",
                  "bnf", "gone", "nf", "rendered", "bobj", "bkey", "held", "fg", "bg", "res"}
  /\ rec.kind \in {"free", "load", "preload"} /\ rec.loc \in Loc
  /\ rec.pc \in {"idle", "pre", "waitB", "before", "loaders", "settle", "nfChunk",
                 "errChunk", "ready", "end", "done"}
  /\ {rec.force, rec.sync, rec.serial, rec.gone, rec.rendered} \subseteq BOOLEAN
  /\ {rec.idx, rec.bad, rec.bnf, rec.nf} \subseteq Nat
  /\ rec.bobj \in Obj /\ rec.bkey \in Obj
  /\ DOMAIN rec.held \subseteq Id /\ rec.held \in [DOMAIN rec.held -> Obj]
  /\ rec.fg \in [Id -> Task] /\ rec.bg \in [Id -> Task]
  /\ rec.res \in {"none", "ok", "redirect", "notFound", "error"}

FreeRun == [kind |-> "free", loc |-> CHOOSE l \in Loc : TRUE, force |-> FALSE,
            sync |-> FALSE, pc |-> "idle", idx |-> 1, bad |-> 0,
            serial |-> FALSE, bnf |-> 0, gone |-> FALSE, nf |-> 0, rendered |-> FALSE,
            bobj |-> 0, bkey |-> 0, held |-> [m \in {} |-> 0],
            fg |-> [m \in Id |-> NoTask], bg |-> [m \in Id |-> NoTask],
            res |-> "none"]

NewRun(kind, l, force, sync, held) ==
  [FreeRun EXCEPT !.kind = kind, !.loc = l, !.force = force, !.sync = sync,
                  !.pc = "pre", !.held = held]

PathOf(r) == Path[run[r].loc]
Current(r) == PathOf(r)[run[r].idx]
IsPreload(r) == run[r].kind = "preload"
Turn(r) == cpu \in {0, r}

\* resolvePreload: a preload of a match that is not rendered.
Preloading(s, r, m) == IsPreload(r) /\ m \notin DOMAIN s.active

-----------------------------------------------------------------------------
(* What the thread may do next *)

\* The boundary that renders a notFound thrown at position at (0: by a match
\* that is gone): getNotFoundBoundaryIndex.
Boundary(r, at) ==
  LET from == IF at # 0 THEN at
              ELSE IF run[r].bad # 0 THEN run[r].bad ELSE Len(PathOf(r))
      S == {i \in 1..from : RouteOf[PathOf(r)[i]] \in NotFoundRoutes}
  IN IF S # {} THEN CHOOSE i \in S : \A j \in S : j <= i
     ELSE IF at # 0 THEN from ELSE 1

\* The boundary of a notFound of a beforeLoad, which carries no routeId when
\* its match was gone.
BeforeBoundary(r) == Boundary(r, IF run[r].gone THEN 0 ELSE run[r].bnf)

\* The matches before the first whose beforeLoad failed.
Unfailed(r) == IF run[r].bad = 0 THEN Len(PathOf(r)) ELSE run[r].bad - 1

\* How many loaders run (maxIndexExclusive).
LoaderCount(r) ==
  LET base == Unfailed(r)
      b == BeforeBoundary(r) IN
  IF run[r].bnf = 0 THEN base
  ELSE IF IsPreload(r) THEN 0
  ELSE IF b < base THEN b ELSE base

BeforeResolved(r) == <<"before", Current(r), run[r].bkey>> \in mem.resolved
LoaderResolved(r, m) == <<"loader", m, run[r].fg[m].key>> \in mem.resolved

\* The chunk of m's route is there, or its import failed.
ChunkSettled(s, m) == s.lazy[RouteOf[m]] \notin {"idle", "loading"}

Tasks(r) == {PathOf(r)[i] : i \in 1..LoaderCount(r)}
Ended == {"ok", "redirect", "notFound", "crash"}
AllSettled(r) == \A m \in Tasks(r) : run[r].fg[m].st \in Ended

\* A continuation of r is in the microtask queue.
Continuable(r) ==
  \/ run[r].pc \in {"pre", "loaders", "ready", "end"}
  \/ run[r].pc = "waitB" /\ BeforeResolved(r)
  \/ run[r].pc = "settle" /\ AllSettled(r)
  \/ run[r].pc = "nfChunk" /\ ChunkSettled(mem, PathOf(r)[run[r].nf])
  \/ run[r].pc = "errChunk" /\ ChunkSettled(mem, PathOf(r)[run[r].bad])
  \/ \E m \in Id :
       \/ run[r].fg[m].st = "wait" /\ LoaderResolved(r, m)
       \/ run[r].bg[m].st = "redirect"
       \/ \E k \in {"fg", "bg"} :
            \/ run[r][k][m].st = "returned"
            \/ run[r][k][m].st \in {"lazy", "chunk"} /\ ChunkSettled(mem, m)

\* Clicks, timers and chunks are taken from the task queue, so only when the
\* microtask queue is empty.  The result of a user function may come from
\* either queue.
Drained == cpu = 0 /\ \A r \in Run : ~Continuable(r)
Results == cpu = 0 /\ (EagerResults \/ Drained)

-----------------------------------------------------------------------------
(* Updating matches on behalf of a run *)

\* A preload keeps the updates of matches that were active or pending when
\* it started to itself (preloadRoute's updateMatch).
Update(s, r, m, d) == IF m \in DOMAIN run[r].held THEN s ELSE SetMatch(s, m, d)

StatusOf(e) == IF e = "redirect" THEN "redirected" ELSE "notFound"

\* Mutant of Fail: who waits for the loader is not woken.
FailWaiting(s, r, m, e) ==
  IF ~Known(s, m) THEN s
  ELSE LET o  == GetMatch(s, m).obj
           s1 == ResolveBefore(s, m, o)
           s2 == [s1 EXCEPT !.bag[m][o].err = e]
           s3 == Update(s2, r, m, [Stored(s2, m) EXCEPT !.status = StatusOf(e),
                                          !.fetching = "no", !.error = e])
       IN ResolveLoad(s3, m, o)

\* handleRedirectAndNotFound for a redirect not yet handled or a notFound.
Fail(s, r, m, e) ==
  IF ~Known(s, m) THEN s
  ELSE LET o  == GetMatch(s, m).obj
           s1 == ResolveLoader(ResolveBefore(s, m, o), m, o)
           s2 == [s1 EXCEPT !.bag[m][o].err = e]
           s3 == Update(s2, r, m, [Stored(s2, m) EXCEPT !.status = StatusOf(e),
                                          !.fetching = "no", !.error = e])
       IN ResolveLoad(s3, m, o)

\* setupPendingTimeout; a preload has no onReady and sets none.
SetupTimer(s, r, m, o) ==
  IF /\ run[r].kind = "load" /\ RouteOf[m] \in PendingRoutes
     /\ s.bag[m][o].timer = 0
  THEN [s EXCEPT !.bag[m][o].timer = r] ELSE s

\* loadRouteChunk: the first call starts the import.
StartChunk(s, m) ==
  IF s.lazy[RouteOf[m]] = "idle" THEN [s EXCEPT !.lazy[RouteOf[m]] = "loading"]
  ELSE s

\* triggerOnReady, with onReady of router.load.
OnReady(s, old) ==
  IF ViewTransition THEN [s EXCEPT !.commits = @ + 1]
  ELSE [Commit(s, old) EXCEPT !.isLoading = FALSE]

-----------------------------------------------------------------------------
(* The serial beforeLoad phase *)

\* The loop stops at the first failure and after the last match.
AfterBefore(rec) ==
  IF rec.bad = 0 /\ rec.bnf = 0 /\ rec.idx < Len(Path[rec.loc])
  THEN [rec EXCEPT !.pc = "pre", !.idx = @ + 1, !.bobj = 0, !.bkey = 0]
  ELSE [rec EXCEPT !.pc = "loaders", !.idx = 1, !.bobj = 0, !.bkey = 0]

End(rec, res) == [rec EXCEPT !.pc = "end", !.res = res]

\* executeBeforeLoad up to the user's function.
Execute(s, r, m) ==
  LET o  == GetMatch(s, m).obj
      s1 == SetupTimer([s EXCEPT !.bag[m][o].loadP = "open"], r, m, o)
      has == RouteOf[m] \in HasBeforeLoad
      s2 == Update(s1, r, m,
              [Stored(s1, m) EXCEPT !.ctrl = <<"run", r>>,
                 !.fetching = IF has THEN "beforeLoad" ELSE "no"])
  IN IF has THEN [s2 EXCEPT !.bag[m][o].beforeP = r] ELSE s2

ExecuteBeforeLoad(s, r) ==
  LET m == Current(r) IN
  IF RouteOf[m] \in HasBeforeLoad
  THEN /\ mem' = Execute(s, r, m)
       /\ run' = [run EXCEPT ![r] = [@ EXCEPT !.pc = "before",
                                              !.bobj = GetMatch(s, m).obj]]
       /\ cpu' = 0
  ELSE /\ mem' = Execute(s, r, m)
       /\ run' = [run EXCEPT ![r] = AfterBefore(@)]
       /\ cpu' = r

\* A preload that failed while we waited for it (preBeforeLoadSetup's then).
SawFailedPreload(s, m) ==
  GetMatch(s, m).preload /\ GetMatch(s, m).status \in {"redirected", "notFound"}

ThenExecute(s, r) ==
  LET m == Current(r) IN
  IF ~SawFailedPreload(s, m) THEN ExecuteBeforeLoad(s, r)
  ELSE /\ cpu' = 0
       /\ IF GetMatch(s, m).status = "redirected"
          THEN mem' = s /\ run' = [run EXCEPT ![r] = End(@, "redirect")]
          ELSE /\ mem' = Fail(s, r, m, "notFound")
               /\ run' = [run EXCEPT ![r] =
                            AfterBefore([@ EXCEPT !.bnf = run[r].idx])]

\* handleBeforeLoad of a match no pool knows any more.
SkipBeforeLoad(r) ==
  /\ run[r].pc = "pre" /\ Turn(r) /\ ~Known(mem, Current(r))
  /\ run' = [run EXCEPT ![r] = AfterBefore(@)]
  /\ cpu' = r
  /\ UNCHANGED <<mem, redirects>>

\* handleBeforeLoad of a match whose previous beforeLoad is still running.
WaitBeforeLoad(r) ==
  LET m == Current(r)
      o == GetMatch(mem, m).obj IN
  /\ run[r].pc = "pre" /\ Turn(r) /\ Known(mem, m)
  /\ mem.bag[m][o].beforeP # 0
  /\ mem' = SetupTimer(mem, r, m, o)
  /\ run' = [run EXCEPT ![r] = [@ EXCEPT !.pc = "waitB",
                                         !.bkey = mem.bag[m][o].beforeP]]
  /\ cpu' = 0
  /\ UNCHANGED redirects

StartBeforeLoad(r) ==
  LET m == Current(r)
      o == GetMatch(mem, m).obj IN
  /\ run[r].pc = "pre" /\ Turn(r) /\ Known(mem, m)
  /\ mem.bag[m][o].beforeP = 0
  /\ IF mem.bag[m][o].loaderP # 0
     THEN ThenExecute(SetupTimer(mem, r, m, o), r)
     ELSE ExecuteBeforeLoad(mem, r)
  /\ UNCHANGED redirects

\* The awaited beforeLoad is over.  If the match is gone, reading its
\* preload flag throws a TypeError, which ends a load and a preload's loop.
WakeBeforeLoad(r) ==
  /\ run[r].pc = "waitB" /\ cpu = 0 /\ BeforeResolved(r)
  /\ IF Known(mem, Current(r)) THEN ThenExecute(mem, r)
     ELSE /\ run' = [run EXCEPT ![r] = IF IsPreload(r)
                                      THEN [@ EXCEPT !.pc = "loaders", !.idx = 1]
                                      ELSE End(@, "error")]
          /\ cpu' = 0 /\ UNCHANGED mem
  /\ UNCHANGED redirects

\* updateContext after a beforeLoad that returned.
BeforeLoadReturns(r) ==
  LET m  == Current(r)
      s1 == ResolveBefore(mem, m, run[r].bobj) IN
  /\ run[r].pc = "before" /\ Results /\ "ok" \in BeforeOutcomes
  /\ mem' = Update(s1, r, m, [Stored(s1, m) EXCEPT !.fetching = "no"])
  /\ run' = [run EXCEPT ![r] = AfterBefore(@)]
  /\ UNCHANGED <<cpu, redirects>>

\* handleSerialError for an ordinary error, then updateContext(undefined).
\* The promises are resolved by the updater, so only if there is a record.
BeforeLoadThrows(r) ==
  LET m  == Current(r)
      held == m \in DOMAIN run[r].held
      o  == IF held THEN run[r].held[m] ELSE Stored(mem, m).obj
      s1 == IF held \/ Known(mem, m)
            THEN ResolveLoad(ResolveBefore(mem, m, o), m, o) ELSE mem
      s2 == Update(s1, r, m, [Stored(s1, m) EXCEPT !.status = "error",
                   !.error = "error", !.fetching = "no", !.ctrl = <<"err", r>>])
  IN
  /\ run[r].pc = "before" /\ Results /\ "error" \in BeforeOutcomes
  /\ mem' = ResolveBefore(s2, m, run[r].bobj)
  /\ run' = [run EXCEPT ![r] = AfterBefore([@ EXCEPT !.bad = run[r].idx,
                                                     !.serial = ~IsPreload(r)])]
  /\ UNCHANGED <<cpu, redirects>>

\* handleSerialError for a redirect or a notFound.
BeforeLoadFails(r, e) ==
  /\ run[r].pc = "before" /\ Results /\ e \in BeforeOutcomes
  /\ e = "redirect" => redirects < MaxRedirects
  /\ mem' = Fail(mem, r, Current(r), e)
  /\ run' = [run EXCEPT ![r] =
       IF e = "redirect" THEN End([@ EXCEPT !.bad = run[r].idx, !.rendered = TRUE], e)
       ELSE AfterBefore([@ EXCEPT !.bad = run[r].idx, !.bnf = run[r].idx,
                                  !.gone = ~Known(mem, Current(r))])]
  /\ redirects' = IF e = "redirect" THEN redirects + 1 ELSE redirects
  /\ UNCHANGED cpu

-----------------------------------------------------------------------------
(* runLoader *)

\* The outer catch of runLoader forgets the loader promise unresolved.
ForgetLoader(s, m) ==
  IF Known(s, m) THEN [s EXCEPT !.bag[m][GetMatch(s, m).obj].loaderP = 0] ELSE s

Succeed(s, r, m) ==
  Update(s, r, m, [Stored(s, m) EXCEPT !.error = "none", !.status = "success",
                                       !.fetching = "no"])

\* After the loader: await the lazy chunk.  <<memory, task state>>
AwaitLazy(s, r, m) ==
  CASE s.lazy[RouteOf[m]] = "loading" -> <<s, "lazy">>
    [] s.lazy[RouteOf[m]] = "failed"  -> <<ForgetLoader(s, m), "returned">>
    [] OTHER                          -> <<Succeed(s, r, m), "returned">>

\* The loader threw an ordinary error: await the chunk with the
\* errorComponent, then store the error.
StoreError(s, r, m) ==
  Update(s, r, m, [Stored(s, m) EXCEPT !.error = "error", !.status = "error",
                                       !.fetching = "no"])
AwaitErrorChunk(s, r, m) ==
  CASE s.lazy[RouteOf[m]] = "loading" -> <<s, "chunk">>
    [] s.lazy[RouteOf[m]] = "failed"  -> <<ForgetLoader(s, m), "returned">>
    [] OTHER                          -> <<StoreError(s, r, m), "returned">>

\* runLoader up to its first await.
StartLoader(s, r, m) ==
  LET s1   == StartChunk(s, m)
      rt   == RouteOf[m]
      will == rt \in HasLoader \/ s1.lazy[rt] \in {"loading", "failed"}
      s2   == IF will
              THEN Update(s1, r, m, [Stored(s1, m) EXCEPT !.fetching = "loader"])
              ELSE s1
  IN IF rt \in HasLoader THEN <<s2, "run">> ELSE AwaitLazy(s2, r, m)

\* The task remembers the match it runs for: its object and controller.
Started(m, st) ==
  IF st # "run" THEN At(st)
  ELSE [At(st) EXCEPT !.obj = GetMatch(mem, m).obj, !.ctrl = GetMatch(mem, m).ctrl]

\* AbortError: a loader that saw its signal aborted, or any other.
Abort(s, r, m, task) ==
  IF <<m, task.ctrl>> \in s.aborted THEN ResolveLoader(s, m, task.obj)
  ELSE Update(s, r, m,
         [Stored(s, m) EXCEPT !.fetching = "no",
            !.status = IF @ = "pending" THEN "success" ELSE @])

-----------------------------------------------------------------------------
(* loadRouteMatch *)

\* The id of the rendered match of the same route.
RenderedIds(s, m) == {d \in DOMAIN s.active : RouteOf[d] = RouteOf[m]}

\* A successful match is reloaded when invalid or stale; stale says whether
\* its age is past the staleTime.
ShouldReload(s, r, m, stale) ==
  LET d == GetMatch(s, m) IN
  /\ d.status = "success"
  /\ \/ d.invalid
     \/ /\ stale
        /\ \/ run[r].force
           \/ d.cause = "enter"
           \/ \E o \in RenderedIds(s, m) : o # m

\* Mutant of InBackground: a sync load reloads in the background, too.
InBackgroundAlways(r, m) == RouteOf[m] \notin Blocking

\* A stale match is reloaded in the background (shouldReloadInBackground).
InBackground(r, m) == ~run[r].sync /\ RouteOf[m] \notin Blocking

\* handleLoader, up to its first await: <<memory, the run's new record>>.
HandleLoader(s, r, m, preload, stale) ==
  LET reload == ShouldReload(s, r, m, stale)
      go   == StartLoader(s, r, m)
      idle == <<s, [run[r] EXCEPT !.fg[m] = At("returned")]>> IN
  IF preload /\ RouteOf[m] \in NoPreload THEN idle
  ELSE IF reload /\ InBackground(r, m)
  THEN <<go[1], [run[r] EXCEPT !.bg[m] = Started(m, go[2]),
                               !.fg[m] = At("returned")]>>
  ELSE IF GetMatch(s, m).status # "success" \/ reload
  THEN <<go[1], [run[r] EXCEPT !.fg[m] = Started(m, go[2])]>>
  ELSE idle

\* Mutant of Unlock: the promises are dropped, not resolved.
UnlockSilently(s, m, o) ==
  [s EXCEPT !.bag[m][o].loaderP = 0, !.bag[m][o].loadP = "none"]

Unlock(s, m, o) == [ResolveLoader(s, m, o) EXCEPT !.bag[m][o].loadP = "none"]

Loaded(s, r, m, fetching) ==
  Update(s, r, m, [Stored(s, m) EXCEPT !.fetching = fetching, !.invalid = FALSE])

\* The end of loadRouteMatch when match m is known.
Finalize(s, r, m) ==
  LET d  == GetMatch(s, m)
      async == run[r].bg[m].st # "none"
      s1 == ClearTimer(IF async THEN s ELSE Unlock(s, m, d.obj), m, d.obj)
      next == IF async THEN d.fetching ELSE "no"
  IN IF next = d.fetching /\ ~d.invalid THEN s1 ELSE Loaded(s1, r, m, next)

InLoaders(r) == run[r].pc = "loaders" /\ Turn(r)
NextTask(r, m) == InLoaders(r) /\ run[r].idx <= LoaderCount(r) /\ m = Current(r)

\* A match that is gone, or whose stale data may be shown while somebody
\* else reloads it: nothing to do.
Reusable(r, m) ==
  /\ GetMatch(mem, m).status = "success" /\ ~GetMatch(mem, m).preload
  /\ InBackground(r, m)

SkipLoader(r) ==
  \E m \in Id :
    /\ NextTask(r, m)
    /\ Known(mem, m) =>
         mem.bag[m][GetMatch(mem, m).obj].loaderP # 0 /\ Reusable(r, m)
    /\ run' = [run EXCEPT ![r] = [@ EXCEPT !.fg[m] = At("ok"),
                                          !.idx = run[r].idx + 1]]
    /\ cpu' = r
    /\ UNCHANGED <<mem, redirects>>

\* Somebody else is loading the match: wait for its loaderPromise.
WaitLoader(r) ==
  \E m \in Id :
    /\ NextTask(r, m) /\ Known(mem, m) /\ ~Reusable(r, m)
    /\ mem.bag[m][GetMatch(mem, m).obj].loaderP # 0
    /\ run' = [run EXCEPT ![r] = [@ EXCEPT !.idx = run[r].idx + 1,
         !.fg[m] = [NoTask EXCEPT !.st = "wait", !.preload = Preloading(mem, r, m),
                      !.key = mem.bag[m][GetMatch(mem, m).obj].loaderP]]]
    /\ cpu' = r
    /\ UNCHANGED <<mem, redirects>>

\* Mutant of Lock: the loader starts without a loaderPromise.
LockNothing(s, m, o, r) == s

Lock(s, m, o, r) == [s EXCEPT !.bag[m][o].loaderP = r]

StartTask(r) ==
  \E m \in Id, stale \in BOOLEAN :
    LET o  == GetMatch(mem, m).obj
        s1 == Lock(mem, m, o, r)
        p  == Preloading(mem, r, m)
        s2 == IF p = GetMatch(mem, m).preload THEN s1
              ELSE Update(s1, r, m, [Stored(s1, m) EXCEPT !.preload = p]) IN
    /\ NextTask(r, m) /\ Known(mem, m)
    /\ mem.bag[m][o].loaderP = 0
    /\ LET h == HandleLoader(s2, r, m, p, stale)
       IN mem' = h[1] /\ run' = [run EXCEPT ![r] = [h[2] EXCEPT !.idx = run[r].idx + 1]]
    /\ cpu' = r
    /\ UNCHANGED redirects

LaunchedAll(r) ==
  /\ InLoaders(r) /\ run[r].idx > LoaderCount(r)
  /\ run' = [run EXCEPT ![r] = [@ EXCEPT !.pc = "settle"]]
  /\ cpu' = 0
  /\ UNCHANGED <<mem, redirects>>

-----------------------------------------------------------------------------
(* The continuations of a task; k is "fg" or "bg" *)

\* Mutant of RenderedBy: every failure counts as a redirect.
RenderedByAny(e) == TRUE

\* handleRedirectAndNotFound keeps a redirected load from committing.
RenderedBy(e) == e = "redirect"

\* runLoader ends by throwing a redirect or a notFound.  A background
\* reload swallows the notFound.
Reject(r, k, m, e) ==
  LET at == IF Known(mem, m)
            THEN CHOOSE i \in 1..Len(PathOf(r)) : PathOf(r)[i] = m ELSE 0 IN
  run' = [run EXCEPT ![r] = [@ EXCEPT !.rendered = run[r].rendered \/ RenderedBy(e),
            ![k][m] = [NoTask EXCEPT !.at = at,
                         !.st = IF k = "bg" /\ e = "notFound" THEN "ok" ELSE e]]]

\* The task of m is now at st.
Move(r, k, m, st) == run' = [run EXCEPT ![r] = [@ EXCEPT ![k][m] = At(st)]]

Continue(r, k, m, go) == mem' = go[1] /\ Move(r, k, m, go[2])

LoaderReturns(r, k, m) ==
  /\ Results /\ run[r][k][m].st = "run" /\ "ok" \in LoaderOutcomes
  /\ Continue(r, k, m,
       AwaitLazy(Update(mem, r, m, [Stored(mem, m) EXCEPT !.data = TRUE]), r, m))
  /\ UNCHANGED <<cpu, redirects>>

LoaderThrows(r, k, m) ==
  /\ Results /\ run[r][k][m].st = "run" /\ "error" \in LoaderOutcomes
  /\ Continue(r, k, m, AwaitErrorChunk(mem, r, m))
  /\ UNCHANGED <<cpu, redirects>>

LoaderFails(r, k, m, e) ==
  /\ Results /\ run[r][k][m].st = "run"
  /\ e \in LoaderOutcomes \cap {"redirect", "notFound"}
  /\ e = "redirect" => redirects < MaxRedirects
  /\ mem' = Fail(mem, r, m, e)
  /\ Reject(r, k, m, e)
  /\ redirects' = IF e = "redirect" THEN redirects + 1 ELSE redirects
  /\ UNCHANGED cpu

LoaderAborts(r, k, m) ==
  LET task == run[r][k][m] IN
  /\ Results /\ task.st = "run"
  /\ IF <<m, task.ctrl>> \in mem.aborted THEN "abort" \in LoaderOutcomes
     ELSE "timeout" \in LoaderOutcomes
  /\ Continue(r, k, m, <<Abort(mem, r, m, task), "returned">>)
  /\ UNCHANGED <<cpu, redirects>>

LazyArrives(r, k, m) ==
  /\ cpu = 0 /\ run[r][k][m].st = "lazy" /\ ChunkSettled(mem, m)
  /\ Continue(r, k, m, AwaitLazy(mem, r, m))
  /\ UNCHANGED <<cpu, redirects>>

ErrorChunkArrives(r, k, m) ==
  /\ cpu = 0 /\ run[r][k][m].st = "chunk" /\ ChunkSettled(mem, m)
  /\ Continue(r, k, m, AwaitErrorChunk(mem, r, m))
  /\ UNCHANGED <<cpu, redirects>>

\* The awaited loaderPromise is resolved: look at how that load ended, load
\* the match if it is still pending.  Reading a match that is gone throws.
WakeLoader(r, m) ==
  LET d == GetMatch(mem, m)
      e == mem.bag[m][d.obj].err
      error == IF e # "none" THEN e ELSE d.error
      h == HandleLoader(mem, r, m, run[r].fg[m].preload, FALSE) IN
  /\ cpu = 0 /\ run[r].fg[m].st = "wait"
  /\ LoaderResolved(r, m)
  /\ \/ ~Known(mem, m) /\ Move(r, "fg", m, "crash") /\ UNCHANGED mem
     \/ /\ Known(mem, m) /\ error = "redirect"
        /\ Move(r, "fg", m, "redirect") /\ UNCHANGED mem
     \/ /\ Known(mem, m) /\ error = "notFound"
        /\ mem' = Fail(mem, r, m, "notFound") /\ Reject(r, "fg", m, "notFound")
     \/ /\ Known(mem, m) /\ error \notin {"redirect", "notFound"}
        /\ d.status = "pending"
        /\ mem' = h[1] /\ run' = [run EXCEPT ![r] = h[2]]
     \/ /\ Known(mem, m) /\ error \notin {"redirect", "notFound"}
        /\ d.status # "pending"
        /\ mem' = Finalize(mem, r, m) /\ Move(r, "fg", m, "ok")
  /\ UNCHANGED <<cpu, redirects>>

\* handleLoader has returned: finish loadRouteMatch.
FinishTask(r, m) ==
  /\ cpu = 0 /\ run[r].fg[m].st = "returned"
  /\ IF Known(mem, m)
     THEN mem' = Finalize(mem, r, m) /\ Move(r, "fg", m, "ok")
     ELSE Move(r, "fg", m, "crash") /\ UNCHANGED mem
  /\ UNCHANGED <<cpu, redirects>>

\* The background reload has returned; its TypeError is swallowed.
FinishBackground(r, m) ==
  LET o == GetMatch(mem, m).obj IN
  /\ cpu = 0 /\ run[r].bg[m].st = "returned"
  /\ mem' = IF Known(mem, m) THEN Unlock(mem, m, o) ELSE mem
  /\ Move(r, "bg", m, "ok")
  /\ UNCHANGED <<cpu, redirects>>

-----------------------------------------------------------------------------
(* The end of loadMatches *)

Rejections(r, e) == {i \in 1..LoaderCount(r) : run[r].fg[PathOf(r)[i]].st = e}

\* The first notFound of a loader, else that of a beforeLoad.
NotFoundAt(r) ==
  LET R == Rejections(r, "notFound") IN
  IF R # {}
  THEN Boundary(r, run[r].fg[PathOf(r)[CHOOSE i \in R : \A j \in R : i <= j]].at)
  ELSE IF run[r].bnf # 0 /\ ~IsPreload(r) THEN BeforeBoundary(r) ELSE 0

\* Mutant of ShowNotFound: every boundary renders as the root does.
ShowWithin(d, root) ==
  [d EXCEPT !.status = "success", !.error = "none", !.fetching = "no"]

\* The root renders its component around the notFound, others only that.
ShowNotFound(d, root) ==
  IF root THEN [d EXCEPT !.status = "success", !.gnf = TRUE, !.error = "none",
                         !.fetching = "no"]
  ELSE [d EXCEPT !.status = "notFound", !.error = "notFound", !.fetching = "no"]

MarkBoundary(r, b) ==
  LET m == PathOf(r)[b] IN Update(mem, r, m, ShowNotFound(Stored(mem, m), b = 1))

ClearGlobalNotFound(r) ==
  LET m == PathOf(r)[1] IN
  IF IsPreload(r) \/ ~Known(mem, m) \/ ~GetMatch(mem, m).gnf THEN mem
  ELSE Update(mem, r, m, [Stored(mem, m) EXCEPT !.gnf = FALSE, !.error = "none"])

\* After the notFound: a serial error first loads the errorComponent.
ThenError(r, s, rec) ==
  IF run[r].serial
  THEN /\ mem' = StartChunk(s, PathOf(r)[run[r].bad])
       /\ run' = [run EXCEPT ![r] = [rec EXCEPT !.pc = "errChunk"]] /\ cpu' = 0
  ELSE /\ mem' = s
       /\ run' = [run EXCEPT ![r] = [rec EXCEPT !.pc = "ready"]] /\ cpu' = r

\* Promise.allSettled is over: a redirect comes first, then any other
\* rejection, then a notFound.
Settle(r) ==
  LET b == NotFoundAt(r)
      redirected == Rejections(r, "redirect") # {}
      crashed    == Rejections(r, "crash") # {} IN
  /\ run[r].pc = "settle" /\ cpu = 0 /\ AllSettled(r)
  /\ \/ /\ redirected /\ UNCHANGED <<mem, cpu>>
        /\ run' = [run EXCEPT ![r] = End(@, "redirect")]
     \/ /\ ~redirected /\ crashed /\ UNCHANGED <<mem, cpu>>
        /\ run' = [run EXCEPT ![r] = End(@, "error")]
     \/ /\ ~redirected /\ ~crashed /\ b # 0 /\ UNCHANGED cpu
        /\ mem' = StartChunk(MarkBoundary(r, b), PathOf(r)[b])
        /\ run' = [run EXCEPT ![r] = [@ EXCEPT !.pc = "nfChunk", !.nf = b]]
     \/ /\ ~redirected /\ ~crashed /\ b = 0
        /\ ThenError(r, ClearGlobalNotFound(r), run[r])
  /\ UNCHANGED redirects

\* The chunk of the boundary that renders the notFound.
NotFoundChunkArrives(r) ==
  LET m == PathOf(r)[run[r].nf] IN
  /\ run[r].pc = "nfChunk" /\ cpu = 0 /\ ChunkSettled(mem, m)
  /\ IF mem.lazy[RouteOf[m]] = "failed"
     THEN run' = [run EXCEPT ![r] = End(@, "error")] /\ UNCHANGED <<mem, cpu>>
     ELSE ThenError(r, mem, run[r])
  /\ UNCHANGED redirects

SerialChunkArrives(r) ==
  LET m == PathOf(r)[run[r].bad] IN
  /\ run[r].pc = "errChunk" /\ cpu = 0 /\ ChunkSettled(mem, m)
  /\ run' = [run EXCEPT ![r] = IF mem.lazy[RouteOf[m]] = "failed"
                               THEN End(@, "error") ELSE [@ EXCEPT !.pc = "ready"]]
  /\ UNCHANGED <<mem, cpu, redirects>>

\* A choice of the matches that are past their gcTime.
Aged == IF Expiry THEN SUBSET (DOMAIN mem.cached \cup DOMAIN mem.active) ELSE {{}}

Ready(r) ==
  \E old \in Aged :
    /\ run[r].pc = "ready" /\ Turn(r)
    /\ mem' = IF IsPreload(r) \/ run[r].rendered THEN mem ELSE OnReady(mem, old)
    /\ run' = [run EXCEPT ![r] =
         End([@ EXCEPT !.rendered = TRUE],
             IF run[r].nf # 0 THEN "notFound" ELSE "ok")]
    /\ cpu' = 0
    /\ UNCHANGED redirects

-----------------------------------------------------------------------------
(* Timers, chunks and view transitions.                                    *)

PendingTimeout(m, o) ==
  \E old \in Aged :
    LET r == mem.bag[m][o].timer
        s == [mem EXCEPT !.bag[m][o].fired = TRUE] IN
    /\ Drained /\ r # 0 /\ ~mem.bag[m][o].fired
    /\ mem' = IF run[r].rendered THEN s ELSE OnReady(s, old)
    /\ run' = [run EXCEPT ![r] = [@ EXCEPT !.rendered = TRUE]]
    /\ UNCHANGED <<cpu, redirects>>

ChunkLoads(rt) ==
  /\ Drained /\ mem.lazy[rt] = "loading"
  /\ mem' = [mem EXCEPT !.lazy[rt] = "loaded"]
  /\ UNCHANGED <<run, cpu, redirects>>

ChunkFails(rt) ==
  /\ Drained /\ mem.lazy[rt] = "loading" /\ rt \in FailingChunks
  /\ mem' = [mem EXCEPT !.lazy[rt] = "failed"]
  /\ UNCHANGED <<run, cpu, redirects>>

\* Mutants of RunViewTransition: it runs though none is queued ...
RunAnyTransition ==
  \E old \in Aged :
    /\ Drained
    /\ mem' = [Commit(mem, old) EXCEPT !.isLoading = FALSE, !.commits = @ - 1]
    /\ UNCHANGED <<run, cpu, redirects>>

\* ... or leaves isLoading set.
RunSilentTransition ==
  \E old \in Aged :
    /\ Drained /\ mem.commits > 0
    /\ mem' = [Commit(mem, old) EXCEPT !.commits = @ - 1]
    /\ UNCHANGED <<run, cpu, redirects>>

\* The browser calls back the update function of a view transition.
RunViewTransition ==
  \E old \in Aged :
    /\ Drained /\ mem.commits > 0
    /\ mem' = [Commit(mem, old) EXCEPT !.isLoading = FALSE, !.commits = @ - 1]
    /\ UNCHANGED <<run, cpu, redirects>>

-----------------------------------------------------------------------------
UserResult(r) ==
  \/ BeforeLoadReturns(r) \/ BeforeLoadThrows(r)
  \/ \E e \in {"redirect", "notFound"} : BeforeLoadFails(r, e)
  \/ \E k \in {"fg", "bg"}, m \in Id :
       \/ LoaderReturns(r, k, m) \/ LoaderThrows(r, k, m) \/ LoaderAborts(r, k, m)
       \/ \E e \in {"redirect", "notFound"} : LoaderFails(r, k, m, e)

Continuation(r) ==
  \/ SkipBeforeLoad(r) \/ WaitBeforeLoad(r) \/ StartBeforeLoad(r)
  \/ WakeBeforeLoad(r)
  \/ SkipLoader(r) \/ WaitLoader(r) \/ StartTask(r) \/ LaunchedAll(r)
  \/ \E m \in Id : WakeLoader(r, m) \/ FinishTask(r, m) \/ FinishBackground(r, m)
  \/ \E k \in {"fg", "bg"}, m \in Id : LazyArrives(r, k, m) \/ ErrorChunkArrives(r, k, m)
  \/ Settle(r) \/ NotFoundChunkArrives(r) \/ SerialChunkArrives(r) \/ Ready(r)

Environment ==
  \/ \E m \in Id, o \in Obj : PendingTimeout(m, o)
  \/ \E rt \in LazyRoutes : ChunkLoads(rt) \/ ChunkFails(rt)
  \/ RunViewTransition
=============================================================================
