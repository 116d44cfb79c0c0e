--------------------------- MODULE RouterCoreProofs ---------------------------
(***************************************************************************)
(* The safety theorems of RouterCore, for any routes, locations, matches   *)
(* and number of loads and preloads.                                       *)
(*                                                                         *)
(* Inv is inductive: the types, the runs' positions in their paths         *)
(* (without which the type of a run's match is lost), what the pools hold  *)
(* (Sound, with the latest location as its parameter), and that matches    *)
(* await their commit only while the router says it is pending (without    *)
(* which a commit is no step of Navigation).                               *)
(***************************************************************************)
EXTENDS RouterCore, LoadMatchesProofs

RouterOK ==
  /\ latest \in Loc /\ resolved \in Loc /\ status \in {"idle", "pending"}
  /\ latestLoad \in Obj /\ commitP \in BOOLEAN
  /\ budget \in [Act -> Nat]

Inv ==
  /\ LoadOK /\ RouterOK
  /\ Sound(mem, latest)
  /\ mem.isLoading => status = "pending"

\* What every step is shown to do: keep Inv, be a step of Navigation or none.
Correct == Inv' /\ [Nav!Next]_(Nav!vars)

RunTable(rs) == DOMAIN rs = Run /\ \A r \in Run : RunOK(rs[r])

-----------------------------------------------------------------------------
(* The records of runs *)

LEMMA FreeRunOK == RunOK(FreeRun)
<1>1. (CHOOSE l \in Loc : TRUE) \in Loc BY RouterAssumption
<1>2. NoTask \in Task BY RunIsObj DEF NoTask, Task, TaskState, Controller
<1>3. FreeRun.loc \in Loc /\ FreeRun.bad = 0 BY <1>1 DEF FreeRun
<1>4. 0 <= Len(Path[FreeRun.loc]) BY <1>3, LenType
<1>5. \A m \in Id : FreeRun.fg[m].st = "none" /\ FreeRun.bg[m].st = "none"
  BY DEF FreeRun, NoTask
<1>6. InPath(FreeRun) BY <1>3, <1>4, <1>5 DEF InPath, FreeRun
<1>7. IsRun(FreeRun) BY <1>1, <1>2, RunIsObj DEF IsRun, FreeRun
<1> QED BY <1>6, <1>7 DEF RunOK

LEMMA NewRunOK ==
  ASSUME NEW kind \in {"load", "preload"}, NEW l \in Loc, NEW force \in BOOLEAN,
         NEW sync \in BOOLEAN, NEW held, DOMAIN held \subseteq Id,
         held \in [DOMAIN held -> Obj]
  PROVE  RunOK(NewRun(kind, l, force, sync, held))
<1> DEFINE x == NewRun(kind, l, force, sync, held)
<1>1. IsRun(FreeRun) BY FreeRunOK DEF RunOK
<1>2. IsRun(x) BY <1>1 DEF IsRun, NewRun
<1>3. Len(Path[l]) >= 1 /\ Len(Path[l]) \in Nat BY LenType
<1>4. /\ x.idx = 1 /\ x.bad = 0 /\ x.loc = l /\ x.fg = FreeRun.fg /\ x.bg = FreeRun.bg
  BY DEF NewRun, FreeRun
<1>5. \A m \in Id : FreeRun.fg[m].st = "none" /\ FreeRun.bg[m].st = "none"
  BY DEF FreeRun, NoTask
<1> HIDE DEF x
<1>6. InPath(x) BY <1>3, <1>4, <1>5 DEF InPath
<1> QED BY <1>2, <1>6 DEF RunOK, x

LEMMA DoneOK ==
  ASSUME NEW x, RunOK(x)
  PROVE  RunOK(Done(x))
<1> DEFINE y == Done(x)
<1>1. IsRun(FreeRun) /\ IsRun(x) BY FreeRunOK DEF RunOK
<1>2. IsRun(y) BY <1>1 DEF IsRun, Done
<1>3. Len(Path[x.loc]) \in Nat BY <1>1, LenType DEF IsRun
<1>4. /\ y.idx = 1 /\ y.bad = 0 /\ y.loc = x.loc /\ y.pc = "done"
      /\ y.fg = FreeRun.fg /\ y.bg = x.bg
  BY DEF Done, FreeRun
<1>5. \A m \in Id : FreeRun.fg[m].st = "none" BY DEF FreeRun, NoTask
<1>6. \A m \in Id : x.bg[m].st # "none" => m \in PathIds(x.loc) BY DEF RunOK, InPath
<1> HIDE DEF y
<1>7. InPath(y) BY <1>3, <1>4, <1>5, <1>6 DEF InPath
<1> QED BY <1>2, <1>7 DEF RunOK, y

LEMMA TableUpdate ==
  ASSUME NEW rs, RunTable(rs), NEW r \in Run, NEW x, RunOK(x)
  PROVE  RunTable([rs EXCEPT ![r] = x])
BY DEF RunTable

LEMMA TableNow == RunsOK <=> RunTable(run) BY DEF RunsOK, RunTable

LEMMA TableNext == ASSUME RunTable(run') PROVE RunsOK'
BY DEF RunsOK, RunTable, RunOK, IsRun, InPath

LEMMA NextRunType == ASSUME FreeRuns # {} PROVE NextRun \in Run
BY DEF NextRun, FreeRuns

-----------------------------------------------------------------------------
(* Steps of Navigation *)

LEMMA RequestStep ==
  ASSUME Inv, NEW l \in Loc, latest' = l, status' = "pending",
         commitP' \in {commitP, TRUE}, DOMAIN mem'.active = DOMAIN mem.active
  PROVE  [Nav!Next]_(Nav!vars)
BY DEF Nav!Next, Nav!Request

LEMMA NavStutter ==
  ASSUME latest' = latest, status' = status, commitP' = commitP,
         DOMAIN mem'.active = DOMAIN mem.active
  PROVE  [Nav!Next]_(Nav!vars)
BY DEF Nav!vars

LEMMA ShowStep ==
  ASSUME Inv, latest' = latest, status' = status, commitP' = commitP,
         DOMAIN mem'.active = PathIds(latest)
  PROVE  [Nav!Next]_(Nav!vars)
<1>1. CASE DOMAIN mem.active = PathIds(latest) BY <1>1, NavStutter
<1>2. CASE DOMAIN mem.active # PathIds(latest)
  <2>1. status = "pending" BY <1>2 DEF Inv, Sound
  <2>2. [l \in Loc |-> PathIds(l)][latest] = PathIds(latest) BY DEF Inv, RouterOK
  <2>3. Nav!Show BY <1>2, <2>1, <2>2 DEF Nav!Show
  <2> QED BY <2>3 DEF Nav!Next
<1> QED BY <1>1, <1>2

LEMMA FulfilStep ==
  ASSUME Inv, latest' = latest, status' = status, commitP' = FALSE,
         DOMAIN mem'.active = DOMAIN mem.active
  PROVE  [Nav!Next]_(Nav!vars)
<1>1. CASE commitP = FALSE BY <1>1, NavStutter
<1>2. CASE commitP = TRUE
  <2>1. Nav!Fulfil BY <1>2 DEF Nav!Fulfil
  <2> QED BY <2>1 DEF Nav!Next
<1> QED BY <1>1, <1>2 DEF Inv, RouterOK

-----------------------------------------------------------------------------
(* The actions of the router *)

\* A load keeps the invariant, whatever the router starts it for.
LEMMA LoadCorrect ==
  ASSUME Inv, NEW s, Tame(mem, s), NEW rs, RunTable(rs), NEW l \in Loc,
         NEW sync \in BOOLEAN, Load(s, rs, l, sync), commitP' \in {commitP, TRUE},
         budget' \in [Act -> Nat]
  PROVE  Correct
<1> DEFINE r == NextRun
           t == [IngestPending(s, l, r) EXCEPT !.isLoading = TRUE]
           x == NewRun("load", l, resolved = l, sync, NoHeld)
<1>1. r \in Run BY NextRunType DEF Load
<1>2. /\ mem' = t /\ run' = [rs EXCEPT ![r] = x] /\ cpu' = r /\ latest' = l
      /\ status' = "pending" /\ latestLoad' = r /\ UNCHANGED <<resolved, redirects>>
  BY DEF Load
<1>3. IsMemory(s) /\ Sound(s, latest) BY TameSound DEF Inv
<1>4. IsMemory(t) /\ Sound(t, l) /\ t.isLoading /\ DOMAIN t.active = DOMAIN s.active
  BY <1>1, <1>3, IngestPendingSound
<1>5. RunOK(x)
  <2>1. DOMAIN NoHeld \subseteq Id /\ NoHeld \in [DOMAIN NoHeld -> Obj] BY DEF NoHeld
  <2> QED BY <2>1, NewRunOK
<1> HIDE DEF r, t, x
<1>6. RunsOK' BY <1>1, <1>2, <1>5, TableUpdate, TableNext
<1>7. DOMAIN mem'.active = DOMAIN mem.active BY <1>2, <1>4 DEF Tame
<1>8. [Nav!Next]_(Nav!vars) BY <1>2, <1>7, RequestStep
<1>9. Inv'
  <2>1. LoadOK' BY <1>1, <1>2, <1>4, <1>6, RunIsObj DEF Inv, LoadOK
  <2>2. RouterOK' BY <1>1, <1>2, RunIsObj DEF Inv, RouterOK
  <2>3. Sound(mem', latest') BY <1>2, <1>4
  <2> QED BY <1>2, <2>1, <2>2, <2>3 DEF Inv
<1> QED BY <1>8, <1>9 DEF Correct

LEMMA PreloadCorrect ==
  ASSUME Inv, NEW rs, RunTable(rs), NEW l \in Loc, StartPreload(mem, rs, l),
         budget' \in [Act -> Nat]
  PROVE  Correct
<1> DEFINE r == NextRun
           t == IngestPreload(mem, l, r)
           held == [m \in DOMAIN mem.active \cup DOMAIN mem.pending |->
                      GetMatch(mem, m).obj]
           x == NewRun("preload", l, FALSE, FALSE, held)
<1>1. r \in Run BY NextRunType DEF StartPreload
<1>2. /\ mem' = t /\ run' = [rs EXCEPT ![r] = x] /\ cpu' = r
      /\ UNCHANGED <<latest, status, resolved, latestLoad, commitP, redirects>>
  BY DEF StartPreload
<1>3. IsMemory(mem) /\ Sound(mem, latest) BY DEF Inv, LoadOK
<1>4. IsMemory(t) /\ Sound(t, latest) /\ DOMAIN t.active = DOMAIN mem.active
  BY <1>1, <1>3, IngestPreloadSound
<1>5. t.isLoading = mem.isLoading BY <1>3 DEF IngestPreload, IsMemory
<1>6. RunOK(x)
  <2>1. \A m \in DOMAIN mem.active \cup DOMAIN mem.pending :
          m \in Id /\ GetMatch(mem, m).obj \in Obj
    BY <1>3, KnownMatch DEF Known, PoolName, Match
  <2>2. DOMAIN held \subseteq Id /\ held \in [DOMAIN held -> Obj] BY <2>1
  <2> HIDE DEF held
  <2> QED BY <2>2, NewRunOK
<1> HIDE DEF r, t, x
<1>7. RunsOK' BY <1>1, <1>2, <1>6, TableUpdate, TableNext
<1>8. [Nav!Next]_(Nav!vars) BY <1>2, <1>4, NavStutter
<1>9. Inv'
  <2>1. LoadOK' BY <1>1, <1>2, <1>4, <1>7, RunIsObj DEF Inv, LoadOK
  <2>2. RouterOK' BY <1>2 DEF Inv, RouterOK
  <2>3. Sound(mem', latest') BY <1>2, <1>4
  <2> QED BY <1>2, <1>5, <2>1, <2>2, <2>3 DEF Inv
<1> QED BY <1>8, <1>9 DEF Correct

\* A step that only updates records, promises and controllers.
LEMMA TameCorrect ==
  ASSUME Inv, Tame(mem, mem'), RunsOK', cpu' \in Obj, redirects' \in Nat,
         UNCHANGED <<latest, status, resolved>>, latestLoad' \in Obj,
         commitP' \in {commitP, FALSE}, budget' \in [Act -> Nat]
  PROVE  Correct
<1>1. IsMemory(mem') /\ Sound(mem', latest) BY TameSound DEF Inv
<1>2. DOMAIN mem'.active = DOMAIN mem.active /\ mem'.isLoading = mem.isLoading
  BY DEF Tame
<1>3. [Nav!Next]_(Nav!vars) BY <1>2, NavStutter, FulfilStep
<1>4. LoadOK' BY <1>1 DEF LoadOK
<1>5. RouterOK' BY DEF Inv, RouterOK
<1> QED BY <1>1, <1>2, <1>3, <1>4, <1>5 DEF Inv, Correct

LEMMA SpendType ==
  ASSUME Inv, NEW a \in Act, Spend(a)
  PROVE  budget' \in [Act -> Nat]
<1>1. budget[a] - 1 \in Nat BY DEF Inv, RouterOK, Spend
<1> QED BY <1>1 DEF Inv, RouterOK, Spend

LEMMA UserActionCorrect == ASSUME Inv, UserAction PROVE Correct
<1>0. IsMemory(mem) /\ Tame(mem, mem) /\ RunTable(run) /\ latest \in Loc
  BY TameSelf, TableNow DEF Inv, LoadOK, RouterOK
<1>1. ASSUME NEW l \in Loc, Navigate(l) PROVE Correct
  <2>1. budget' \in [Act -> Nat] BY <1>1, SpendType DEF Navigate, Act
  <2> QED BY <1>0, <1>1, <2>1, LoadCorrect DEF Navigate
<1>2. ASSUME NEW l \in Loc, PopState(l) PROVE Correct
  <2>1. budget' \in [Act -> Nat] BY <1>2, SpendType DEF PopState, Act
  <2> QED BY <1>0, <1>2, <2>1, LoadCorrect DEF PopState
<1>3. ASSUME NEW l \in Loc, Preload(l) PROVE Correct
  <2>1. budget' \in [Act -> Nat] BY <1>3, SpendType DEF Preload, Act
  <2> QED BY <1>0, <1>3, <2>1, PreloadCorrect DEF Preload
<1>4. ASSUME NEW force \in BOOLEAN, NEW sync \in BOOLEAN, Invalidate(force, sync)
      PROVE  Correct
  <2>1. budget' \in [Act -> Nat] BY <1>4, SpendType DEF Invalidate, Act
  <2>2. Tame(mem, InvalidateAll(mem, force)) BY <1>0, InvalidateTame
  <2> QED BY <1>0, <1>4, <2>1, <2>2, LoadCorrect DEF Invalidate
<1>5. ASSUME NEW S \in SUBSET Id, ClearCache(S) PROVE Correct
  <2>1. budget' \in [Act -> Nat] BY <1>5, SpendType DEF ClearCache, Act
  <2>2. Tame(mem, mem') BY <1>0, <1>5, ClearTame DEF ClearCache
  <2>3. run' = run /\ UNCHANGED <<cpu, redirects, latest, status, resolved, latestLoad, commitP>>
    BY <1>5 DEF ClearCache
  <2>4. RunsOK' BY <1>0, <2>3, TableNext
  <2> QED BY <2>1, <2>2, <2>3, <2>4, TameCorrect DEF Inv, LoadOK, RouterOK
<1> QED BY <1>1, <1>2, <1>3, <1>4, <1>5 DEF UserAction

LEMMA RouterStepCorrect == ASSUME Inv, NEW r \in Run, RouterStep(r) PROVE Correct
<1>0. /\ IsMemory(mem) /\ Tame(mem, mem) /\ RunTable(run) /\ RunOK(run[r])
      /\ RedirectTo \in Loc
  BY TameSelf, TableNow, RouterAssumption DEF Inv, LoadOK, RunsOK
<1> DEFINE rs == [run EXCEPT ![r] = Done(run[r])]
<1>1. RunTable(rs) BY <1>0, DoneOK, TableUpdate
<1>2. budget' = budget => budget' \in [Act -> Nat] BY DEF Inv, RouterOK
<1>3. CASE EndLoad(r)
  <2>1. /\ run' = rs /\ latestLoad' \in {latestLoad, 0} /\ commitP' \in {commitP, FALSE}
        /\ UNCHANGED <<mem, cpu, redirects, latest, status, resolved, budget>>
    BY <1>3 DEF EndLoad
  <2> HIDE DEF rs
  <2>2. RunsOK' BY <1>1, <2>1, TableNext
  <2> QED BY <1>0, <1>2, <2>1, <2>2, TameCorrect, RunIsObj DEF Inv, LoadOK, RouterOK
<1>4. CASE FollowRedirect(r)
  <2>1. /\ Load(mem, rs, RedirectTo, FALSE) /\ commitP' = TRUE /\ budget' = budget
    BY <1>4 DEF FollowRedirect
  <2> HIDE DEF rs
  <2> QED BY <1>0, <1>1, <1>2, <2>1, LoadCorrect
<1>5. CASE EndPreload(r)
  <2>1. /\ \/ StartPreload(mem, rs, RedirectTo)
           \/ /\ run' = rs
              /\ UNCHANGED <<mem, cpu, redirects, latest, status, resolved,
                             latestLoad, commitP>>
        /\ budget' = budget
    BY <1>5 DEF EndPreload
  <2> HIDE DEF rs
  <2>2. CASE StartPreload(mem, rs, RedirectTo)
    BY <1>0, <1>1, <1>2, <2>1, <2>2, PreloadCorrect
  <2>3. CASE /\ run' = rs
             /\ UNCHANGED <<mem, cpu, redirects, latest, status, resolved,
                            latestLoad, commitP>>
    <3>1. RunsOK' BY <1>1, <2>3, TableNext
    <3> QED BY <1>0, <1>2, <2>1, <2>3, <3>1, TameCorrect DEF Inv, LoadOK, RouterOK
  <2> QED BY <2>1, <2>2, <2>3
<1>6. ASSUME NEW m \in Id, BackgroundRedirect(r, m) PROVE Correct
  <2> DEFINE x == [run[r] EXCEPT !.bg[m] = At("ok")]
             ts == [run EXCEPT ![r] = x]
  <2>1. m \in PathIds(run[r].loc)
    BY <1>0, <1>6 DEF BackgroundRedirect, RunOK, InPath
  <2>2. RunOK(x) BY <1>0, <2>1, AtType, TaskOK DEF TaskState
  <2>3. /\ Load(mem, ts, RedirectTo, FALSE) /\ commitP' = TRUE /\ budget' = budget
    BY <1>6 DEF BackgroundRedirect
  <2> HIDE DEF x
  <2>4. RunTable(ts) BY <1>0, <2>2, TableUpdate
  <2> HIDE DEF ts
  <2> QED BY <1>0, <1>2, <2>3, <2>4, LoadCorrect
<1> QED BY <1>3, <1>4, <1>5, <1>6 DEF RouterStep

LEMMA ResolveCorrect == ASSUME Inv, Resolve PROVE Correct
<1>1. /\ status = "pending" /\ ~mem.isLoading /\ status' = "idle" /\ resolved' = latest
      /\ UNCHANGED <<mem, run, cpu, redirects, latest, latestLoad, commitP, budget>>
  BY DEF Resolve, loadVars
<1>2. DOMAIN mem.active = PathIds(latest) BY <1>1 DEF Inv, Sound
<1>3. [l \in Loc |-> PathIds(l)][latest] = PathIds(latest) BY DEF Inv, RouterOK
<1>4. Nav!Rest BY <1>1, <1>2, <1>3 DEF Nav!Rest
<1>5. Nav!Next BY <1>4 DEF Nav!Next
<1>6. RunsOK' BY <1>1, TableNow, TableNext DEF Inv, LoadOK
<1>7. LoadOK' BY <1>1, <1>6 DEF Inv, LoadOK
<1>8. RouterOK' BY <1>1 DEF Inv, RouterOK
<1>9. Sound(mem', latest') BY <1>1 DEF Inv
<1> QED BY <1>1, <1>5, <1>7, <1>8, <1>9 DEF Inv, Correct

LEMMA LoadMatchesCorrect ==
  ASSUME Inv, (\E r \in Run : LoadMatchesStep(r)) \/ EnvironmentStep
  PROVE  Correct
<1>1. /\ LoadOK /\ latest \in Loc /\ Sound(mem, latest)
      /\ latestLoad \in Obj /\ commitP \in BOOLEAN /\ budget \in [Act -> Nat]
  BY DEF Inv, RouterOK
<1>2. UNCHANGED routerVars BY DEF LoadMatchesStep, EnvironmentStep
<1>3. LoadStep(latest)
  BY <1>1, LoadMatchesSteps, EnvironmentSteps DEF LoadMatchesStep, EnvironmentStep
<1>4. UNCHANGED <<latest, status, resolved, latestLoad, commitP, budget>>
  BY <1>2 DEF routerVars
<1>5. CASE Tame(mem, mem') BY <1>1, <1>3, <1>4, <1>5, TameCorrect DEF LoadStep
<1>6. CASE Committed(latest)
  <2>1. /\ IsMemory(mem') /\ Sound(mem', latest) /\ ~mem'.isLoading
        /\ DOMAIN mem'.active = PathIds(latest)
    BY <1>6 DEF Committed
  <2>2. [Nav!Next]_(Nav!vars) BY <1>4, <2>1, ShowStep
  <2>3. LoadOK' BY <1>3, <2>1 DEF LoadStep, LoadOK
  <2>4. RouterOK' BY <1>4 DEF Inv, RouterOK
  <2>5. Sound(mem', latest') BY <1>4, <2>1
  <2> QED BY <2>1, <2>2, <2>3, <2>4, <2>5 DEF Inv, Correct
<1> QED BY <1>3, <1>5, <1>6 DEF LoadStep

-----------------------------------------------------------------------------
LEMMA InitCorrect == Init => Inv /\ Nav!Init
<1> SUFFICES ASSUME Init PROVE Inv /\ Nav!Init
  OBVIOUS
<1>1. Start \in Loc /\ PathIds(Start) \subseteq Id /\ PathIds(Start) # {}
  BY RouterAssumption, PathIdsType
<1>2. \A m \in Id : InitialMatch(m) \in Match
  BY RunIsObj DEF InitialMatch, Match, Status, Fetching, Failure, Controller
<1>3. EmptyBag \in Bag BY RunIsObj DEF EmptyBag, Bag, Failure
<1>4. IsMemory(mem)
  <2>1. IsPool(mem.active) BY <1>1, <1>2 DEF Init, IsPool
  <2>2. IsPool(mem.pending) /\ IsPool(mem.cached) BY DEF Init, IsPool
  <2>3. mem.bag \in [Id -> [Obj -> Bag]] BY <1>3 DEF Init
  <2>4. mem.lazy \in [Route -> {"idle", "loading", "loaded", "failed"}] BY DEF Init
  <2>5. DOMAIN mem = PoolName \cup {"bag", "resolved", "aborted", "lazy",
                                   "isLoading", "commits"}
    BY DEF Init, PoolName
  <2>6. mem.resolved = {} /\ mem.aborted = {} BY DEF Init
  <2>7. mem.isLoading \in BOOLEAN BY DEF Init
  <2>8. mem.commits \in Nat BY DEF Init
  <2> QED BY <2>1, <2>2, <2>3, <2>4, <2>5, <2>6, <2>7, <2>8 DEF IsMemory
<1>5. RunsOK BY FreeRunOK DEF Init, RunsOK
<1>6. LoadOK BY <1>4, <1>5, RunIsObj DEF Init, LoadOK
<1>7. RouterOK BY <1>1, RunIsObj, RouterAssumption DEF Init, RouterOK
<1>8. Sound(mem, latest) BY <1>1 DEF Init, Sound
<1>9. Nav!Init BY <1>1 DEF Init, Nav!Init
<1> QED BY <1>6, <1>7, <1>8, <1>9 DEF Inv, Init

LEMMA NextCorrect == Inv /\ [Next]_vars => Correct
<1> SUFFICES ASSUME Inv, [Next]_vars PROVE Correct
  OBVIOUS
<1>1. CASE UserAction BY <1>1, UserActionCorrect
<1>2. CASE \E r \in Run : RouterStep(r) BY <1>2, RouterStepCorrect
<1>3. CASE (\E r \in Run : LoadMatchesStep(r)) \/ EnvironmentStep
  BY <1>3, LoadMatchesCorrect
<1>4. CASE Resolve BY <1>4, ResolveCorrect
<1>5. CASE UNCHANGED vars
  <2>1. UNCHANGED <<mem, run, cpu, redirects, latest, status, resolved, latestLoad,
                    commitP, budget>>
    BY <1>5 DEF vars, loadVars
  <2>2. Tame(mem, mem') BY <2>1, TameSelf DEF Inv, LoadOK
  <2>3. RunsOK' BY <2>1, TableNow, TableNext DEF Inv, LoadOK
  <2> QED BY <2>1, <2>2, <2>3, TameCorrect DEF Inv, LoadOK, RouterOK
<1> QED BY <1>1, <1>2, <1>3, <1>4, <1>5 DEF Next

LEMMA Invariance == Spec => []Inv
<1>1. Init => Inv BY InitCorrect
<1>2. Inv /\ [Next]_vars => Inv' BY NextCorrect DEF Correct
<1> QED BY <1>1, <1>2, PTL DEF Spec

\* Every variable of the router keeps its type (TypeOK), in particular every
\* pool maps match ids to records: no handler writes a match it does not know.
THEOREM TypeCorrectness == Spec => []TypeOK
<1>1. Inv => TypeOK BY DEF Inv, LoadOK, RouterOK, RunsOK, RunOK, TypeOK
<1> QED BY <1>1, Invariance, PTL

\* The cached matches are neither active nor pending, whatever loads,
\* preloads, commits and clearings do.
THEOREM CacheIsDisjoint == Spec => []PoolsDisjoint
<1>1. Inv => PoolsDisjoint BY DEF Inv, Sound, PoolsDisjoint
<1> QED BY <1>1, Invariance, PTL

\* The pending matches are those of the latest location, and without them
\* the latest location is rendered: the page is never a mixture of two.
THEOREM PoolsFollowTheLocation == Spec => []PathPools
<1>1. Inv => PathPools BY DEF Inv, Sound, PathPools
<1> QED BY <1>1, Invariance, PTL

\* A match that stays keeps its _nonReactive object, so a component that
\* suspended on the rendered record is woken by the load of the pending one.
THEOREM StayingMatchesShareTheirPromises == Spec => []SameBag
<1>1. Inv => SameBag BY DEF Inv, Sound, SameBag
<1> QED BY <1>1, Invariance, PTL

\* resolvedLocation only ever becomes the location that is on the page.
THEOREM ResolvedFollowsThePage == Spec => ResolvedRendered
<1>1. Inv /\ [Next]_vars => [resolved' # resolved
                              => DOMAIN mem.active = PathIds(resolved')]_vars
  <2> SUFFICES ASSUME Inv, Next, resolved' # resolved
               PROVE  DOMAIN mem.active = PathIds(resolved')
    BY DEF vars
  <2>1. UserAction => resolved' = resolved
    BY DEF UserAction, Navigate, PopState, Preload, Invalidate, ClearCache, Load,
           StartPreload
  <2>2. \A r \in Run : LoadMatchesStep(r) \/ RouterStep(r) => resolved' = resolved
    BY DEF LoadMatchesStep, RouterStep, routerVars, EndLoad, FollowRedirect, EndPreload,
           BackgroundRedirect, Load, StartPreload
  <2>3. EnvironmentStep => resolved' = resolved BY DEF EnvironmentStep, routerVars
  <2>4. Resolve BY <2>1, <2>2, <2>3 DEF Next
  <2>5. ~mem.isLoading /\ resolved' = latest BY <2>4 DEF Resolve
  <2> QED BY <2>5 DEF Inv, Sound
<1> QED BY <1>1, Invariance, PTL DEF Spec, ResolvedRendered

\* The router implements the safety part of Navigation: only the latest
\* location is ever put on the page, and the router is idle only with it.
THEOREM ImplementsNavigationSafety == Spec => Nav!Init /\ [][Nav!Next]_(Nav!vars)
<1>1. Init => Inv /\ Nav!Init BY InitCorrect
<1>2. Inv /\ [Next]_vars => [Nav!Next]_(Nav!vars) BY NextCorrect DEF Correct
<1> QED BY <1>1, <1>2, Invariance, PTL DEF Spec
=============================================================================
