-------------------------- MODULE LoadMatchesProofs --------------------------
(***************************************************************************)
(* What the operations of MatchPools and the steps of loadMatches do.      *)
(*                                                                         *)
(* First the operations on the memory: what they leave of its type, of the *)
(* pools and of the locks.  Then the steps: they keep the types of the run *)
(* table, and move no match between the pools but by a commit.             *)
(***************************************************************************)
EXTENDS LoadMatches, WellFoundedInduction, TLAPS

USE DEF PoolName

\* t is s after updates of records, promises and controllers: no match
\* enters a pool, none leaves but the cache, none changes its object.  Only
\* where the instance allows it is a view transition queued or a chunk lost.
Tame(s, t) ==
  /\ IsMemory(t)
  /\ DOMAIN t.active = DOMAIN s.active /\ DOMAIN t.pending = DOMAIN s.pending
  /\ DOMAIN t.cached \subseteq DOMAIN s.cached
  /\ \A m \in DOMAIN s.active : t.active[m].obj = s.active[m].obj
  /\ \A m \in DOMAIN s.pending : t.pending[m].obj = s.pending[m].obj
  /\ \A m \in DOMAIN t.cached : t.cached[m].obj = s.cached[m].obj
  /\ t.isLoading = s.isLoading
  /\ ~ViewTransition => t.commits = s.commits
  /\ s.commits # 0 => t.commits # 0
  /\ FailingChunks = {} => \A rt \in Route : t.lazy[rt] = "failed" => s.lazy[rt] = "failed"

LEMMA TameSelf == ASSUME NEW s, IsMemory(s) PROVE Tame(s, s)
BY DEF Tame

LEMMA TameTrans ==
  ASSUME NEW s, NEW t, NEW u, Tame(s, t), Tame(t, u)
  PROVE  Tame(s, u)
BY DEF Tame

\* A match that some pool knows has a record.
LEMMA KnownMatch ==
  ASSUME NEW s, IsMemory(s), NEW m, Known(s, m)
  PROVE  m \in Id /\ GetMatch(s, m) \in Match /\ Stored(s, m) \in Match
BY DEF IsMemory, IsPool, Known, GetMatch, Stored

\* updateMatch keeps the types when the updater keeps the object.
LEMMA SetMatchTame ==
  ASSUME NEW s, IsMemory(s), NEW m, NEW d,
         Known(s, m) => d \in Match /\ d.obj = Stored(s, m).obj
  PROVE  Tame(s, SetMatch(s, m, d))
<1> DEFINE t == SetMatch(s, m, d)
<1>1. CASE m \in DOMAIN s.pending
  <2>1. t = [s EXCEPT !.pending[m] = d] BY <1>1 DEF SetMatch
  <2>2. d \in Match /\ d.obj = s.pending[m].obj BY <1>1 DEF Known, Stored
  <2> QED BY <1>1, <2>1, <2>2 DEF Tame, IsMemory, IsPool
<1>2. CASE m \notin DOMAIN s.pending /\ m \in DOMAIN s.active
  <2>1. t = [s EXCEPT !.active[m] = d] BY <1>2 DEF SetMatch
  <2>2. d \in Match /\ d.obj = s.active[m].obj BY <1>2 DEF Known, Stored
  <2> QED BY <1>2, <2>1, <2>2 DEF Tame, IsMemory, IsPool
<1>3. CASE /\ m \notin DOMAIN s.pending /\ m \notin DOMAIN s.active
           /\ m \in DOMAIN s.cached
  <2>1. d \in Match /\ d.obj = s.cached[m].obj BY <1>3 DEF Known, Stored
  <2>2. CASE d.status = "redirected"
    <3>1. t = [s EXCEPT !.cached = Drop(@, {m})] BY <1>3, <2>2 DEF SetMatch
    <3> QED BY <3>1 DEF Tame, IsMemory, IsPool, Drop
  <2>3. CASE d.status # "redirected"
    <3>1. t = [s EXCEPT !.cached[m] = d] BY <1>3, <2>3 DEF SetMatch
    <3> QED BY <1>3, <3>1, <2>1 DEF Tame, IsMemory, IsPool
  <2> QED BY <2>2, <2>3
<1>4. CASE ~Known(s, m)
  BY <1>4, TameSelf DEF Known, SetMatch
<1> QED BY <1>1, <1>2, <1>3, <1>4 DEF Known
\* Updaters change some fields of a record, and never its object.
LEMMA MatchSet ==
  ASSUME NEW x \in Match
  PROVE  /\ \A a \in Status, f \in Fetching, e \in Failure :
              [x EXCEPT !.status = a, !.fetching = f, !.error = e] \in Match
         /\ \A f \in Fetching, c \in Controller :
              [x EXCEPT !.ctrl = c, !.fetching = f] \in Match
         /\ \A a \in Status, f \in Fetching, e \in Failure, c \in Controller :
              [x EXCEPT !.status = a, !.error = e, !.fetching = f, !.ctrl = c] \in Match
         /\ \A a \in Status, f \in Fetching, e \in Failure :
              [x EXCEPT !.error = e, !.status = a, !.fetching = f] \in Match
         /\ \A a \in Status, f \in Fetching, e \in Failure :
              [x EXCEPT !.status = a, !.error = e, !.fetching = f] \in Match
         /\ \A a \in Status, f \in Fetching, e \in Failure, b \in BOOLEAN :
              [x EXCEPT !.status = a, !.gnf = b, !.error = e, !.fetching = f] \in Match
         /\ \A a \in Status, f \in Fetching :
              [x EXCEPT !.fetching = f, !.status = a] \in Match
         /\ \A f \in Fetching, b \in BOOLEAN :
              [x EXCEPT !.fetching = f, !.invalid = b] \in Match
         /\ \A e \in Failure, b \in BOOLEAN :
              [x EXCEPT !.gnf = b, !.error = e] \in Match
         /\ \A a \in Status, e \in Failure, b \in BOOLEAN :
              [x EXCEPT !.invalid = b, !.status = a, !.error = e] \in Match
         /\ \A f \in Fetching : [x EXCEPT !.fetching = f] \in Match
         /\ \A b \in BOOLEAN : [x EXCEPT !.preload = b] \in Match
         /\ \A b \in BOOLEAN : [x EXCEPT !.invalid = b] \in Match
         /\ \A b \in BOOLEAN : [x EXCEPT !.data = b] \in Match
BY DEF Match

-----------------------------------------------------------------------------
(* Promises, timers, chunks *)

\* A write to one _nonReactive object, with the promises it resolves.
LEMMA BagTame ==
  ASSUME NEW s, IsMemory(s), NEW m \in Id, NEW o \in Obj, NEW g \in Bag
  PROVE  Tame(s, [s EXCEPT !.bag[m][o] = g])
<1>1. [s.bag EXCEPT ![m][o] = g] \in [Id -> [Obj -> Bag]] BY DEF IsMemory
<1>2. \A b \in [Id -> [Obj -> Bag]] : Tame(s, [s EXCEPT !.bag = b])
  BY DEF Tame, IsMemory, IsPool
<1> QED BY <1>1, <1>2

LEMMA BagResolveTame ==
  ASSUME NEW s, IsMemory(s), NEW m \in Id, NEW o \in Obj, NEW g \in Bag,
         NEW R \in SUBSET ({"before", "loader"} \X Id \X Obj)
  PROVE  Tame(s, [s EXCEPT !.bag[m][o] = g, !.resolved = R])
<1>1. [s.bag EXCEPT ![m][o] = g] \in [Id -> [Obj -> Bag]] BY DEF IsMemory
<1>2. \A b \in [Id -> [Obj -> Bag]] :
        Tame(s, [s EXCEPT !.bag = b, !.resolved = R])
  BY DEF Tame, IsMemory, IsPool
<1> QED BY <1>1, <1>2

LEMMA BagType ==
  ASSUME NEW s, IsMemory(s), NEW m \in Id, NEW o \in Obj
  PROVE  /\ s.bag[m][o] \in Bag
         /\ \A q \in Obj : /\ [s.bag[m][o] EXCEPT !.beforeP = q] \in Bag
                          /\ [s.bag[m][o] EXCEPT !.loaderP = q] \in Bag
                          /\ [s.bag[m][o] EXCEPT !.timer = q] \in Bag
         /\ \A q \in {"none", "open", "done"} :
              [s.bag[m][o] EXCEPT !.loadP = q] \in Bag
         /\ \A e \in Failure : [s.bag[m][o] EXCEPT !.err = e] \in Bag
         /\ \A t \in BOOLEAN : [s.bag[m][o] EXCEPT !.fired = t] \in Bag
BY DEF IsMemory, Bag

LEMMA PromiseType ==
  ASSUME NEW s, IsMemory(s), NEW m \in Id, NEW o \in Obj
  PROVE  s.bag[m][o].beforeP \in Obj /\ s.bag[m][o].loaderP \in Obj
BY DEF IsMemory, Bag

LEMMA RunIsObj == Run \subseteq Obj /\ 0 \in Obj
BY PathAssumption DEF Run, Obj

LEMMA ResolveTame ==
  ASSUME NEW s, IsMemory(s), NEW m \in Id, NEW o \in Obj
  PROVE  /\ Tame(s, ResolveBefore(s, m, o))
         /\ Tame(s, ResolveLoader(s, m, o))
         /\ Tame(s, ResolveLoad(s, m, o))
<1> DEFINE b == s.bag[m][o]
<1>1. b \in Bag /\ b.beforeP \in Obj /\ b.loaderP \in Obj BY DEF IsMemory, Bag
<1>2. Tame(s, ResolveBefore(s, m, o))
  <2> DEFINE R == s.resolved \cup {<<"before", m, b.beforeP>>}
             g == [b EXCEPT !.beforeP = 0]
  <2>1. R \in SUBSET ({"before", "loader"} \X Id \X Obj) BY <1>1 DEF IsMemory
  <2>2. g \in Bag BY BagType, RunIsObj
  <2>3. \/ ResolveBefore(s, m, o) = s
        \/ ResolveBefore(s, m, o) = [s EXCEPT !.bag[m][o] = g, !.resolved = R]
    BY DEF ResolveBefore
  <2> HIDE DEF R, g
  <2>4. Tame(s, [s EXCEPT !.bag[m][o] = g, !.resolved = R])
    BY <2>1, <2>2, BagResolveTame
  <2> QED BY <2>3, <2>4, TameSelf
<1>3. Tame(s, ResolveLoader(s, m, o))
  <2> DEFINE R == s.resolved \cup {<<"loader", m, b.loaderP>>}
             g == [b EXCEPT !.loaderP = 0]
  <2>1. R \in SUBSET ({"before", "loader"} \X Id \X Obj) BY <1>1 DEF IsMemory
  <2>2. g \in Bag BY BagType, RunIsObj
  <2>3. \/ ResolveLoader(s, m, o) = s
        \/ ResolveLoader(s, m, o) = [s EXCEPT !.bag[m][o] = g, !.resolved = R]
    BY DEF ResolveLoader
  <2> HIDE DEF R, g
  <2>4. Tame(s, [s EXCEPT !.bag[m][o] = g, !.resolved = R])
    BY <2>1, <2>2, BagResolveTame
  <2> QED BY <2>3, <2>4, TameSelf
<1>4. Tame(s, ResolveLoad(s, m, o))
  <2> DEFINE g == [b EXCEPT !.loadP = "done"]
  <2>1. g \in Bag BY BagType
  <2>2. ResolveLoad(s, m, o) = s \/ ResolveLoad(s, m, o) = [s EXCEPT !.bag[m][o] = g]
    BY DEF ResolveLoad
  <2> HIDE DEF g
  <2> QED BY <2>1, <2>2, BagTame, TameSelf
<1> QED BY <1>2, <1>3, <1>4

\* One field of a _nonReactive object is set.
LEMMA FieldTame ==
  ASSUME NEW s, IsMemory(s), NEW m \in Id, NEW o \in Obj
  PROVE  /\ Tame(s, [s EXCEPT !.bag[m][o].loadP = "open"])
         /\ Tame(s, [s EXCEPT !.bag[m][o].loadP = "none"])
         /\ \A t \in BOOLEAN : Tame(s, [s EXCEPT !.bag[m][o].fired = t])
         /\ \A e \in Failure : Tame(s, [s EXCEPT !.bag[m][o].err = e])
         /\ \A q \in Obj : /\ Tame(s, [s EXCEPT !.bag[m][o].beforeP = q])
                          /\ Tame(s, [s EXCEPT !.bag[m][o].loaderP = q])
                          /\ Tame(s, [s EXCEPT !.bag[m][o].timer = q])
<1> DEFINE b == s.bag[m][o]
<1>1. \A g \in Bag : Tame(s, [s EXCEPT !.bag[m][o] = g]) BY BagTame DEF IsMemory
<1>2. Tame(s, [s EXCEPT !.bag[m][o] = [b EXCEPT !.loadP = "open"]]) BY <1>1, BagType
<1>3. Tame(s, [s EXCEPT !.bag[m][o] = [b EXCEPT !.loadP = "none"]]) BY <1>1, BagType
<1>4. \A t \in BOOLEAN : Tame(s, [s EXCEPT !.bag[m][o] = [b EXCEPT !.fired = t]])
  BY <1>1, BagType
<1>5. \A e \in Failure : Tame(s, [s EXCEPT !.bag[m][o] = [b EXCEPT !.err = e]])
  BY <1>1, BagType
<1>6. \A q \in Obj : /\ Tame(s, [s EXCEPT !.bag[m][o] = [b EXCEPT !.beforeP = q]])
                   /\ Tame(s, [s EXCEPT !.bag[m][o] = [b EXCEPT !.loaderP = q]])
                   /\ Tame(s, [s EXCEPT !.bag[m][o] = [b EXCEPT !.timer = q]])
  BY <1>1, BagType
<1> QED BY <1>2, <1>3, <1>4, <1>5, <1>6

LEMMA TimerTame ==
  ASSUME NEW s, IsMemory(s), NEW m \in Id, NEW o \in Obj
  PROVE  Tame(s, ClearTimer(s, m, o)) /\ \A r \in Run : Tame(s, SetupTimer(s, r, m, o))
<1>1. Tame(s, ClearTimer(s, m, o))
  <2> DEFINE t == [s EXCEPT !.bag[m][o].timer = 0]
  <2>1. Tame(s, t) BY FieldTame, RunIsObj
  <2>2. ClearTimer(s, m, o) = [t EXCEPT !.bag[m][o].fired = FALSE] BY DEF ClearTimer
  <2> HIDE DEF t
  <2>3. IsMemory(t) BY <2>1 DEF Tame
  <2>4. Tame(t, [t EXCEPT !.bag[m][o].fired = FALSE]) BY <2>3, FieldTame
  <2> QED BY <2>1, <2>2, <2>4, TameTrans
<1>2. \A r \in Run : Tame(s, SetupTimer(s, r, m, o))
  BY FieldTame, RunIsObj, TameSelf DEF SetupTimer
<1> QED BY <1>1, <1>2

LEMMA LockTame ==
  ASSUME NEW s, IsMemory(s), NEW m \in Id, NEW o \in Obj
  PROVE  /\ \A r \in Run : Tame(s, Lock(s, m, o, r))
         /\ Tame(s, Unlock(s, m, o))
         /\ Tame(s, ForgetLoader(s, m))
<1>1. \A r \in Run : Tame(s, Lock(s, m, o, r)) BY FieldTame, RunIsObj DEF Lock
<1>2. Tame(s, Unlock(s, m, o))
  <2> DEFINE t == ResolveLoader(s, m, o)
  <2>1. Tame(s, t) BY ResolveTame
  <2>2. Unlock(s, m, o) = [t EXCEPT !.bag[m][o].loadP = "none"] BY DEF Unlock
  <2> HIDE DEF t
  <2>3. IsMemory(t) BY <2>1 DEF Tame
  <2>4. Tame(t, [t EXCEPT !.bag[m][o].loadP = "none"]) BY <2>3, FieldTame
  <2> QED BY <2>1, <2>2, <2>4, TameTrans
<1>3. Tame(s, ForgetLoader(s, m))
  BY FieldTame, RunIsObj, TameSelf, KnownMatch DEF ForgetLoader, Match
<1> QED BY <1>1, <1>2, <1>3

LEMMA ChunkTame ==
  ASSUME NEW s, IsMemory(s), NEW m
  PROVE  Tame(s, StartChunk(s, m))
BY DEF Tame, IsMemory, IsPool, StartChunk

-----------------------------------------------------------------------------
(* The pieces of the handlers *)

LEMMA TameType == ASSUME NEW s, NEW t, Tame(s, t) PROVE IsMemory(t)
BY DEF Tame

LEMMA UpdateTame ==
  ASSUME NEW s, IsMemory(s), NEW r, NEW m, NEW d,
         Known(s, m) => d \in Match /\ d.obj = Stored(s, m).obj
  PROVE  Tame(s, Update(s, r, m, d))
BY SetMatchTame, TameSelf DEF Update

LEMMA FailTame ==
  ASSUME NEW s, IsMemory(s), NEW r, NEW m, NEW e \in {"redirect", "notFound"}
  PROVE  Tame(s, Fail(s, r, m, e))
<1>1. CASE ~Known(s, m) BY <1>1, TameSelf DEF Fail
<1>2. CASE Known(s, m)
  <2> DEFINE o  == GetMatch(s, m).obj
             s0 == ResolveBefore(s, m, o)
             s1 == ResolveLoader(s0, m, o)
             s2 == [s1 EXCEPT !.bag[m][o].err = e]
             d  == [Stored(s2, m) EXCEPT !.status = StatusOf(e),
                                         !.fetching = "no", !.error = e]
             s3 == Update(s2, r, m, d)
  <2>0. m \in Id /\ o \in Obj BY <1>2, KnownMatch DEF Match
  <2>1. Tame(s, s0) BY <2>0, ResolveTame
  <2>2. Tame(s0, s1) BY <2>0, <2>1, TameType, ResolveTame
  <2>3. Tame(s1, s2)
    <3> HIDE DEF s1
    <3> QED BY <2>0, <2>2, TameType, FieldTame DEF Failure
  <2>4. Tame(s2, s3)
    <3> HIDE DEF s2
    <3>1. IsMemory(s2) BY <2>3, TameType
    <3>2. Known(s2, m) => d \in Match
      BY <3>1, KnownMatch, MatchSet DEF StatusOf, Status, Fetching, Failure
    <3>3. Known(s2, m) => d.obj = Stored(s2, m).obj BY <3>1, KnownMatch DEF Match
    <3> QED BY <3>1, <3>2, <3>3, UpdateTame
  <2>5. Fail(s, r, m, e) = ResolveLoad(s3, m, o) BY <1>2 DEF Fail
  <2> HIDE DEF s3
  <2>6. Tame(s3, ResolveLoad(s3, m, o)) BY <2>0, <2>4, TameType, ResolveTame
  <2> HIDE DEF s0, s1, s2
  <2> QED BY <2>1, <2>2, <2>3, <2>4, <2>5, <2>6, TameTrans
<1> QED BY <1>1, <1>2

LEMMA ExecuteTame ==
  ASSUME NEW s, IsMemory(s), NEW r \in Run, NEW m, Known(s, m)
  PROVE  Tame(s, Execute(s, r, m))
<1> DEFINE o   == GetMatch(s, m).obj
           s0  == [s EXCEPT !.bag[m][o].loadP = "open"]
           s1  == SetupTimer(s0, r, m, o)
           has == RouteOf[m] \in HasBeforeLoad
           d   == [Stored(s1, m) EXCEPT !.ctrl = <<"run", r>>,
                     !.fetching = IF has THEN "beforeLoad" ELSE "no"]
           s2  == Update(s1, r, m, d)
<1>0. m \in Id /\ o \in Obj BY KnownMatch DEF Match
<1>1. Tame(s, s0) BY <1>0, FieldTame
<1>2. Tame(s0, s1)
  <2> HIDE DEF s0
  <2> QED BY <1>0, <1>1, TameType, TimerTame
<1>3. Tame(s1, s2)
  <2> HIDE DEF s1
  <2>1. IsMemory(s1) BY <1>2, TameType
  <2>2. Known(s1, m) => d \in Match
    <3>1. <<"run", r>> \in Controller BY RunIsObj DEF Controller
    <3> QED BY <2>1, <3>1, KnownMatch, MatchSet DEF Fetching
  <2>3. Known(s1, m) => d.obj = Stored(s1, m).obj BY <2>1, KnownMatch DEF Match
  <2> QED BY <2>1, <2>2, <2>3, UpdateTame
<1>4. \/ Execute(s, r, m) = s2
      \/ Execute(s, r, m) = [s2 EXCEPT !.bag[m][o].beforeP = r]
  BY DEF Execute
<1> HIDE DEF s2
<1>5. Tame(s2, [s2 EXCEPT !.bag[m][o].beforeP = r])
  BY <1>0, <1>3, TameType, FieldTame, RunIsObj
<1> HIDE DEF s0, s1
<1> QED BY <1>1, <1>2, <1>3, <1>4, <1>5, TameTrans

\* The updater is applied to the record updateMatch finds.
LEMMA StoredUpdate ==
  ASSUME NEW s, IsMemory(s), NEW r, NEW m, NEW d,
         Stored(s, m) \in Match => d \in Match /\ d.obj = Stored(s, m).obj
  PROVE  Tame(s, Update(s, r, m, d))
BY UpdateTame, KnownMatch

LEMMA AwaitTame ==
  ASSUME NEW s, IsMemory(s), NEW r, NEW m \in Id
  PROVE  /\ Tame(s, AwaitLazy(s, r, m)[1]) /\ AwaitLazy(s, r, m)[2] \in TaskState
         /\ Tame(s, AwaitErrorChunk(s, r, m)[1])
         /\ AwaitErrorChunk(s, r, m)[2] \in TaskState
<1>1. Tame(s, ForgetLoader(s, m))
  BY FieldTame, RunIsObj, TameSelf, KnownMatch DEF ForgetLoader, Match
<1>2. Tame(s, Succeed(s, r, m))
  <2> DEFINE d == [Stored(s, m) EXCEPT !.error = "none", !.status = "success",
                                       !.fetching = "no"]
  <2>1. Stored(s, m) \in Match => d \in Match
    BY MatchSet DEF Status, Fetching, Failure
  <2>2. Stored(s, m) \in Match => d.obj = Stored(s, m).obj BY DEF Match
  <2> QED BY <2>1, <2>2, StoredUpdate DEF Succeed
<1>3. Tame(s, StoreError(s, r, m))
  <2> DEFINE d == [Stored(s, m) EXCEPT !.error = "error", !.status = "error",
                                       !.fetching = "no"]
  <2>1. Stored(s, m) \in Match => d \in Match
    BY MatchSet DEF Status, Fetching, Failure
  <2>2. Stored(s, m) \in Match => d.obj = Stored(s, m).obj BY DEF Match
  <2> QED BY <2>1, <2>2, StoredUpdate DEF StoreError
<1> QED BY <1>1, <1>2, <1>3, TameSelf DEF AwaitLazy, AwaitErrorChunk, TaskState

LEMMA StartLoaderTame ==
  ASSUME NEW s, IsMemory(s), NEW r, NEW m \in Id
  PROVE  Tame(s, StartLoader(s, r, m)[1]) /\ StartLoader(s, r, m)[2] \in TaskState
<1> DEFINE s1 == StartChunk(s, m)
           d  == [Stored(s1, m) EXCEPT !.fetching = "loader"]
           s2 == IF RouteOf[m] \in HasLoader
                      \/ s1.lazy[RouteOf[m]] \in {"loading", "failed"}
                 THEN Update(s1, r, m, d) ELSE s1
<1>1. Tame(s, s1) BY ChunkTame
<1>2. Tame(s1, s2)
  <2> HIDE DEF s1
  <2>1. IsMemory(s1) BY <1>1, TameType
  <2>2. Stored(s1, m) \in Match => d \in Match BY MatchSet DEF Fetching
  <2>3. Stored(s1, m) \in Match => d.obj = Stored(s1, m).obj BY DEF Match
  <2>4. Tame(s1, Update(s1, r, m, d)) BY <2>1, <2>2, <2>3, StoredUpdate
  <2> QED BY <2>1, <2>4, TameSelf
<1>3. StartLoader(s, r, m) =
        IF RouteOf[m] \in HasLoader THEN <<s2, "run">> ELSE AwaitLazy(s2, r, m)
  BY DEF StartLoader
<1> HIDE DEF s2
<1>4. /\ Tame(s2, AwaitLazy(s2, r, m)[1])
      /\ AwaitLazy(s2, r, m)[2] \in TaskState
  BY <1>2, TameType, AwaitTame
<1>5. Tame(s, s2)
  <2> HIDE DEF s1
  <2> QED BY <1>1, <1>2, TameTrans
<1> QED BY <1>3, <1>4, <1>5, TameTrans DEF TaskState

LEMMA FinalizeTame ==
  ASSUME NEW s, IsMemory(s), NEW r, NEW m, Known(s, m)
  PROVE  Tame(s, Finalize(s, r, m))
<1> DEFINE x  == GetMatch(s, m)
           async == run[r].bg[m].st # "none"
           s0 == IF async THEN s ELSE Unlock(s, m, x.obj)
           s1 == ClearTimer(s0, m, x.obj)
           f  == IF async THEN x.fetching ELSE "no"
           d  == [Stored(s1, m) EXCEPT !.fetching = f, !.invalid = FALSE]
<1>0. m \in Id /\ x.obj \in Obj /\ x.fetching \in Fetching BY KnownMatch DEF Match
<1>1. Tame(s, s0)
  <2>1. Tame(s, Unlock(s, m, x.obj)) BY <1>0, LockTame
  <2> QED BY <2>1, TameSelf
<1>2. Tame(s0, s1)
  <2> HIDE DEF s0
  <2> QED BY <1>0, <1>1, TameType, TimerTame
<1>3. Finalize(s, r, m) = s1 \/ Finalize(s, r, m) = Update(s1, r, m, d)
  BY DEF Finalize, Loaded
<1>4. Tame(s1, Update(s1, r, m, d))
  <2> HIDE DEF s1
  <2>1. f \in Fetching BY <1>0 DEF Fetching
  <2> HIDE DEF f
  <2>2. Stored(s1, m) \in Match => d \in Match BY <2>1, MatchSet
  <2>3. Stored(s1, m) \in Match => d.obj = Stored(s1, m).obj BY DEF Match
  <2> QED BY <1>2, TameType, <2>2, <2>3, StoredUpdate
<1> HIDE DEF s0, s1
<1> QED BY <1>1, <1>2, <1>3, <1>4, TameTrans

LEMMA AbortTame ==
  ASSUME NEW s, IsMemory(s), NEW r, NEW m \in Id, NEW task, task.obj \in Obj
  PROVE  Tame(s, Abort(s, r, m, task))
<1> DEFINE d == [Stored(s, m) EXCEPT !.fetching = "no",
                   !.status = IF @ = "pending" THEN "success" ELSE @]
<1>1. Tame(s, ResolveLoader(s, m, task.obj)) BY ResolveTame
<1>2. Stored(s, m) \in Match => d \in Match BY DEF Match, Fetching, Status
<1>3. Stored(s, m) \in Match => d.obj = Stored(s, m).obj BY DEF Match
<1>4. Tame(s, Update(s, r, m, d)) BY <1>2, <1>3, StoredUpdate
<1> QED BY <1>1, <1>4 DEF Abort

LEMMA FlagTame ==
  ASSUME NEW s, IsMemory(s), NEW r, NEW m
  PROVE  /\ Tame(s, Update(s, r, m, [Stored(s, m) EXCEPT !.data = TRUE]))
         /\ Tame(s, Update(s, r, m, [Stored(s, m) EXCEPT !.fetching = "no"]))
         /\ \A p \in BOOLEAN :
              Tame(s, Update(s, r, m, [Stored(s, m) EXCEPT !.preload = p]))
         /\ Tame(s, Update(s, r, m,
                     [Stored(s, m) EXCEPT !.gnf = FALSE, !.error = "none"]))
         /\ \A c \in Controller :
              Tame(s, Update(s, r, m,
                [Stored(s, m) EXCEPT !.status = "error", !.error = "error",
                                     !.fetching = "no", !.ctrl = c]))
         /\ \A b \in BOOLEAN :
              Tame(s, Update(s, r, m, ShowNotFound(Stored(s, m), b)))
<1> DEFINE x == Stored(s, m)
<1>1. \A d : (x \in Match => d \in Match /\ d.obj = x.obj) => Tame(s, Update(s, r, m, d))
  BY StoredUpdate
<1> HIDE DEF x
<1> USE DEF Match, Status, Fetching, Failure
<1>2. Tame(s, Update(s, r, m, [x EXCEPT !.data = TRUE])) BY <1>1
<1>3. Tame(s, Update(s, r, m, [x EXCEPT !.fetching = "no"])) BY <1>1
<1>4. \A p \in BOOLEAN : Tame(s, Update(s, r, m, [x EXCEPT !.preload = p])) BY <1>1
<1>5. Tame(s, Update(s, r, m, [x EXCEPT !.gnf = FALSE, !.error = "none"])) BY <1>1
<1>6. \A c \in Controller :
        Tame(s, Update(s, r, m, [x EXCEPT !.status = "error", !.error = "error",
                                          !.fetching = "no", !.ctrl = c]))
  BY <1>1
<1>7. \A b \in BOOLEAN : Tame(s, Update(s, r, m, ShowNotFound(x, b)))
  BY <1>1 DEF ShowNotFound
<1> QED BY <1>2, <1>3, <1>4, <1>5, <1>6, <1>7 DEF x

-----------------------------------------------------------------------------
(* Numbers *)

LEMMA MinExists ==
  ASSUME NEW S \in SUBSET Nat, S # {}
  PROVE  \E i \in S : \A j \in S : i <= j
<1> DEFINE Less == {x \in Nat \X Nat : x[1] < x[2]}
<1>1. IsWellFoundedOn(Less, Nat) BY NatLessThanWellFounded DEF OpToRel
<1>2. PICK i \in S : \A j \in S : ~(<<j, i>> \in Less)
  <2> HIDE DEF Less
  <2> QED BY <1>1, WFMin
<1>3. \A j \in S : i <= j
  <2> TAKE j \in S
  <2>1. i \in Nat /\ j \in Nat OBVIOUS
  <2>2. ~(j < i) BY <1>2, <2>1
  <2> QED BY <2>1, <2>2
<1> QED BY <1>3

LEMMA MaxExists ==
  ASSUME NEW n \in Nat, NEW S \in SUBSET (1..n), S # {}
  PROVE  \E i \in S : \A j \in S : j <= i
<1> DEFINE T == {n - i : i \in S}
<1>1. T \in SUBSET Nat
  <2>1. \A i \in S : i \in Nat /\ i <= n OBVIOUS
  <2> QED BY <2>1
<1>2. T # {}
  <2>1. PICK i \in S : TRUE OBVIOUS
  <2> QED BY <2>1
<1>3. PICK k \in T : \A j \in T : k <= j
  <2> HIDE DEF T
  <2> QED BY <1>1, <1>2, MinExists
<1>4. PICK i \in S : k = n - i OBVIOUS
<1>5. \A j \in S : n - i <= n - j BY <1>3, <1>4
<1>6. \A j \in S : j \in Nat OBVIOUS
<1> QED BY <1>5, <1>6

-----------------------------------------------------------------------------
(* The operations that move matches between pools *)

\* What the pools promise while l is the latest location.
Sound(s, l) ==
  /\ DOMAIN s.cached \cap (DOMAIN s.active \cup DOMAIN s.pending) = {}
  /\ \A m \in DOMAIN s.active \cap DOMAIN s.pending :
       s.active[m].obj = s.pending[m].obj
  /\ s.isLoading <=> DOMAIN s.pending # {}
  /\ IF s.isLoading THEN DOMAIN s.pending = PathIds(l)
                    ELSE DOMAIN s.active = PathIds(l)
  /\ \E k \in Loc : DOMAIN s.active = PathIds(k)

LEMMA TameSound ==
  ASSUME NEW s, NEW t, NEW l, Sound(s, l), Tame(s, t)
  PROVE  IsMemory(t) /\ Sound(t, l)
BY DEF Sound, Tame

LEMMA PathIdsType == ASSUME NEW l \in Loc PROVE PathIds(l) \subseteq Id /\ PathIds(l) # {}
<1>1. Path[l] \in Seq(Id) /\ Path[l] # <<>> BY PathAssumption
<1>2. Len(Path[l]) \in Nat /\ Len(Path[l]) > 0 BY <1>1
<1>3. \A i \in 1..Len(Path[l]) : Path[l][i] \in Id BY <1>1
<1>4. 1 \in 1..Len(Path[l]) BY <1>2
<1> QED BY <1>3, <1>4 DEF PathIds

LEMMA CancelTame == ASSUME NEW s, IsMemory(s) PROVE Tame(s, CancelMatches(s))
<1> DEFINE doomed == Doomed(s)
           A == s.aborted \cup {<<m, GetMatch(s, m).ctrl>> : m \in doomed}
           B == [m \in Id |-> IF m \in doomed
                  THEN [s.bag[m] EXCEPT ![GetMatch(s, m).obj].timer = 0,
                                        ![GetMatch(s, m).obj].fired = FALSE]
                  ELSE s.bag[m]]
<1>1. \A m \in doomed : m \in Id /\ GetMatch(s, m) \in Match
  BY KnownMatch DEF Doomed, Known
<1>2. A \subseteq Id \X Controller
  <2>1. \A m \in doomed : GetMatch(s, m).ctrl \in Controller BY <1>1 DEF Match
  <2> QED BY <1>1, <2>1 DEF IsMemory
<1>3. B \in [Id -> [Obj -> Bag]]
  <2> SUFFICES ASSUME NEW m \in Id PROVE B[m] \in [Obj -> Bag] OBVIOUS
  <2> DEFINE o == GetMatch(s, m).obj
  <2>1. s.bag[m] \in [Obj -> Bag] BY DEF IsMemory
  <2> DEFINE f == [s.bag[m] EXCEPT ![o].timer = 0]
  <2>2. f \in [Obj -> Bag] BY <2>1, RunIsObj DEF Bag
  <2>3. [s.bag[m] EXCEPT ![o].timer = 0, ![o].fired = FALSE] \in [Obj -> Bag]
    <3>1. [s.bag[m] EXCEPT ![o].timer = 0, ![o].fired = FALSE]
            = [f EXCEPT ![o].fired = FALSE]
      OBVIOUS
    <3>2. \A b \in Bag : [b EXCEPT !.fired = FALSE] \in Bag BY DEF Bag
    <3>3. [f EXCEPT ![o] = [f[o] EXCEPT !.fired = FALSE]] \in [Obj -> Bag]
      <4> HIDE DEF f
      <4>1. o \in Obj => f[o] \in Bag BY <2>2
      <4> QED BY <2>2, <3>2, <4>1
    <3> HIDE DEF f
    <3> QED BY <3>1, <3>3
  <2> QED BY <2>1, <2>3
<1>4. CancelMatches(s) = [s EXCEPT !.aborted = A, !.bag = B] BY DEF CancelMatches
<1> HIDE DEF A, B
<1> QED BY <1>2, <1>3, <1>4 DEF Tame, IsMemory, IsPool

LEMMA NewBagsType ==
  ASSUME NEW s, IsMemory(s), NEW S, NEW r \in Run
  PROVE  NewBags(s, S, r) \in [Id -> [Obj -> Bag]]
<1>1. [EmptyBag EXCEPT !.loadP = "open"] \in Bag
  BY RunIsObj DEF EmptyBag, Bag, Failure
<1> QED BY <1>1 DEF NewBags, IsMemory

LEMMA NewMatchType ==
  ASSUME NEW s, NEW m \in Id, NEW r \in Run
  PROVE  NewMatch(s, m, r) \in Match
BY RunIsObj DEF NewMatch, Match, Status, Fetching, Failure, Controller, Cause

LEMMA MatchedType ==
  ASSUME NEW s, IsMemory(s), NEW m \in Id, NEW r \in Run
  PROVE  /\ Matched(s, m, r) \in Match
         /\ Known(s, m) => Matched(s, m, r).obj = GetMatch(s, m).obj
<1>1. \A x \in Match : /\ [x EXCEPT !.cause = Cause(s, m), !.gnf = FALSE] \in Match
                       /\ [x EXCEPT !.cause = Cause(s, m), !.gnf = FALSE].obj = x.obj
  <2>1. Cause(s, m) \in {"enter", "stay"} BY DEF Cause
  <2> QED BY <2>1 DEF Match
<1> QED BY <1>1, KnownMatch, NewMatchType DEF Matched

\* A load makes the matches of its location pending, each with the object
\* of the rendered match, if there is one.
LEMMA IngestPendingSound ==
  ASSUME NEW s, IsMemory(s), NEW k, Sound(s, k), NEW l \in Loc, NEW r \in Run
  PROVE  LET t == [IngestPending(s, l, r) EXCEPT !.isLoading = TRUE]
         IN IsMemory(t) /\ Sound(t, l) /\ t.isLoading /\ DOMAIN t.active = DOMAIN s.active
<1> DEFINE c == CancelMatches(s)
           B == NewBags(c, PathIds(l), r)
           P == [m \in PathIds(l) |-> Matched(c, m, r)]
           C == Drop(c.cached, PathIds(l))
           t == [IngestPending(s, l, r) EXCEPT !.isLoading = TRUE]
<1>1. Tame(s, c) BY CancelTame
<1>2. IsMemory(c) /\ Sound(c, k) BY <1>1, TameSound
<1>3. t = [c EXCEPT !.bag = B, !.pending = P, !.cached = C, !.isLoading = TRUE]
  BY DEF IngestPending
<1>4. DOMAIN c.active = DOMAIN s.active BY <1>1 DEF Tame
<1> HIDE DEF c
<1>5. B \in [Id -> [Obj -> Bag]] BY <1>2, NewBagsType
<1>6. IsPool(P) /\ DOMAIN P = PathIds(l)
  BY <1>2, PathIdsType, MatchedType DEF IsPool
<1>7. IsPool(C) /\ DOMAIN C = DOMAIN c.cached \ PathIds(l)
  BY <1>2 DEF IsMemory, IsPool, Drop
<1>8. \A m \in DOMAIN c.active \cap PathIds(l) : P[m].obj = c.active[m].obj
  <2> TAKE m \in DOMAIN c.active \cap PathIds(l)
  <2>1. Known(c, m) /\ m \in Id BY PathIdsType DEF Known
  <2>2. P[m].obj = GetMatch(c, m).obj BY <1>2, <2>1, MatchedType
  <2> QED BY <1>2, <2>2 DEF Sound, GetMatch
<1> HIDE DEF B, P, C, t
<1>9. IsMemory(t) BY <1>2, <1>3, <1>5, <1>6, <1>7 DEF IsMemory
<1>10. /\ t.active = c.active /\ t.pending = P /\ t.cached = C /\ t.isLoading = TRUE
  BY <1>2, <1>3 DEF IsMemory
<1>11. Sound(t, l) BY <1>2, <1>6, <1>7, <1>8, <1>10, PathIdsType DEF Sound
<1> QED BY <1>4, <1>9, <1>10, <1>11 DEF t

\* A preload caches only matches that are in no pool.
LEMMA IngestPreloadSound ==
  ASSUME NEW s, IsMemory(s), NEW k, Sound(s, k), NEW l \in Loc, NEW r \in Run
  PROVE  LET t == IngestPreload(s, l, r)
         IN IsMemory(t) /\ Sound(t, k) /\ DOMAIN t.active = DOMAIN s.active
<1> DEFINE new == {m \in PathIds(l) : ~Known(s, m)}
           B == NewBags(s, new, r)
           C == [m \in DOMAIN s.cached \cup new |->
                   IF m \in new THEN NewMatch(s, m, r) ELSE s.cached[m]]
           t == IngestPreload(s, l, r)
<1>1. t = [s EXCEPT !.bag = B, !.cached = C] BY DEF IngestPreload
<1>2. B \in [Id -> [Obj -> Bag]] BY NewBagsType
<1>3. new \subseteq Id /\ new \cap (DOMAIN s.active \cup DOMAIN s.pending) = {}
  BY PathIdsType DEF Known
<1> HIDE DEF new
<1>4. IsPool(C) /\ DOMAIN C = DOMAIN s.cached \cup new
  BY <1>3, NewMatchType DEF IsMemory, IsPool
<1> HIDE DEF B, C, t
<1>5. IsMemory(t) BY <1>1, <1>2, <1>4 DEF IsMemory
<1>6. /\ t.active = s.active /\ t.pending = s.pending /\ t.cached = C
      /\ t.isLoading = s.isLoading
  BY <1>1 DEF IsMemory
<1> QED BY <1>3, <1>4, <1>5, <1>6 DEF Sound, t

\* The commit renders the pending matches, and so the latest location.
LEMMA CommitSound ==
  ASSUME NEW s, IsMemory(s), NEW l \in Loc, Sound(s, l), NEW old, NEW n \in Nat
  PROVE  /\ LET t == [Commit(s, old) EXCEPT !.isLoading = FALSE]
            IN /\ IsMemory(t) /\ Sound(t, l) /\ ~t.isLoading
               /\ DOMAIN t.active = PathIds(l)
         /\ LET t == [Commit(s, old) EXCEPT !.isLoading = FALSE, !.commits = n]
            IN /\ IsMemory(t) /\ Sound(t, l) /\ ~t.isLoading
               /\ DOMAIN t.active = PathIds(l)
<1> DEFINE exiting == {m \in DOMAIN s.active \ DOMAIN s.pending :
                         s.active[m].status \notin {"error", "notFound", "redirected"}}
           kept == [m \in DOMAIN s.cached \cup exiting |->
                      IF m \in exiting THEN s.active[m] ELSE s.cached[m]]
           C == Drop(kept, Expired(kept, old))
           P == [m \in {} |-> 0]
           c == Commit(s, old)
<1>1. IsPool(kept) /\ DOMAIN kept = DOMAIN s.cached \cup exiting
  BY DEF IsMemory, IsPool
<1>2. IsPool(C) /\ DOMAIN C \subseteq DOMAIN s.cached \cup exiting
  <2> HIDE DEF kept
  <2> QED BY <1>1 DEF IsPool, Drop
<1>3. IsPool(P) /\ DOMAIN P = {} BY DEF IsPool
<1>4. c = IF DOMAIN s.pending = {} THEN s
          ELSE [s EXCEPT !.active = s.pending, !.pending = P, !.cached = C]
  BY DEF Commit
<1>5. exiting \cap DOMAIN s.pending = {} OBVIOUS
<1> HIDE DEF exiting, C, P, c
<1>6. IsMemory(c) BY <1>2, <1>3, <1>4 DEF IsMemory
<1>7. CASE DOMAIN s.pending = {}
  <2>1. c = s /\ DOMAIN s.active = PathIds(l) BY <1>4, <1>7 DEF Sound
  <2> QED BY <1>6, <1>7, <2>1 DEF Sound, IsMemory, c
<1>8. CASE DOMAIN s.pending # {}
  <2>1. c.active = s.pending /\ c.pending = P /\ c.cached = C
    BY <1>4, <1>8 DEF IsMemory
  <2>2. DOMAIN s.pending = PathIds(l) BY <1>8 DEF Sound
  <2>3. DOMAIN c.cached \cap DOMAIN c.active = {} BY <1>2, <1>5, <2>1 DEF Sound
  <2> QED BY <1>3, <1>6, <2>1, <2>2, <2>3 DEF Sound, IsMemory, c
<1> QED BY <1>7, <1>8

\* invalidate changes records where they are.
LEMMA InvalidateTame ==
  ASSUME NEW s, IsMemory(s), NEW force \in BOOLEAN
  PROVE  Tame(s, InvalidateAll(s, force))
<1>1. \A x \in Match : /\ InvalidateMatch(x, force) \in Match
                       /\ InvalidateMatch(x, force).obj = x.obj
  BY DEF InvalidateMatch, Match, Status, Failure
<1> DEFINE F(f) == [m \in DOMAIN f |-> InvalidateMatch(f[m], force)]
<1>2. \A f : IsPool(f) => /\ IsPool(F(f)) /\ DOMAIN F(f) = DOMAIN f
                          /\ \A m \in DOMAIN f : F(f)[m].obj = f[m].obj
  BY <1>1 DEF IsPool
<1>3. InvalidateAll(s, force) = [s EXCEPT !.active = F(s.active),
                                   !.pending = F(s.pending), !.cached = F(s.cached)]
  BY DEF InvalidateAll
<1> HIDE DEF F
<1> QED BY <1>2, <1>3 DEF Tame, IsMemory

LEMMA ClearTame ==
  ASSUME NEW s, IsMemory(s), NEW S
  PROVE  Tame(s, [s EXCEPT !.cached = Drop(@, S)])
BY DEF Tame, IsMemory, IsPool, Drop

-----------------------------------------------------------------------------
(* The locks *)

\* The matches t knows are known to s, with the same objects.
SameObjects(s, t) ==
  \A m \in Id : Known(t, m) =>
    Known(s, m) /\ GetMatch(t, m).obj = GetMatch(s, m).obj

\* t has no beforeLoadPromise and no loaderPromise that s does not have.
Frees(s, t) ==
  \A m \in Id, o \in Obj :
    /\ t.bag[m][o].beforeP \in {0, s.bag[m][o].beforeP}
    /\ t.bag[m][o].loaderP \in {0, s.bag[m][o].loaderP}

LEMMA SameObjectsTrans ==
  ASSUME NEW s, NEW t, NEW u, SameObjects(s, t), SameObjects(t, u)
  PROVE  SameObjects(s, u)
BY DEF SameObjects

LEMMA TameObjects ==
  ASSUME NEW s, IsMemory(s), NEW t, NEW l, Sound(s, l), Tame(s, t)
  PROVE  SameObjects(s, t)
BY DEF Sound, Tame, SameObjects, Known, GetMatch

\* A commit moves matches between the pools, with their objects.
LEMMA CommitObjects ==
  ASSUME NEW s, IsMemory(s), NEW l, Sound(s, l), NEW old, NEW t,
         t.active = Commit(s, old).active, t.pending = Commit(s, old).pending,
         t.cached = Commit(s, old).cached
  PROVE  SameObjects(s, t)
<1> DEFINE exiting == {m \in DOMAIN s.active \ DOMAIN s.pending :
                         s.active[m].status \notin {"error", "notFound", "redirected"}}
           kept == [m \in DOMAIN s.cached \cup exiting |->
                      IF m \in exiting THEN s.active[m] ELSE s.cached[m]]
           C == Drop(kept, Expired(kept, old))
<1>1. CASE DOMAIN s.pending = {} BY <1>1 DEF Commit, SameObjects, Known, GetMatch
<1>2. CASE DOMAIN s.pending # {}
  <2>1. t.active = s.pending /\ DOMAIN t.pending = {} /\ t.cached = C
    BY <1>2 DEF Commit, IsMemory
  <2>2. \A m \in DOMAIN C : m \in DOMAIN kept /\ C[m] = kept[m] BY DEF Drop
  <2>3. \A m \in DOMAIN C :
          \/ m \in DOMAIN s.cached /\ m \notin DOMAIN s.active /\ C[m] = s.cached[m]
          \/ m \in DOMAIN s.active \ DOMAIN s.pending /\ C[m] = s.active[m]
    BY <2>2 DEF Sound
  <2> HIDE DEF C
  <2> QED BY <2>1, <2>3 DEF Sound, SameObjects, Known, GetMatch
<1> QED BY <1>1, <1>2

LEMMA FreesSelf == ASSUME NEW s PROVE Frees(s, s)
BY DEF Frees

LEMMA FreesTrans ==
  ASSUME NEW s, NEW t, NEW u, Frees(s, t), Frees(t, u)
  PROVE  Frees(s, u)
BY DEF Frees

LEMMA SameBagFrees ==
  ASSUME NEW s, NEW t, t.bag = s.bag
  PROVE  Frees(s, t)
BY DEF Frees

LEMMA BagFrees ==
  ASSUME NEW s, IsMemory(s), NEW m \in Id, NEW o \in Obj, NEW g,
         g.beforeP \in {0, s.bag[m][o].beforeP}, g.loaderP \in {0, s.bag[m][o].loaderP},
         NEW t, t.bag = [s.bag EXCEPT ![m][o] = g]
  PROVE  Frees(s, t)
<1>1. s.bag \in [Id -> [Obj -> Bag]] BY DEF IsMemory
<1>2. \A n \in Id, p \in Obj :
        t.bag[n][p] = IF n = m /\ p = o THEN g ELSE s.bag[n][p]
  BY <1>1
<1> QED BY <1>2 DEF Frees

\* updateMatch touches no _nonReactive object.
LEMMA UpdateBag ==
  ASSUME NEW s, IsMemory(s), NEW r, NEW m, NEW d
  PROVE  Update(s, r, m, d).bag = s.bag
BY DEF IsMemory, Update, SetMatch

LEMMA ChunkBag == ASSUME NEW s, IsMemory(s), NEW m PROVE StartChunk(s, m).bag = s.bag
BY DEF IsMemory, StartChunk

\* One field of a _nonReactive object is set, but no promise of it.
LEMMA FieldFrees ==
  ASSUME NEW s, IsMemory(s), NEW m \in Id, NEW o \in Obj
  PROVE  /\ \A v : Frees(s, [s EXCEPT !.bag[m][o].loadP = v])
         /\ \A v : Frees(s, [s EXCEPT !.bag[m][o].fired = v])
         /\ \A v : Frees(s, [s EXCEPT !.bag[m][o].err = v])
         /\ \A v : Frees(s, [s EXCEPT !.bag[m][o].timer = v])
         /\ Frees(s, [s EXCEPT !.bag[m][o].loaderP = 0])
<1> DEFINE b == s.bag[m][o]
<1>1. b \in Bag /\ "bag" \in DOMAIN s BY DEF IsMemory
<1>2. ASSUME NEW g, g.beforeP = b.beforeP, g.loaderP \in {0, b.loaderP}
      PROVE  Frees(s, [s EXCEPT !.bag[m][o] = g])
  <2> DEFINE t == [s EXCEPT !.bag[m][o] = g]
  <2>1. t.bag = [s.bag EXCEPT ![m][o] = g] BY <1>1
  <2> HIDE DEF t
  <2>2. g.beforeP \in {0, s.bag[m][o].beforeP} /\ g.loaderP \in {0, s.bag[m][o].loaderP}
    BY <1>2
  <2>3. Frees(s, t) BY <2>1, <2>2, BagFrees
  <2> QED BY <2>3 DEF t
<1>3. ASSUME NEW v PROVE Frees(s, [s EXCEPT !.bag[m][o].loadP = v])
  <2> DEFINE g == [b EXCEPT !.loadP = v]
  <2>1. g.beforeP = b.beforeP /\ g.loaderP = b.loaderP BY <1>1 DEF Bag
  <2>2. [s EXCEPT !.bag[m][o].loadP = v] = [s EXCEPT !.bag[m][o] = g] OBVIOUS
  <2> HIDE DEF g, b
  <2> QED BY <1>2, <2>1, <2>2
<1>4. ASSUME NEW v PROVE Frees(s, [s EXCEPT !.bag[m][o].fired = v])
  <2> DEFINE g == [b EXCEPT !.fired = v]
  <2>1. g.beforeP = b.beforeP /\ g.loaderP = b.loaderP BY <1>1 DEF Bag
  <2>2. [s EXCEPT !.bag[m][o].fired = v] = [s EXCEPT !.bag[m][o] = g] OBVIOUS
  <2> HIDE DEF g, b
  <2> QED BY <1>2, <2>1, <2>2
<1>5. ASSUME NEW v PROVE Frees(s, [s EXCEPT !.bag[m][o].err = v])
  <2> DEFINE g == [b EXCEPT !.err = v]
  <2>1. g.beforeP = b.beforeP /\ g.loaderP = b.loaderP BY <1>1 DEF Bag
  <2>2. [s EXCEPT !.bag[m][o].err = v] = [s EXCEPT !.bag[m][o] = g] OBVIOUS
  <2> HIDE DEF g, b
  <2> QED BY <1>2, <2>1, <2>2
<1>6. ASSUME NEW v PROVE Frees(s, [s EXCEPT !.bag[m][o].timer = v])
  <2> DEFINE g == [b EXCEPT !.timer = v]
  <2>1. g.beforeP = b.beforeP /\ g.loaderP = b.loaderP BY <1>1 DEF Bag
  <2>2. [s EXCEPT !.bag[m][o].timer = v] = [s EXCEPT !.bag[m][o] = g] OBVIOUS
  <2> HIDE DEF g, b
  <2> QED BY <1>2, <2>1, <2>2
<1>7. Frees(s, [s EXCEPT !.bag[m][o].loaderP = 0])
  <2> DEFINE g == [b EXCEPT !.loaderP = 0]
  <2>1. g.beforeP = b.beforeP /\ g.loaderP = 0 BY <1>1 DEF Bag
  <2>2. [s EXCEPT !.bag[m][o].loaderP = 0] = [s EXCEPT !.bag[m][o] = g] OBVIOUS
  <2> HIDE DEF g, b
  <2> QED BY <1>2, <2>1, <2>2
<1> QED BY <1>3, <1>4, <1>5, <1>6, <1>7

\* What is resolved is gone.
LEMMA ResolveFrees ==
  ASSUME NEW s, IsMemory(s), NEW m \in Id, NEW o \in Obj
  PROVE  /\ Frees(s, ResolveBefore(s, m, o)) /\ Frees(s, ResolveLoader(s, m, o))
         /\ Frees(s, ResolveLoad(s, m, o))
         /\ ResolveBefore(s, m, o).bag[m][o].beforeP = 0
         /\ ResolveLoader(s, m, o).bag[m][o].loaderP = 0
<1> DEFINE b == s.bag[m][o]
<1>1. b \in Bag /\ "bag" \in DOMAIN s /\ s.bag \in [Id -> [Obj -> Bag]]
  BY DEF IsMemory
<1>2. Frees(s, ResolveBefore(s, m, o)) /\ ResolveBefore(s, m, o).bag[m][o].beforeP = 0
  <2> DEFINE g == [b EXCEPT !.beforeP = 0]
             t == ResolveBefore(s, m, o)
  <2>1. g.beforeP = 0 /\ g.loaderP = b.loaderP BY <1>1 DEF Bag
  <2>2. CASE b.beforeP = 0 BY <2>2, FreesSelf DEF ResolveBefore
  <2>3. CASE b.beforeP # 0
    <3>1. t.bag = [s.bag EXCEPT ![m][o] = g] BY <1>1, <2>3 DEF ResolveBefore
    <3>2. t.bag[m][o] = g BY <1>1, <3>1
    <3> HIDE DEF g, t
    <3>3. Frees(s, t) BY <2>1, <3>1, BagFrees
    <3> QED BY <2>1, <3>2, <3>3 DEF t
  <2> QED BY <2>2, <2>3
<1>3. Frees(s, ResolveLoader(s, m, o)) /\ ResolveLoader(s, m, o).bag[m][o].loaderP = 0
  <2> DEFINE g == [b EXCEPT !.loaderP = 0]
             t == ResolveLoader(s, m, o)
  <2>1. g.loaderP = 0 /\ g.beforeP = b.beforeP BY <1>1 DEF Bag
  <2>2. CASE b.loaderP = 0 BY <2>2, FreesSelf DEF ResolveLoader
  <2>3. CASE b.loaderP # 0
    <3>1. t.bag = [s.bag EXCEPT ![m][o] = g] BY <1>1, <2>3 DEF ResolveLoader
    <3>2. t.bag[m][o] = g BY <1>1, <3>1
    <3> HIDE DEF g, t
    <3>3. Frees(s, t) BY <2>1, <3>1, BagFrees
    <3> QED BY <2>1, <3>2, <3>3 DEF t
  <2> QED BY <2>2, <2>3
<1>4. Frees(s, ResolveLoad(s, m, o)) BY FieldFrees, FreesSelf DEF ResolveLoad
<1> QED BY <1>2, <1>3, <1>4

LEMMA TimerFrees ==
  ASSUME NEW s, IsMemory(s), NEW m \in Id, NEW o \in Obj
  PROVE  Frees(s, ClearTimer(s, m, o)) /\ \A r \in Run : Frees(s, SetupTimer(s, r, m, o))
<1>1. Frees(s, ClearTimer(s, m, o))
  <2> DEFINE t == [s EXCEPT !.bag[m][o].timer = 0]
  <2>1. IsMemory(t) BY FieldTame, RunIsObj, TameType
  <2>2. Frees(s, t) BY FieldFrees
  <2>3. ClearTimer(s, m, o) = [t EXCEPT !.bag[m][o].fired = FALSE] BY DEF ClearTimer
  <2> HIDE DEF t
  <2>4. Frees(t, [t EXCEPT !.bag[m][o].fired = FALSE]) BY <2>1, FieldFrees
  <2> QED BY <2>2, <2>3, <2>4, FreesTrans
<1>2. \A r \in Run : Frees(s, SetupTimer(s, r, m, o))
  BY FieldFrees, FreesSelf DEF SetupTimer
<1> QED BY <1>1, <1>2

LEMMA UnlockFrees ==
  ASSUME NEW s, IsMemory(s), NEW m \in Id, NEW o \in Obj
  PROVE  /\ Frees(s, Unlock(s, m, o)) /\ Unlock(s, m, o).bag[m][o].loaderP = 0
         /\ Frees(s, ForgetLoader(s, m))
<1> DEFINE t == ResolveLoader(s, m, o)
<1>1. IsMemory(t) BY ResolveTame, TameType
<1>2. Frees(s, t) /\ t.bag[m][o].loaderP = 0 BY ResolveFrees
<1>3. Unlock(s, m, o) = [t EXCEPT !.bag[m][o].loadP = "none"] BY DEF Unlock
<1> HIDE DEF t
<1>4. Frees(t, [t EXCEPT !.bag[m][o].loadP = "none"]) BY <1>1, FieldFrees
<1>5. Unlock(s, m, o).bag[m][o].loaderP = 0 BY <1>2, <1>3, <1>4 DEF Frees
<1>6. Frees(s, ForgetLoader(s, m))
  BY FieldFrees, FreesSelf, KnownMatch DEF ForgetLoader, Match
<1> QED BY <1>2, <1>3, <1>4, <1>5, <1>6, FreesTrans

-----------------------------------------------------------------------------
(* What the handlers free *)

LEMMA FailFrees ==
  ASSUME NEW s, IsMemory(s), NEW r, NEW m, NEW e \in {"redirect", "notFound"}
  PROVE  LET t == Fail(s, r, m, e)
             o == GetMatch(s, m).obj IN
         /\ Frees(s, t)
         /\ Known(s, m) => t.bag[m][o].beforeP = 0 /\ t.bag[m][o].loaderP = 0
<1>1. CASE ~Known(s, m) BY <1>1, FreesSelf DEF Fail
<1>2. CASE Known(s, m)
  <2> DEFINE o  == GetMatch(s, m).obj
             s0 == ResolveBefore(s, m, o)
             s1 == ResolveLoader(s0, m, o)
             s2 == [s1 EXCEPT !.bag[m][o].err = e]
             d  == [Stored(s2, m) EXCEPT !.status = StatusOf(e),
                                         !.fetching = "no", !.error = e]
             s3 == Update(s2, r, m, d)
             t  == ResolveLoad(s3, m, o)
  <2>0. m \in Id /\ o \in Obj BY <1>2, KnownMatch DEF Match
  <2>1. Fail(s, r, m, e) = t BY <1>2 DEF Fail
  <2>2. /\ IsMemory(s0) /\ Frees(s, s0) /\ s0.bag[m][o].beforeP = 0
    BY <2>0, ResolveTame, TameType, ResolveFrees
  <2> HIDE DEF s0
  <2>3. /\ IsMemory(s1) /\ Frees(s0, s1) /\ s1.bag[m][o].loaderP = 0
    BY <2>0, <2>2, ResolveTame, TameType, ResolveFrees
  <2> HIDE DEF s1
  <2>4. IsMemory(s2) /\ Frees(s1, s2)
    BY <2>0, <2>3, FieldTame, TameType, FieldFrees DEF Failure
  <2> HIDE DEF s2
  <2>5. IsMemory(s3)
    <3>1. Known(s2, m) => d \in Match
      BY <2>4, KnownMatch, MatchSet DEF StatusOf, Status, Fetching, Failure
    <3>2. Known(s2, m) => d.obj = Stored(s2, m).obj BY <2>4, KnownMatch DEF Match
    <3> QED BY <2>4, <3>1, <3>2, UpdateTame, TameType
  <2>6. Frees(s2, s3) BY <2>4, UpdateBag, SameBagFrees
  <2> HIDE DEF s3
  <2>7. Frees(s3, t) BY <2>0, <2>5, ResolveFrees
  <2> HIDE DEF t
  <2>8. Frees(s1, t) BY <2>4, <2>6, <2>7, FreesTrans
  <2>9. Frees(s0, t) BY <2>3, <2>8, FreesTrans
  <2>10. Frees(s, t) BY <2>2, <2>9, FreesTrans
  <2>11. t.bag[m][o].beforeP = 0 BY <2>0, <2>2, <2>9 DEF Frees
  <2>12. t.bag[m][o].loaderP = 0 BY <2>0, <2>3, <2>8 DEF Frees
  <2> QED BY <2>1, <2>10, <2>11, <2>12
<1> QED BY <1>1, <1>2

\* executeBeforeLoad makes a promise where there is a beforeLoad.
LEMMA ExecuteFrees ==
  ASSUME NEW s, IsMemory(s), NEW r \in Run, NEW m, Known(s, m)
  PROVE  LET t == Execute(s, r, m)
             o == GetMatch(s, m).obj IN
         IF RouteOf[m] \notin HasBeforeLoad THEN Frees(s, t)
         ELSE /\ \A n \in Id, p \in Obj :
                   /\ t.bag[n][p].loaderP \in {0, s.bag[n][p].loaderP}
                   /\ \/ t.bag[n][p].beforeP \in {0, s.bag[n][p].beforeP}
                      \/ n = m /\ p = o /\ t.bag[n][p].beforeP = r
<1> DEFINE o   == GetMatch(s, m).obj
           s0  == [s EXCEPT !.bag[m][o].loadP = "open"]
           s1  == SetupTimer(s0, r, m, o)
           has == RouteOf[m] \in HasBeforeLoad
           d   == [Stored(s1, m) EXCEPT !.ctrl = <<"run", r>>,
                     !.fetching = IF has THEN "beforeLoad" ELSE "no"]
           s2  == Update(s1, r, m, d)
           t   == [s2 EXCEPT !.bag[m][o].beforeP = r]
<1>0. m \in Id /\ o \in Obj BY KnownMatch DEF Match
<1>1. Execute(s, r, m) = IF has THEN t ELSE s2 BY DEF Execute
<1>2. IsMemory(s0) /\ Frees(s, s0) BY <1>0, FieldTame, TameType, FieldFrees
<1> HIDE DEF s0
<1>3. IsMemory(s1) /\ Frees(s0, s1) BY <1>0, <1>2, TimerTame, TameType, TimerFrees
<1> HIDE DEF s1
<1>4. s2.bag = s1.bag BY <1>3, UpdateBag
<1>5. IsMemory(s2)
  <2>1. <<"run", r>> \in Controller BY RunIsObj DEF Controller
  <2>2. Known(s1, m) => d \in Match BY <1>3, <2>1, KnownMatch, MatchSet DEF Fetching
  <2>3. Known(s1, m) => d.obj = Stored(s1, m).obj BY <1>3, KnownMatch DEF Match
  <2> QED BY <1>3, <2>2, <2>3, UpdateTame, TameType
<1>6. Frees(s, s2) BY <1>2, <1>3, <1>4, SameBagFrees, FreesTrans
<1> HIDE DEF s2
<1>7. \A n \in Id, p \in Obj :
        /\ t.bag[n][p].loaderP = s2.bag[n][p].loaderP
        /\ t.bag[n][p].beforeP = IF n = m /\ p = o THEN r ELSE s2.bag[n][p].beforeP
  <2>1. s2.bag \in [Id -> [Obj -> Bag]] /\ "bag" \in DOMAIN s2 BY <1>5 DEF IsMemory
  <2> DEFINE g == [s2.bag[m][o] EXCEPT !.beforeP = r]
  <2>2. g.beforeP = r /\ g.loaderP = s2.bag[m][o].loaderP
    <3>1. s2.bag[m][o] \in Bag BY <1>0, <2>1
    <3> QED BY <3>1 DEF Bag
  <2>3. t.bag = [s2.bag EXCEPT ![m][o] = g] BY <2>1
  <2> HIDE DEF g, t
  <2>4. \A n \in Id, p \in Obj :
          t.bag[n][p] = IF n = m /\ p = o THEN g ELSE s2.bag[n][p]
    BY <1>0, <2>1, <2>3
  <2> QED BY <2>2, <2>4
<1> HIDE DEF t, o
<1>8. has => \A n \in Id, p \in Obj :
        /\ t.bag[n][p].loaderP \in {0, s.bag[n][p].loaderP}
        /\ \/ t.bag[n][p].beforeP \in {0, s.bag[n][p].beforeP}
           \/ n = m /\ p = o /\ t.bag[n][p].beforeP = r
  BY <1>6, <1>7 DEF Frees
<1> QED BY <1>1, <1>6, <1>8 DEF o

LEMMA AwaitFrees ==
  ASSUME NEW s, IsMemory(s), NEW r, NEW m \in Id
  PROVE  /\ Frees(s, AwaitLazy(s, r, m)[1]) /\ Frees(s, AwaitErrorChunk(s, r, m)[1])
<1>1. Frees(s, ForgetLoader(s, m))
  BY FieldFrees, FreesSelf, KnownMatch DEF ForgetLoader, Match
<1>2. Frees(s, Succeed(s, r, m)) /\ Frees(s, StoreError(s, r, m))
  BY UpdateBag, SameBagFrees DEF Succeed, StoreError
<1> QED BY <1>1, <1>2, FreesSelf DEF AwaitLazy, AwaitErrorChunk

LEMMA StartLoaderFrees ==
  ASSUME NEW s, IsMemory(s), NEW r, NEW m \in Id
  PROVE  Frees(s, StartLoader(s, r, m)[1])
<1> DEFINE s1 == StartChunk(s, m)
           d  == [Stored(s1, m) EXCEPT !.fetching = "loader"]
           s2 == IF RouteOf[m] \in HasLoader
                      \/ s1.lazy[RouteOf[m]] \in {"loading", "failed"}
                 THEN Update(s1, r, m, d) ELSE s1
<1>1. StartLoader(s, r, m) =
        IF RouteOf[m] \in HasLoader THEN <<s2, "run">> ELSE AwaitLazy(s2, r, m)
  BY DEF StartLoader
<1>2. IsMemory(s1) /\ s1.bag = s.bag BY ChunkTame, TameType, ChunkBag
<1> HIDE DEF s1
<1>3. IsMemory(s2) /\ s2.bag = s.bag
  <2>1. Stored(s1, m) \in Match => d \in Match BY MatchSet DEF Fetching
  <2>2. Stored(s1, m) \in Match => d.obj = Stored(s1, m).obj BY DEF Match
  <2>3. IsMemory(Update(s1, r, m, d)) BY <1>2, <2>1, <2>2, StoredUpdate, TameType
  <2> QED BY <1>2, <2>3, UpdateBag
<1> HIDE DEF s2
<1>4. Frees(s, s2) /\ Frees(s2, AwaitLazy(s2, r, m)[1])
  BY <1>3, SameBagFrees, AwaitFrees
<1> QED BY <1>1, <1>4, FreesTrans

\* loadRouteMatch ends with its promise resolved, or leaves it to the
\* background reload.
LEMMA FinalizeFrees ==
  ASSUME NEW s, IsMemory(s), NEW r, NEW m, Known(s, m)
  PROVE  LET t == Finalize(s, r, m) IN
         /\ Frees(s, t)
         /\ run[r].bg[m].st = "none" => t.bag[m][GetMatch(s, m).obj].loaderP = 0
<1> DEFINE x  == GetMatch(s, m)
           async == run[r].bg[m].st # "none"
           s0 == IF async THEN s ELSE Unlock(s, m, x.obj)
           s1 == ClearTimer(s0, m, x.obj)
           d  == [Stored(s1, m) EXCEPT !.invalid = FALSE,
                    !.fetching = IF async THEN x.fetching ELSE "no"]
           t  == Finalize(s, r, m)
<1>0. m \in Id /\ x.obj \in Obj BY KnownMatch DEF Match
<1>1. \/ t = s1
      \/ t = Update(s1, r, m, [Stored(s1, m) EXCEPT
                !.fetching = IF async THEN x.fetching ELSE "no", !.invalid = FALSE])
  BY DEF Finalize, Loaded
<1>2. /\ IsMemory(s0) /\ Frees(s, s0) /\ (~async => s0.bag[m][x.obj].loaderP = 0)
  BY <1>0, LockTame, TameType, UnlockFrees, FreesSelf
<1> HIDE DEF s0
<1>3. IsMemory(s1) /\ Frees(s0, s1) BY <1>0, <1>2, TimerTame, TameType, TimerFrees
<1> HIDE DEF s1, t
<1>4. t.bag = s1.bag BY <1>1, <1>3, UpdateBag
<1>5. Frees(s0, t) BY <1>3, <1>4, SameBagFrees, FreesTrans
<1>6. Frees(s, t) BY <1>2, <1>5, FreesTrans
<1>7. ~async => t.bag[m][x.obj].loaderP = 0 BY <1>0, <1>2, <1>5 DEF Frees
<1> QED BY <1>6, <1>7 DEF t

LEMMA AbortFrees ==
  ASSUME NEW s, IsMemory(s), NEW r, NEW m \in Id, NEW task, task.obj \in Obj
  PROVE  Frees(s, Abort(s, r, m, task))
BY ResolveFrees, UpdateBag, SameBagFrees DEF Abort

-----------------------------------------------------------------------------
(* What the router's operations keep *)

\* Every promise of a match that t knows is one it has in s.
Keeps(s, t) ==
  \A m \in Id : Known(t, m) =>
    LET o == GetMatch(t, m).obj
        same == Known(s, m) /\ o = GetMatch(s, m).obj IN
    /\ t.bag[m][o].beforeP = 0 \/ (same /\ t.bag[m][o].beforeP = s.bag[m][o].beforeP)
    /\ t.bag[m][o].loaderP = 0 \/ (same /\ t.bag[m][o].loaderP = s.bag[m][o].loaderP)

LEMMA FreesKeeps ==
  ASSUME NEW s, NEW t, IsMemory(t), SameObjects(s, t), Frees(s, t)
  PROVE  Keeps(s, t)
<1> SUFFICES ASSUME NEW m \in Id, Known(t, m)
             PROVE  LET o == GetMatch(t, m).obj
                        same == Known(s, m) /\ o = GetMatch(s, m).obj IN
                    /\ \/ t.bag[m][o].beforeP = 0
                       \/ same /\ t.bag[m][o].beforeP = s.bag[m][o].beforeP
                    /\ \/ t.bag[m][o].loaderP = 0
                       \/ same /\ t.bag[m][o].loaderP = s.bag[m][o].loaderP
  BY DEF Keeps
<1> DEFINE o == GetMatch(t, m).obj
<1>1. o \in Obj BY KnownMatch DEF Match
<1>2. Known(s, m) /\ o = GetMatch(s, m).obj BY DEF SameObjects
<1> HIDE DEF o
<1>3. /\ t.bag[m][o].beforeP \in {0, s.bag[m][o].beforeP}
      /\ t.bag[m][o].loaderP \in {0, s.bag[m][o].loaderP}
  BY <1>1 DEF Frees
<1> QED BY <1>2, <1>3 DEF o

LEMMA KeepsTrans ==
  ASSUME NEW s, NEW t, NEW u, Keeps(s, t), Keeps(t, u)
  PROVE  Keeps(s, u)
<1> SUFFICES ASSUME NEW m \in Id, Known(u, m)
             PROVE  LET o == GetMatch(u, m).obj
                        same == Known(s, m) /\ o = GetMatch(s, m).obj IN
                    /\ \/ u.bag[m][o].beforeP = 0
                       \/ same /\ u.bag[m][o].beforeP = s.bag[m][o].beforeP
                    /\ \/ u.bag[m][o].loaderP = 0
                       \/ same /\ u.bag[m][o].loaderP = s.bag[m][o].loaderP
  BY DEF Keeps
<1> DEFINE o == GetMatch(u, m).obj
<1>1. /\ \/ u.bag[m][o].beforeP = 0
         \/ /\ Known(t, m) /\ o = GetMatch(t, m).obj
            /\ u.bag[m][o].beforeP = t.bag[m][o].beforeP
      /\ \/ u.bag[m][o].loaderP = 0
         \/ /\ Known(t, m) /\ o = GetMatch(t, m).obj
            /\ u.bag[m][o].loaderP = t.bag[m][o].loaderP
  BY DEF Keeps
<1>2. Known(t, m) /\ o = GetMatch(t, m).obj =>
        /\ \/ t.bag[m][o].beforeP = 0
           \/ /\ Known(s, m) /\ o = GetMatch(s, m).obj
              /\ t.bag[m][o].beforeP = s.bag[m][o].beforeP
        /\ \/ t.bag[m][o].loaderP = 0
           \/ /\ Known(s, m) /\ o = GetMatch(s, m).obj
              /\ t.bag[m][o].loaderP = s.bag[m][o].loaderP
  BY DEF Keeps
<1> QED BY <1>1, <1>2

\* cancelMatches stops timers and aborts controllers: the promises stay.
LEMMA CancelFrees == ASSUME NEW s, IsMemory(s) PROVE Frees(s, CancelMatches(s))
<1> DEFINE c == CancelMatches(s)
           B == [m \in Id |-> IF m \in Doomed(s)
                  THEN [s.bag[m] EXCEPT ![GetMatch(s, m).obj].timer = 0,
                                        ![GetMatch(s, m).obj].fired = FALSE]
                  ELSE s.bag[m]]
<1>1. c.bag = B BY DEF CancelMatches, IsMemory
<1> SUFFICES ASSUME NEW m \in Id, NEW p \in Obj
             PROVE  /\ B[m][p].beforeP = s.bag[m][p].beforeP
                    /\ B[m][p].loaderP = s.bag[m][p].loaderP
  <2> HIDE DEF c, B
  <2> QED BY <1>1 DEF Frees, c
<1>2. s.bag[m] \in [Obj -> Bag] BY DEF IsMemory
<1> DEFINE o == GetMatch(s, m).obj
           f == [s.bag[m] EXCEPT ![o].timer = 0]
           g == [f EXCEPT ![o].fired = FALSE]
<1>3. B[m] = s.bag[m] \/ B[m] = g OBVIOUS
<1>4. \A b \in Bag : /\ [b EXCEPT !.timer = 0].beforeP = b.beforeP
                     /\ [b EXCEPT !.timer = 0].loaderP = b.loaderP
                     /\ [b EXCEPT !.timer = 0] \in Bag
                     /\ [b EXCEPT !.fired = FALSE].beforeP = b.beforeP
                     /\ [b EXCEPT !.fired = FALSE].loaderP = b.loaderP
  BY RunIsObj DEF Bag
<1> HIDE DEF o, B
<1>5. /\ f \in [Obj -> Bag] /\ f[p].beforeP = s.bag[m][p].beforeP
      /\ f[p].loaderP = s.bag[m][p].loaderP
  <2>1. f = [s.bag[m] EXCEPT ![o] = [s.bag[m][o] EXCEPT !.timer = 0]] OBVIOUS
  <2>2. o \in Obj => s.bag[m][o] \in Bag BY <1>2
  <2> QED BY <1>2, <1>4, <2>1, <2>2
<1> HIDE DEF f
<1>6. g[p].beforeP = f[p].beforeP /\ g[p].loaderP = f[p].loaderP
  <2>1. g = [f EXCEPT ![o] = [f[o] EXCEPT !.fired = FALSE]] OBVIOUS
  <2>2. o \in Obj => f[o] \in Bag BY <1>5
  <2> QED BY <1>4, <1>5, <2>1, <2>2
<1> QED BY <1>3, <1>5, <1>6

\* The objects made for the matches of S that are new have no promise.
LEMMA NewBagsLocks ==
  ASSUME NEW s, IsMemory(s), NEW S, NEW r \in Run, NEW m \in Id, NEW o \in Obj
  PROVE  LET b == NewBags(s, S, r)[m][o] IN
         IF m \in S /\ ~Known(s, m) /\ o = r THEN b.beforeP = 0 /\ b.loaderP = 0
         ELSE b = s.bag[m][o]
<1>1. s.bag \in [Id -> [Obj -> Bag]] BY DEF IsMemory
<1> DEFINE e == [EmptyBag EXCEPT !.loadP = "open"]
<1>2. e.beforeP = 0 /\ e.loaderP = 0 BY DEF EmptyBag
<1>3. NewBags(s, S, r)[m] = IF m \in S /\ ~Known(s, m)
                            THEN [s.bag[m] EXCEPT ![r] = e] ELSE s.bag[m]
  BY DEF NewBags
<1> HIDE DEF e
<1>4. NewBags(s, S, r)[m][o] =
        IF m \in S /\ ~Known(s, m) /\ o = r THEN e ELSE s.bag[m][o]
  BY <1>1, <1>3, RunIsObj
<1> QED BY <1>2, <1>4

LEMMA IngestPendingKeeps ==
  ASSUME NEW s, IsMemory(s), NEW k, Sound(s, k), NEW l \in Loc, NEW r \in Run
  PROVE  Keeps(s, [IngestPending(s, l, r) EXCEPT !.isLoading = TRUE])
<1> DEFINE c == CancelMatches(s)
           B == NewBags(c, PathIds(l), r)
           P == [m \in PathIds(l) |-> Matched(c, m, r)]
           C == Drop(c.cached, PathIds(l))
           t == [IngestPending(s, l, r) EXCEPT !.isLoading = TRUE]
<1>1. Tame(s, c) BY CancelTame
<1>2. IsMemory(c) /\ Sound(c, k) BY <1>1, TameSound
<1>3. Keeps(s, c) BY <1>1, <1>2, TameObjects, CancelFrees, FreesKeeps
<1>4. t = [c EXCEPT !.bag = B, !.pending = P, !.cached = C, !.isLoading = TRUE]
  BY DEF IngestPending
<1> HIDE DEF c
<1>5. t.bag = B /\ t.pending = P /\ t.cached = C /\ t.active = c.active
  BY <1>2, <1>4 DEF IsMemory
<1>6. DOMAIN P = PathIds(l) OBVIOUS
<1>7. DOMAIN C = DOMAIN c.cached \ PathIds(l) /\ \A m \in DOMAIN C : C[m] = c.cached[m]
  BY DEF Drop
<1>8. \A m \in Id : /\ Known(c, m) => Matched(c, m, r).obj = GetMatch(c, m).obj
                    /\ ~Known(c, m) => Matched(c, m, r).obj = r
  BY <1>2, MatchedType DEF Matched, NewMatch
<1>9. \A m \in Id, o \in Obj :
        /\ m \in PathIds(l) /\ ~Known(c, m) /\ o = r =>
             B[m][o].beforeP = 0 /\ B[m][o].loaderP = 0
        /\ Known(c, m) => B[m][o] = c.bag[m][o]
  BY <1>2, NewBagsLocks
<1>10. \A m \in Id : P = [n \in PathIds(l) |-> Matched(c, n, r)] /\
         (m \in PathIds(l) => P[m] = Matched(c, m, r))
  OBVIOUS
<1> HIDE DEF B, P, C, t
<1>11. \A m \in Id : Known(t, m) =>
         \/ Known(c, m) /\ GetMatch(t, m).obj = GetMatch(c, m).obj
         \/ m \in PathIds(l) /\ ~Known(c, m) /\ GetMatch(t, m).obj = r
  <2> SUFFICES ASSUME NEW m \in Id, Known(t, m)
               PROVE  \/ Known(c, m) /\ GetMatch(t, m).obj = GetMatch(c, m).obj
                      \/ m \in PathIds(l) /\ ~Known(c, m) /\ GetMatch(t, m).obj = r
    OBVIOUS
  <2>1. CASE m \in PathIds(l)
    <3>1. GetMatch(t, m) = Matched(c, m, r) BY <1>5, <1>6, <1>7, <1>10, <2>1 DEF GetMatch
    <3> QED BY <1>8, <2>1, <3>1
  <2>2. CASE m \notin PathIds(l)
    <3>1. m \in DOMAIN C \/ m \in DOMAIN c.active BY <1>5, <1>6, <2>2 DEF Known
    <3>2. m \in DOMAIN C => GetMatch(t, m) = c.cached[m] /\ m \in DOMAIN c.cached
      BY <1>5, <1>7 DEF GetMatch
    <3>3. m \notin DOMAIN C => m \notin DOMAIN c.cached BY <1>7, <2>2
    <3>4. m \notin DOMAIN C => GetMatch(t, m) = c.active[m]
      BY <1>5, <1>6, <2>2 DEF GetMatch
    <3>5. m \in DOMAIN c.active /\ m \notin DOMAIN c.cached =>
            GetMatch(c, m).obj = c.active[m].obj
      BY <1>2 DEF GetMatch, Sound
    <3>6. m \in DOMAIN c.cached => GetMatch(c, m) = c.cached[m] BY DEF GetMatch
    <3> QED BY <3>1, <3>2, <3>3, <3>4, <3>5, <3>6 DEF Known
  <2> QED BY <2>1, <2>2
<1>12. \A m \in Id : Known(c, m) => GetMatch(c, m).obj \in Obj
  BY <1>2, KnownMatch DEF Match
<1>13. Keeps(c, t)
  <2> SUFFICES ASSUME NEW m \in Id, Known(t, m), NEW o, o = GetMatch(t, m).obj
               PROVE  /\ \/ t.bag[m][o].beforeP = 0
                         \/ /\ Known(c, m) /\ o = GetMatch(c, m).obj
                            /\ t.bag[m][o].beforeP = c.bag[m][o].beforeP
                      /\ \/ t.bag[m][o].loaderP = 0
                         \/ /\ Known(c, m) /\ o = GetMatch(c, m).obj
                            /\ t.bag[m][o].loaderP = c.bag[m][o].loaderP
    BY DEF Keeps
  <2> QED BY <1>5, <1>9, <1>11, <1>12, RunIsObj
<1> QED BY <1>3, <1>13, KeepsTrans DEF t

LEMMA IngestPreloadKeeps ==
  ASSUME NEW s, IsMemory(s), NEW l \in Loc, NEW r \in Run
  PROVE  Keeps(s, IngestPreload(s, l, r))
<1> DEFINE new == {m \in PathIds(l) : ~Known(s, m)}
           B == NewBags(s, new, r)
           C == [m \in DOMAIN s.cached \cup new |->
                   IF m \in new THEN NewMatch(s, m, r) ELSE s.cached[m]]
           t == IngestPreload(s, l, r)
<1>1. t = [s EXCEPT !.bag = B, !.cached = C] BY DEF IngestPreload
<1>2. t.bag = B /\ t.cached = C /\ t.active = s.active /\ t.pending = s.pending
  BY <1>1 DEF IsMemory
<1>3. \A m \in new : ~Known(s, m) /\ NewMatch(s, m, r).obj = r BY DEF NewMatch
<1>4. \A m \in Id, o \in Obj :
        /\ m \in new /\ o = r => B[m][o].beforeP = 0 /\ B[m][o].loaderP = 0
        /\ m \notin new => B[m][o] = s.bag[m][o]
  BY NewBagsLocks
<1>5. /\ DOMAIN C = DOMAIN s.cached \cup new
      /\ \A m \in DOMAIN C : C[m] = IF m \in new THEN NewMatch(s, m, r) ELSE s.cached[m]
  OBVIOUS
<1> HIDE DEF new, B, C, t
<1>6. \A m \in Id : Known(t, m) =>
        \/ m \in new /\ GetMatch(t, m).obj = r
        \/ m \notin new /\ Known(s, m) /\ GetMatch(t, m) = GetMatch(s, m)
  BY <1>2, <1>3, <1>5 DEF Known, GetMatch
<1>7. \A m \in Id : Known(s, m) => GetMatch(s, m).obj \in Obj BY KnownMatch DEF Match
<1>8. Keeps(s, t)
  <2> SUFFICES ASSUME NEW m \in Id, Known(t, m), NEW o, o = GetMatch(t, m).obj
               PROVE  /\ \/ t.bag[m][o].beforeP = 0
                         \/ /\ Known(s, m) /\ o = GetMatch(s, m).obj
                            /\ t.bag[m][o].beforeP = s.bag[m][o].beforeP
                      /\ \/ t.bag[m][o].loaderP = 0
                         \/ /\ Known(s, m) /\ o = GetMatch(s, m).obj
                            /\ t.bag[m][o].loaderP = s.bag[m][o].loaderP
    BY DEF Keeps
  <2> QED BY <1>2, <1>4, <1>6, <1>7, RunIsObj
<1> QED BY <1>8 DEF t

LEMMA InvalidateBag ==
  ASSUME NEW s, IsMemory(s), NEW force
  PROVE  InvalidateAll(s, force).bag = s.bag
BY DEF InvalidateAll, IsMemory

LEMMA CommitBag ==
  ASSUME NEW s, IsMemory(s), NEW old
  PROVE  Commit(s, old).bag = s.bag
BY DEF Commit, IsMemory

LEMMA OnReadyBag ==
  ASSUME NEW s, IsMemory(s), NEW old
  PROVE  OnReady(s, old).bag = s.bag
<1>1. Commit(s, old).bag = s.bag /\ "bag" \in DOMAIN s BY CommitBag DEF IsMemory
<1> QED BY <1>1 DEF OnReady

-----------------------------------------------------------------------------
(* The run table *)

PCs == {"idle", "pre", "waitB", "before", "loaders", "settle", "nfChunk",
        "errChunk", "ready", "end", "done"}

\* The run is at a match of its path, and so are its tasks.
InPath(x) ==
  /\ x.idx > 0
  /\ x.pc \in {"pre", "waitB", "before"} => x.idx <= Len(Path[x.loc])
  /\ x.bad <= Len(Path[x.loc])
  /\ \A m \in Id : x.fg[m].st # "none" \/ x.bg[m].st # "none" => m \in PathIds(x.loc)

RunOK(x) == IsRun(x) /\ InPath(x)
RunsOK == DOMAIN run = Run /\ \A r \in Run : RunOK(run[r])

LEMMA RunUpdate ==
  ASSUME RunsOK, NEW r \in Run, NEW x, RunOK(x), run' = [run EXCEPT ![r] = x]
  PROVE  RunsOK'
<1>1. DOMAIN run' = Run BY DEF RunsOK
<1>2. \A q \in Run : run'[q] = IF q = r THEN x ELSE run[q] BY DEF RunsOK
<1>3. \A q \in Run : RunOK(run'[q]) BY <1>2 DEF RunsOK
<1> QED BY <1>1, <1>3 DEF RunsOK, RunOK, IsRun, InPath

LEMMA LenType == ASSUME NEW l \in Loc PROVE Len(Path[l]) \in Nat \ {0}
<1>1. Path[l] \in Seq(Id) /\ Path[l] # <<>> BY PathAssumption
<1> QED BY <1>1

-----------------------------------------------------------------------------
(* Changes of a run's record *)

LEMMA PcOK ==
  ASSUME NEW x, RunOK(x)
  PROVE  /\ \A pc \in PCs \ {"pre", "waitB", "before"} : RunOK([x EXCEPT !.pc = pc])
         /\ \A pc \in PCs \ {"pre", "waitB", "before"}, i \in Nat \ {0} :
              RunOK([x EXCEPT !.pc = pc, !.idx = i])
         /\ \A pc \in PCs \ {"pre", "waitB", "before"}, b \in Nat :
              RunOK([x EXCEPT !.pc = pc, !.nf = b])
         /\ \A res \in {"none", "ok", "redirect", "notFound", "error"} :
              RunOK(End(x, res))
         /\ RunOK([x EXCEPT !.rendered = TRUE])
<1> USE DEF RunOK, IsRun, InPath, PCs
<1>1. \A pc \in PCs \ {"pre", "waitB", "before"} : RunOK([x EXCEPT !.pc = pc])
  OBVIOUS
<1>2. \A pc \in PCs \ {"pre", "waitB", "before"}, i \in Nat \ {0} :
        RunOK([x EXCEPT !.pc = pc, !.idx = i])
  OBVIOUS
<1>3. \A pc \in PCs \ {"pre", "waitB", "before"}, b \in Nat :
        RunOK([x EXCEPT !.pc = pc, !.nf = b])
  OBVIOUS
<1>4. \A res \in {"none", "ok", "redirect", "notFound", "error"} : RunOK(End(x, res))
  BY DEF End
<1>5. RunOK([x EXCEPT !.rendered = TRUE]) OBVIOUS
<1> QED BY <1>1, <1>2, <1>3, <1>4, <1>5

LEMMA AfterBeforeOK ==
  ASSUME NEW x, RunOK(x)
  PROVE  RunOK(AfterBefore(x))
<1> USE DEF RunOK, IsRun, InPath
<1>1. Len(Path[x.loc]) \in Nat BY LenType
<1>2. CASE x.bad = 0 /\ x.bnf = 0 /\ x.idx < Len(Path[x.loc])
  <2>1. AfterBefore(x) = [x EXCEPT !.pc = "pre", !.idx = @ + 1, !.bobj = 0, !.bkey = 0]
    BY <1>2 DEF AfterBefore
  <2>2. x.idx + 1 <= Len(Path[x.loc]) /\ x.idx + 1 \in Nat /\ x.idx + 1 > 0
    BY <1>1, <1>2
  <2> QED BY <2>1, <2>2, RunIsObj
<1>3. CASE ~(x.bad = 0 /\ x.bnf = 0 /\ x.idx < Len(Path[x.loc]))
  <2>1. AfterBefore(x) = [x EXCEPT !.pc = "loaders", !.idx = 1, !.bobj = 0, !.bkey = 0]
    BY <1>3 DEF AfterBefore
  <2> QED BY <2>1, RunIsObj
<1> QED BY <1>2, <1>3

LEMMA BadOK ==
  ASSUME NEW x, RunOK(x), x.idx <= Len(Path[x.loc]), NEW b \in BOOLEAN
  PROVE  /\ RunOK([x EXCEPT !.bad = x.idx, !.serial = b])
         /\ RunOK([x EXCEPT !.bad = x.idx, !.rendered = TRUE])
         /\ RunOK([x EXCEPT !.bad = x.idx, !.bnf = x.idx, !.gone = b])
         /\ RunOK([x EXCEPT !.bnf = x.idx])
BY DEF RunOK, IsRun, InPath

LEMMA TaskOK ==
  ASSUME NEW x, RunOK(x), NEW m \in PathIds(x.loc), NEW t \in Task
  PROVE  /\ RunOK([x EXCEPT !.fg[m] = t]) /\ RunOK([x EXCEPT !.bg[m] = t])
<1> USE DEF RunOK, IsRun, InPath
<1>1. RunOK([x EXCEPT !.fg[m] = t]) OBVIOUS
<1>2. RunOK([x EXCEPT !.bg[m] = t]) OBVIOUS
<1> QED BY <1>1, <1>2

LEMMA AtType == ASSUME NEW st \in TaskState PROVE At(st) \in Task
BY RunIsObj DEF At, NoTask, Task, Controller

-----------------------------------------------------------------------------
(* The serial beforeLoad phase *)

LoadOK == IsMemory(mem) /\ RunsOK /\ cpu \in Obj /\ redirects \in Nat
StepOK == Tame(mem, mem') /\ RunsOK' /\ cpu' \in Obj /\ redirects' \in Nat

LEMMA PathMember ==
  ASSUME LoadOK, NEW r \in Run, NEW i \in 1..Len(PathOf(r))
  PROVE  PathOf(r)[i] \in Id /\ PathOf(r)[i] \in PathIds(run[r].loc)
<1>1. run[r].loc \in Loc BY DEF LoadOK, RunsOK, RunOK, IsRun
<1>2. Path[run[r].loc] \in Seq(Id) BY <1>1, PathAssumption
<1> QED BY <1>2 DEF PathOf, PathIds

LEMMA CurrentType ==
  ASSUME LoadOK, NEW r \in Run, run[r].pc \in {"pre", "waitB", "before"}
  PROVE  /\ Current(r) \in Id /\ RunOK(run[r])
         /\ run[r].idx <= Len(Path[run[r].loc])
<1>1. RunOK(run[r]) BY DEF LoadOK, RunsOK
<1>2. Len(Path[run[r].loc]) \in Nat BY <1>1, LenType DEF RunOK, IsRun
<1>3. run[r].idx \in 1..Len(PathOf(r)) BY <1>1, <1>2 DEF RunOK, InPath, IsRun, PathOf
<1> QED BY <1>1, <1>2, <1>3, PathMember DEF Current, PathOf

LEMMA ExecuteStep ==
  ASSUME LoadOK, NEW r \in Run, run[r].pc \in {"pre", "waitB", "before"},
         NEW s, Tame(mem, s), Known(s, Current(r)), ExecuteBeforeLoad(s, r),
         UNCHANGED redirects
  PROVE  StepOK
<1> DEFINE m == Current(r)
<1>1. m \in Id /\ RunOK(run[r]) /\ run[r].idx <= Len(Path[run[r].loc])
  BY CurrentType
<1>2. IsMemory(s) BY TameType
<1>3. Tame(s, Execute(s, r, m)) BY <1>2, ExecuteTame
<1>4. Tame(mem, mem') BY <1>3, TameTrans DEF ExecuteBeforeLoad
<1>5. CASE RouteOf[m] \in HasBeforeLoad
  <2>1. GetMatch(s, m).obj \in Obj BY <1>2, KnownMatch DEF Match
  <2>2. RunOK([run[r] EXCEPT !.pc = "before", !.bobj = GetMatch(s, m).obj])
    BY <1>1, <2>1 DEF RunOK, IsRun, InPath
  <2>3. run' = [run EXCEPT ![r] = [run[r] EXCEPT !.pc = "before",
                                    !.bobj = GetMatch(s, m).obj]] /\ cpu' = 0
    BY <1>5 DEF ExecuteBeforeLoad
  <2>4. RunsOK' BY <2>2, <2>3, RunUpdate DEF LoadOK
  <2> QED BY <1>4, <2>3, <2>4, RunIsObj DEF StepOK, LoadOK
<1>6. CASE RouteOf[m] \notin HasBeforeLoad
  <2>1. run' = [run EXCEPT ![r] = AfterBefore(run[r])] /\ cpu' = r
    BY <1>6 DEF ExecuteBeforeLoad
  <2>2. RunsOK' BY <1>1, <2>1, AfterBeforeOK, RunUpdate DEF LoadOK
  <2> QED BY <1>4, <2>1, <2>2, RunIsObj DEF StepOK, LoadOK
<1> QED BY <1>5, <1>6

LEMMA ThenExecuteStep ==
  ASSUME LoadOK, NEW r \in Run, run[r].pc \in {"pre", "waitB", "before"},
         NEW s, Tame(mem, s), Known(s, Current(r)), ThenExecute(s, r),
         UNCHANGED redirects
  PROVE  StepOK
<1> DEFINE m == Current(r)
<1>1. m \in Id /\ RunOK(run[r]) /\ run[r].idx <= Len(Path[run[r].loc])
  BY CurrentType
<1>2. CASE ~SawFailedPreload(s, m) BY <1>2, ExecuteStep DEF ThenExecute
<1>3. CASE SawFailedPreload(s, m) /\ GetMatch(s, m).status = "redirected"
  <2>1. mem' = s /\ cpu' = 0 /\ run' = [run EXCEPT ![r] = End(run[r], "redirect")]
    BY <1>3 DEF ThenExecute
  <2>2. RunsOK' BY <1>1, <2>1, PcOK, RunUpdate DEF LoadOK
  <2> QED BY <2>1, <2>2, RunIsObj DEF StepOK, LoadOK
<1>4. CASE SawFailedPreload(s, m) /\ GetMatch(s, m).status # "redirected"
  <2> DEFINE x == [run[r] EXCEPT !.bnf = run[r].idx]
  <2>1. mem' = Fail(s, r, m, "notFound") /\ cpu' = 0
        /\ run' = [run EXCEPT ![r] = AfterBefore(x)]
    BY <1>4 DEF ThenExecute
  <2>2. RunOK(x) BY <1>1, BadOK
  <2> HIDE DEF x
  <2>3. RunsOK' BY <2>1, <2>2, AfterBeforeOK, RunUpdate DEF LoadOK
  <2>4. Tame(mem, mem') BY <2>1, TameType, FailTame, TameTrans
  <2> QED BY <2>1, <2>3, <2>4, RunIsObj DEF StepOK, LoadOK
<1> QED BY <1>2, <1>3, <1>4

LEMMA StartsBeforeLoad ==
  ASSUME LoadOK, NEW r \in Run,
         SkipBeforeLoad(r) \/ WaitBeforeLoad(r) \/ StartBeforeLoad(r) \/ WakeBeforeLoad(r)
  PROVE  StepOK
<1> DEFINE m == Current(r)
           o == GetMatch(mem, m).obj
<1>0. /\ run[r].pc \in {"pre", "waitB", "before"} /\ IsMemory(mem) /\ Tame(mem, mem)
      /\ m \in Id /\ RunOK(run[r])
  <2>1. run[r].pc \in {"pre", "waitB", "before"}
    BY DEF SkipBeforeLoad, WaitBeforeLoad, StartBeforeLoad, WakeBeforeLoad
  <2> QED BY <2>1, CurrentType, TameSelf DEF LoadOK
<1>1. CASE SkipBeforeLoad(r)
  <2>1. RunsOK' BY <1>0, <1>1, AfterBeforeOK, RunUpdate DEF SkipBeforeLoad, LoadOK
  <2> QED BY <1>0, <1>1, <2>1, RunIsObj DEF SkipBeforeLoad, StepOK, LoadOK
<1>2. CASE WaitBeforeLoad(r)
  <2>1. Known(mem, m) /\ mem' = SetupTimer(mem, r, m, o) /\ cpu' = 0
        /\ UNCHANGED redirects
        /\ run' = [run EXCEPT ![r] = [run[r] EXCEPT !.pc = "waitB",
                                        !.bkey = mem.bag[m][o].beforeP]]
    BY <1>2 DEF WaitBeforeLoad
  <2>2. o \in Obj BY <1>0, <2>1, KnownMatch DEF Match
  <2>3. Tame(mem, mem') BY <1>0, <2>1, <2>2, TimerTame
  <2>4. mem.bag[m][o].beforeP \in Obj BY <1>0, <2>2, PromiseType
  <2>5. run[r].idx <= Len(Path[run[r].loc]) BY <1>0, CurrentType
  <2>6. RunOK([run[r] EXCEPT !.pc = "waitB", !.bkey = mem.bag[m][o].beforeP])
    BY <1>0, <2>4, <2>5 DEF RunOK, IsRun, InPath
  <2>7. RunsOK' BY <2>1, <2>6, RunUpdate DEF LoadOK
  <2> QED BY <2>1, <2>3, <2>7, RunIsObj DEF StepOK, LoadOK
<1>3. CASE StartBeforeLoad(r)
  <2>1. Known(mem, m) BY <1>3 DEF StartBeforeLoad
  <2>2. o \in Obj BY <1>0, <2>1, KnownMatch DEF Match
  <2>3. Tame(mem, SetupTimer(mem, r, m, o)) BY <1>0, <2>2, TimerTame
  <2>4. Known(SetupTimer(mem, r, m, o), m)
    BY <1>0, <2>1 DEF SetupTimer, Known, PoolName, IsMemory
  <2>5. CASE mem.bag[m][o].loaderP # 0
    <3>1. ThenExecute(SetupTimer(mem, r, m, o), r) BY <1>3, <2>5 DEF StartBeforeLoad
    <3> QED BY <1>0, <1>3, <2>3, <2>4, <3>1, ThenExecuteStep DEF StartBeforeLoad
  <2>6. CASE mem.bag[m][o].loaderP = 0
    <3>1. ExecuteBeforeLoad(mem, r) BY <1>3, <2>6 DEF StartBeforeLoad
    <3> QED BY <1>0, <1>3, <2>1, <3>1, ExecuteStep DEF StartBeforeLoad
  <2> QED BY <2>5, <2>6
<1>4. CASE WakeBeforeLoad(r)
  <2>1. CASE Known(mem, m)
    <3>1. ThenExecute(mem, r) BY <1>4, <2>1 DEF WakeBeforeLoad
    <3> QED BY <1>0, <1>4, <2>1, <3>1, ThenExecuteStep DEF WakeBeforeLoad
  <2>2. CASE ~Known(mem, m)
    <3>1. mem' = mem /\ cpu' = 0 /\ UNCHANGED redirects
          /\ \/ run' = [run EXCEPT ![r] = [run[r] EXCEPT !.pc = "loaders", !.idx = 1]]
             \/ run' = [run EXCEPT ![r] = End(run[r], "error")]
      BY <1>4, <2>2 DEF WakeBeforeLoad
    <3>2. RunOK([run[r] EXCEPT !.pc = "loaders", !.idx = 1])
      BY <1>0 DEF RunOK, IsRun, InPath
    <3>3. RunOK(End(run[r], "error")) BY <1>0, PcOK
    <3>4. RunsOK' BY <3>1, <3>2, <3>3, RunUpdate DEF LoadOK
    <3> QED BY <1>0, <3>1, <3>4, RunIsObj DEF StepOK, LoadOK
  <2> QED BY <2>1, <2>2
<1> QED BY <1>1, <1>2, <1>3, <1>4

LEMMA EndsBeforeLoad ==
  ASSUME LoadOK, NEW r \in Run,
         \/ BeforeLoadReturns(r) \/ BeforeLoadThrows(r)
         \/ \E e \in {"redirect", "notFound"} : BeforeLoadFails(r, e)
  PROVE  StepOK
<1> DEFINE m == Current(r)
<1>0. /\ run[r].pc \in {"pre", "waitB", "before"} /\ IsMemory(mem)
      /\ m \in Id /\ RunOK(run[r]) /\ run[r].idx <= Len(Path[run[r].loc])
      /\ run[r].bobj \in Obj
  <2>1. run[r].pc \in {"pre", "waitB", "before"}
    BY DEF BeforeLoadReturns, BeforeLoadThrows, BeforeLoadFails
  <2> QED BY <2>1, CurrentType DEF LoadOK, RunOK, IsRun
<1>1. CASE BeforeLoadReturns(r)
  <2> DEFINE s1 == ResolveBefore(mem, m, run[r].bobj)
  <2>1. Tame(mem, s1) BY <1>0, ResolveTame
  <2>2. mem' = Update(s1, r, m, [Stored(s1, m) EXCEPT !.fetching = "no"])
    BY <1>1 DEF BeforeLoadReturns
  <2> HIDE DEF s1
  <2>3. Tame(mem, mem') BY <2>1, <2>2, TameType, FlagTame, TameTrans
  <2>4. RunsOK' BY <1>0, <1>1, AfterBeforeOK, RunUpdate DEF BeforeLoadReturns, LoadOK
  <2> QED BY <1>1, <2>3, <2>4 DEF BeforeLoadReturns, StepOK, LoadOK
<1>2. CASE BeforeLoadThrows(r)
  <2> DEFINE held == m \in DOMAIN run[r].held
             o  == IF held THEN run[r].held[m] ELSE Stored(mem, m).obj
             s0 == ResolveBefore(mem, m, o)
             s1 == IF held \/ Known(mem, m) THEN ResolveLoad(s0, m, o) ELSE mem
             d  == [Stored(s1, m) EXCEPT !.status = "error", !.error = "error",
                      !.fetching = "no", !.ctrl = <<"err", r>>]
             s2 == Update(s1, r, m, d)
  <2>1. Tame(mem, s1)
    <3>1. CASE ~(held \/ Known(mem, m)) BY <1>0, <3>1, TameSelf
    <3>2. CASE held \/ Known(mem, m)
      <4>1. o \in Obj BY <1>0, <3>2, KnownMatch DEF RunOK, IsRun, Match
      <4> HIDE DEF o
      <4>2. Tame(mem, s0) BY <1>0, <4>1, ResolveTame
      <4> HIDE DEF s0
      <4>3. Tame(s0, ResolveLoad(s0, m, o)) BY <1>0, <4>1, <4>2, TameType, ResolveTame
      <4> QED BY <3>2, <4>2, <4>3, TameTrans
    <3> QED BY <3>1, <3>2
  <2>2. mem' = ResolveBefore(s2, m, run[r].bobj) BY <1>2 DEF BeforeLoadThrows
  <2> HIDE DEF s1
  <2>3. Tame(s1, s2)
    <3>1. <<"err", r>> \in Controller BY RunIsObj DEF Controller
    <3> QED BY <2>1, <3>1, TameType, FlagTame
  <2> HIDE DEF s2
  <2>4. Tame(s2, mem') BY <1>0, <2>2, <2>3, TameType, ResolveTame
  <2>5. Tame(mem, mem') BY <2>1, <2>3, <2>4, TameTrans
  <2>6. RunOK([run[r] EXCEPT !.bad = run[r].idx, !.serial = ~IsPreload(r)])
    BY <1>0, BadOK DEF IsPreload
  <2>7. RunsOK' BY <1>2, <2>6, AfterBeforeOK, RunUpdate DEF BeforeLoadThrows, LoadOK
  <2> QED BY <1>2, <2>5, <2>7 DEF BeforeLoadThrows, StepOK, LoadOK
<1>3. ASSUME NEW e \in {"redirect", "notFound"}, BeforeLoadFails(r, e)
      PROVE  StepOK
  <2>1. Tame(mem, mem') BY <1>0, <1>3, FailTame DEF BeforeLoadFails
  <2>2. redirects' \in Nat /\ cpu' = cpu BY <1>3 DEF BeforeLoadFails, LoadOK
  <2> DEFINE x == [run[r] EXCEPT !.bad = run[r].idx, !.rendered = TRUE]
             y == [run[r] EXCEPT !.bad = run[r].idx, !.bnf = run[r].idx,
                                 !.gone = ~Known(mem, Current(r))]
  <2>3. RunOK(x) /\ RunOK(y) BY <1>0, BadOK
  <2>4. \/ run' = [run EXCEPT ![r] = End(x, e)]
        \/ run' = [run EXCEPT ![r] = AfterBefore(y)]
    BY <1>3 DEF BeforeLoadFails
  <2> HIDE DEF x, y
  <2>5. RunOK(End(x, e)) /\ RunOK(AfterBefore(y)) BY <2>3, PcOK, AfterBeforeOK
  <2>6. RunsOK' BY <2>4, <2>5, RunUpdate DEF LoadOK
  <2> QED BY <2>1, <2>2, <2>6 DEF StepOK, LoadOK
<1> QED BY <1>1, <1>2, <1>3

-----------------------------------------------------------------------------
(* Launching the tasks *)

LEMMA RunType ==
  ASSUME LoadOK, NEW r \in Run
  PROVE  /\ IsMemory(mem) /\ RunOK(run[r]) /\ run[r].loc \in Loc
         /\ run[r].idx \in Nat \ {0} /\ run[r].bad \in Nat /\ run[r].bnf \in Nat
         /\ Len(PathOf(r)) \in Nat \ {0} /\ run[r].bad <= Len(PathOf(r))
         /\ run[r].fg \in [Id -> Task] /\ run[r].bg \in [Id -> Task]
<1>1. RunOK(run[r]) /\ IsMemory(mem) BY DEF LoadOK, RunsOK
<1> QED BY <1>1, LenType DEF RunOK, IsRun, InPath, PathOf

LEMMA BoundaryType ==
  ASSUME LoadOK, NEW r \in Run, NEW at \in Nat
  PROVE  Boundary(r, at) \in Nat
<1> DEFINE from == IF at # 0 THEN at
                   ELSE IF run[r].bad # 0 THEN run[r].bad ELSE Len(PathOf(r))
           S == {i \in 1..from : RouteOf[PathOf(r)[i]] \in NotFoundRoutes}
           last == CHOOSE i \in S : \A j \in S : j <= i
<1>1. from \in Nat BY RunType
<1>2. Boundary(r, at) = IF S # {} THEN last ELSE IF at # 0 THEN from ELSE 1
  BY DEF Boundary
<1>3. S \in SUBSET (1..from) OBVIOUS
<1> HIDE DEF from, S
<1>4. S # {} => \E i \in S : \A j \in S : j <= i BY <1>1, <1>3, MaxExists
<1>5. S # {} => last \in S BY <1>4
<1>6. S \subseteq Nat BY <1>1, <1>3
<1> HIDE DEF last
<1>7. CASE S # {} BY <1>2, <1>5, <1>6, <1>7
<1>8. CASE S = {} /\ at # 0 BY <1>1, <1>2, <1>8
<1>9. CASE S = {} /\ at = 0 BY <1>2, <1>9
<1> QED BY <1>7, <1>8, <1>9

LEMMA LoaderCountType ==
  ASSUME LoadOK, NEW r \in Run
  PROVE  LoaderCount(r) \in Nat /\ LoaderCount(r) <= Len(PathOf(r))
<1>1. Unfailed(r) \in Nat /\ Unfailed(r) <= Len(PathOf(r)) BY RunType DEF Unfailed
<1>2. BeforeBoundary(r) \in Nat BY RunType, BoundaryType DEF BeforeBoundary
<1> QED BY <1>1, <1>2, RunType DEF LoaderCount

LEMMA NextTaskType ==
  ASSUME LoadOK, NEW r \in Run, NEW m \in Id, NextTask(r, m)
  PROVE  m \in PathIds(run[r].loc) /\ run[r].pc = "loaders" /\ run[r].idx + 1 \in Nat \ {0}
<1>1. run[r].idx \in 1..Len(PathOf(r)) BY RunType, LoaderCountType DEF NextTask
<1> QED BY <1>1, PathMember, RunType DEF NextTask, InLoaders, Current

LEMMA TaskIdxOK ==
  ASSUME NEW x, RunOK(x), x.pc = "loaders", NEW i \in Nat \ {0}
  PROVE  RunOK([x EXCEPT !.idx = i])
BY DEF RunOK, IsRun, InPath

\* A task of handleLoader: the memory and the run's record it leaves.
LEMMA HandleLoaderOK ==
  ASSUME LoadOK, NEW r \in Run, NEW m \in PathIds(run[r].loc),
         NEW s, Tame(mem, s), Known(mem, m), NEW p, NEW stale
  PROVE  /\ Tame(s, HandleLoader(s, r, m, p, stale)[1])
         /\ RunOK(HandleLoader(s, r, m, p, stale)[2])
         /\ HandleLoader(s, r, m, p, stale)[2].pc = run[r].pc
         /\ HandleLoader(s, r, m, p, stale)[2].idx = run[r].idx
<1> DEFINE go == StartLoader(s, r, m)
           t  == Started(m, go[2])
<1>0. m \in Id BY KnownMatch, RunType
<1>1. Tame(s, go[1]) /\ go[2] \in TaskState BY <1>0, TameType, StartLoaderTame
<1>2. Tame(s, s) BY TameType, TameSelf
<1> HIDE DEF go
<1>3. t \in Task
  <2>1. At(go[2]) \in Task BY <1>1, AtType
  <2>2. GetMatch(mem, m) \in Match BY RunType, KnownMatch
  <2>3. GetMatch(mem, m).obj \in Obj /\ GetMatch(mem, m).ctrl \in Controller
    BY <2>2 DEF Match
  <2> QED BY <2>1, <2>3 DEF Started, Task
<1>4. At("returned") \in Task BY AtType DEF TaskState
<1> HIDE DEF t
<1> DEFINE a == [run[r] EXCEPT !.fg[m] = At("returned")]
           b == [run[r] EXCEPT !.bg[m] = t, !.fg[m] = At("returned")]
           c == [run[r] EXCEPT !.fg[m] = t]
<1>5. RunOK(a) /\ RunOK(c) BY <1>3, <1>4, RunType, TaskOK
<1>6. RunOK(b)
  <2> DEFINE y == [run[r] EXCEPT !.bg[m] = t]
  <2>1. RunOK(y) BY <1>3, RunType, TaskOK
  <2>0. y.loc = run[r].loc BY RunType DEF RunOK, IsRun
  <2>2. b = [y EXCEPT !.fg[m] = At("returned")] OBVIOUS
  <2> HIDE DEF y, b
  <2> QED BY <1>4, <2>0, <2>1, <2>2, TaskOK
<1>7. /\ a.pc = run[r].pc /\ b.pc = run[r].pc /\ c.pc = run[r].pc
      /\ a.idx = run[r].idx /\ b.idx = run[r].idx /\ c.idx = run[r].idx
  BY RunType DEF RunOK, IsRun
<1>8. \/ HandleLoader(s, r, m, p, stale) = <<s, a>>
      \/ HandleLoader(s, r, m, p, stale) = <<go[1], b>>
      \/ HandleLoader(s, r, m, p, stale) = <<go[1], c>>
  BY DEF HandleLoader, go, t
<1> HIDE DEF a, b, c
<1> QED BY <1>1, <1>2, <1>5, <1>6, <1>7, <1>8

LEMMA StartsTasks ==
  ASSUME LoadOK, NEW r \in Run,
         SkipLoader(r) \/ WaitLoader(r) \/ StartTask(r) \/ LaunchedAll(r)
  PROVE  StepOK
<1>0. IsMemory(mem) /\ Tame(mem, mem) /\ RunOK(run[r]) BY RunType, TameSelf
<1>1. CASE SkipLoader(r)
  <2>1. PICK m \in Id :
          /\ NextTask(r, m) /\ mem' = mem /\ cpu' = r /\ redirects' = redirects
          /\ run' = [run EXCEPT ![r] = [run[r] EXCEPT !.fg[m] = At("ok"),
                                                    !.idx = run[r].idx + 1]]
    BY <1>0, <1>1 DEF SkipLoader, RunOK, IsRun
  <2> DEFINE x == [run[r] EXCEPT !.fg[m] = At("ok")]
  <2>2. RunOK(x) /\ x.pc = "loaders"
    <3>1. RunOK(x) BY <1>0, <2>1, NextTaskType, TaskOK, AtType DEF TaskState
    <3>2. x.pc = "loaders" BY <1>0, <2>1, NextTaskType DEF RunOK, IsRun
    <3> QED BY <3>1, <3>2
  <2>3. run' = [run EXCEPT ![r] = [x EXCEPT !.idx = run[r].idx + 1]] BY <2>1
  <2> HIDE DEF x
  <2>4. RunOK([x EXCEPT !.idx = run[r].idx + 1]) BY <2>1, <2>2, NextTaskType, TaskIdxOK
  <2>5. RunsOK' BY <2>3, <2>4, RunUpdate DEF LoadOK
  <2> QED BY <1>0, <2>1, <2>5, RunIsObj DEF StepOK, LoadOK
<1>2. CASE WaitLoader(r)
  <2>1. PICK m \in Id :
          /\ NextTask(r, m) /\ Known(mem, m) /\ mem' = mem /\ cpu' = r
          /\ redirects' = redirects
          /\ run' = [run EXCEPT ![r] = [run[r] EXCEPT !.idx = run[r].idx + 1,
               !.fg[m] = [NoTask EXCEPT !.st = "wait",
                            !.preload = Preloading(mem, r, m),
                            !.key = mem.bag[m][GetMatch(mem, m).obj].loaderP]]]
    BY <1>0, <1>2 DEF WaitLoader, RunOK, IsRun
  <2> DEFINE t == [NoTask EXCEPT !.st = "wait", !.preload = Preloading(mem, r, m),
                     !.key = mem.bag[m][GetMatch(mem, m).obj].loaderP]
             x == [run[r] EXCEPT !.idx = run[r].idx + 1]
  <2>2. t \in Task
    <3>1. GetMatch(mem, m).obj \in Obj BY <1>0, <2>1, KnownMatch DEF Match
    <3>2. mem.bag[m][GetMatch(mem, m).obj].loaderP \in Obj
      BY <1>0, <3>1, PromiseType
    <3>3. Preloading(mem, r, m) \in BOOLEAN BY DEF Preloading, IsPreload
    <3> QED BY <3>2, <3>3, RunIsObj DEF Task, NoTask, TaskState, Controller
  <2>3. run' = [run EXCEPT ![r] = [x EXCEPT !.fg[m] = t]] BY <2>1
  <2>4. RunOK(x) BY <1>0, <2>1, NextTaskType, TaskIdxOK
  <2>5. m \in PathIds(x.loc)
    <3>1. x.loc = run[r].loc BY <1>0 DEF RunOK, IsRun
    <3> QED BY <2>1, <3>1, NextTaskType
  <2> HIDE DEF x, t
  <2>6. RunOK([x EXCEPT !.fg[m] = t]) BY <2>2, <2>4, <2>5, TaskOK
  <2>7. RunsOK' BY <2>3, <2>6, RunUpdate DEF LoadOK
  <2> QED BY <1>0, <2>1, <2>7, RunIsObj DEF StepOK, LoadOK
<1>3. CASE StartTask(r)
  <2>1. PICK m \in Id, stale \in BOOLEAN :
          LET o  == GetMatch(mem, m).obj
              s1 == Lock(mem, m, o, r)
              p  == Preloading(mem, r, m)
              s2 == IF p = GetMatch(mem, m).preload THEN s1
                    ELSE Update(s1, r, m, [Stored(s1, m) EXCEPT !.preload = p])
              h  == HandleLoader(s2, r, m, p, stale) IN
          /\ NextTask(r, m) /\ Known(mem, m) /\ cpu' = r /\ redirects' = redirects
          /\ mem' = h[1]
          /\ run' = [run EXCEPT ![r] = [h[2] EXCEPT !.idx = run[r].idx + 1]]
    BY <1>3 DEF StartTask
  <2> DEFINE o  == GetMatch(mem, m).obj
             s1 == Lock(mem, m, o, r)
             p  == Preloading(mem, r, m)
             s2 == IF p = GetMatch(mem, m).preload THEN s1
                   ELSE Update(s1, r, m, [Stored(s1, m) EXCEPT !.preload = p])
             h  == HandleLoader(s2, r, m, p, stale)
  <2>2. /\ m \in PathIds(run[r].loc) /\ run[r].pc = "loaders"
        /\ run[r].idx + 1 \in Nat \ {0}
    BY <2>1, NextTaskType
  <2>3. Tame(mem, s1)
    <3>1. o \in Obj BY <1>0, <2>1, KnownMatch DEF Match
    <3> QED BY <1>0, <3>1, LockTame
  <2>4. p \in BOOLEAN BY DEF Preloading, IsPreload
  <2> HIDE DEF s1, p
  <2>5. Tame(s1, s2) BY <2>3, <2>4, TameType, TameSelf, FlagTame
  <2> HIDE DEF s2
  <2>6. Tame(mem, s2) BY <2>3, <2>5, TameTrans
  <2>7. /\ Tame(s2, h[1]) /\ RunOK(h[2])
        /\ h[2].pc = run[r].pc /\ h[2].idx = run[r].idx
    BY <2>1, <2>2, <2>6, HandleLoaderOK
  <2>8. /\ mem' = h[1] /\ cpu' = r /\ redirects' = redirects
        /\ run' = [run EXCEPT ![r] = [h[2] EXCEPT !.idx = run[r].idx + 1]]
    BY <2>1 DEF s2, s1, p
  <2> HIDE DEF h
  <2>9. RunOK([h[2] EXCEPT !.idx = run[r].idx + 1]) BY <2>2, <2>7, TaskIdxOK
  <2>10. RunsOK' BY <2>8, <2>9, RunUpdate DEF LoadOK
  <2>11. Tame(mem, mem') BY <2>6, <2>7, <2>8, TameTrans
  <2> QED BY <2>8, <2>10, <2>11, RunIsObj DEF StepOK, LoadOK
<1>4. CASE LaunchedAll(r)
  <2>1. RunOK([run[r] EXCEPT !.pc = "settle"]) BY <1>0, PcOK DEF PCs
  <2>2. RunsOK' BY <1>4, <2>1, RunUpdate DEF LaunchedAll, LoadOK
  <2> QED BY <1>0, <1>4, <2>2, RunIsObj DEF LaunchedAll, StepOK, LoadOK
<1> QED BY <1>1, <1>2, <1>3, <1>4

-----------------------------------------------------------------------------
(* The tasks *)

LEMMA TaskType ==
  ASSUME LoadOK, NEW r \in Run, NEW k \in {"fg", "bg"}, NEW m \in Id
  PROVE  /\ run[r][k][m] \in Task
         /\ run[r][k][m].st # "none" => m \in PathIds(run[r].loc)
<1>1. k = "fg" \/ k = "bg" OBVIOUS
<1> QED BY <1>1, RunType DEF RunOK, InPath

LEMMA MoveOK ==
  ASSUME LoadOK, NEW r \in Run, NEW k \in {"fg", "bg"}, NEW m \in PathIds(run[r].loc),
         NEW st \in TaskState, Move(r, k, m, st)
  PROVE  RunsOK'
<1>1. At(st) \in Task BY AtType
<1>2. /\ RunOK([run[r] EXCEPT !.fg[m] = At(st)])
      /\ RunOK([run[r] EXCEPT !.bg[m] = At(st)])
  BY <1>1, RunType, TaskOK
<1>3. \/ run' = [run EXCEPT ![r] = [run[r] EXCEPT !.fg[m] = At(st)]]
      \/ run' = [run EXCEPT ![r] = [run[r] EXCEPT !.bg[m] = At(st)]]
  BY DEF Move
<1> QED BY <1>2, <1>3, RunUpdate DEF LoadOK

LEMMA RejectOK ==
  ASSUME LoadOK, NEW r \in Run, NEW k \in {"fg", "bg"}, NEW m \in PathIds(run[r].loc),
         NEW e \in {"redirect", "notFound"}, Reject(r, k, m, e)
  PROVE  RunsOK'
<1> DEFINE at == IF Known(mem, m)
                 THEN CHOOSE i \in 1..Len(PathOf(r)) : PathOf(r)[i] = m ELSE 0
           st == IF k = "bg" /\ e = "notFound" THEN "ok" ELSE e
           t  == [NoTask EXCEPT !.at = at, !.st = st]
           x  == [run[r] EXCEPT !.rendered = run[r].rendered \/ RenderedBy(e)]
<1>1. at \in Nat
  <2>1. \E i \in 1..Len(PathOf(r)) : PathOf(r)[i] = m BY DEF PathIds, PathOf
  <2>2. (CHOOSE i \in 1..Len(PathOf(r)) : PathOf(r)[i] = m) \in 1..Len(PathOf(r))
    BY <2>1
  <2> QED BY <2>2
<1>2. st \in TaskState BY DEF TaskState
<1> HIDE DEF at, st
<1>3. t \in Task BY <1>1, <1>2, RunIsObj DEF NoTask, Task, Controller
<1>4. RunOK(x) BY RunType DEF RunOK, IsRun, InPath
<1>5. x.loc = run[r].loc BY RunType DEF RunOK, IsRun
<1>6. \/ run' = [run EXCEPT ![r] = [x EXCEPT !.fg[m] = t]]
      \/ run' = [run EXCEPT ![r] = [x EXCEPT !.bg[m] = t]]
  BY DEF Reject, at, st
<1> HIDE DEF t, x
<1>7. RunOK([x EXCEPT !.fg[m] = t]) /\ RunOK([x EXCEPT !.bg[m] = t])
  BY <1>3, <1>4, <1>5, TaskOK
<1> QED BY <1>6, <1>7, RunUpdate DEF LoadOK

LEMMA LoaderResults ==
  ASSUME LoadOK, NEW r \in Run, NEW k \in {"fg", "bg"}, NEW m \in Id,
         \/ LoaderReturns(r, k, m) \/ LoaderThrows(r, k, m) \/ LoaderAborts(r, k, m)
         \/ \E e \in {"redirect", "notFound"} : LoaderFails(r, k, m, e)
         \/ LazyArrives(r, k, m) \/ ErrorChunkArrives(r, k, m)
  PROVE  StepOK
<1>0. /\ IsMemory(mem) /\ run[r][k][m] \in Task /\ m \in PathIds(run[r].loc)
      /\ run[r][k][m].obj \in Obj
  <2>1. run[r][k][m].st # "none"
    BY DEF LoaderReturns, LoaderThrows, LoaderAborts, LoaderFails, LazyArrives,
           ErrorChunkArrives
  <2> QED BY <2>1, TaskType, RunType DEF Task
<1>1. ASSUME NEW go, Tame(mem, go[1]), go[2] \in TaskState, Continue(r, k, m, go),
             UNCHANGED <<cpu, redirects>>
      PROVE  StepOK
  BY <1>0, <1>1, MoveOK DEF Continue, StepOK, LoadOK
<1>2. CASE LoaderReturns(r, k, m)
  <2> DEFINE s == Update(mem, r, m, [Stored(mem, m) EXCEPT !.data = TRUE])
  <2>1. Tame(mem, s) BY <1>0, FlagTame
  <2>2. Continue(r, k, m, AwaitLazy(s, r, m)) /\ UNCHANGED <<cpu, redirects>>
    BY <1>2 DEF LoaderReturns
  <2> HIDE DEF s
  <2>3. /\ Tame(mem, AwaitLazy(s, r, m)[1])
        /\ AwaitLazy(s, r, m)[2] \in TaskState
    BY <2>1, TameType, AwaitTame, TameTrans
  <2> QED BY <1>1, <2>2, <2>3
<1>3. CASE LoaderThrows(r, k, m)
  BY <1>0, <1>1, <1>3, AwaitTame DEF LoaderThrows
<1>4. CASE LoaderAborts(r, k, m)
  <2> DEFINE go == <<Abort(mem, r, m, run[r][k][m]), "returned">>
  <2>1. Tame(mem, go[1]) /\ go[2] \in TaskState BY <1>0, AbortTame DEF TaskState
  <2>2. Continue(r, k, m, go) /\ UNCHANGED <<cpu, redirects>> BY <1>4 DEF LoaderAborts
  <2> QED BY <1>1, <2>1, <2>2
<1>5. ASSUME NEW e \in {"redirect", "notFound"}, LoaderFails(r, k, m, e)
      PROVE  StepOK
  <2>1. Tame(mem, mem') BY <1>0, <1>5, FailTame DEF LoaderFails
  <2>2. RunsOK' BY <1>0, <1>5, RejectOK DEF LoaderFails
  <2>3. redirects' \in Nat /\ cpu' = cpu BY <1>5 DEF LoaderFails, LoadOK
  <2> QED BY <2>1, <2>2, <2>3 DEF StepOK, LoadOK
<1>6. CASE LazyArrives(r, k, m)
  BY <1>0, <1>1, <1>6, AwaitTame DEF LazyArrives
<1>7. CASE ErrorChunkArrives(r, k, m)
  BY <1>0, <1>1, <1>7, AwaitTame DEF ErrorChunkArrives
<1> QED BY <1>2, <1>3, <1>4, <1>5, <1>6, <1>7

LEMMA TaskEnds ==
  ASSUME LoadOK, NEW r \in Run, NEW m \in Id,
         WakeLoader(r, m) \/ FinishTask(r, m) \/ FinishBackground(r, m)
  PROVE  StepOK
<1>0. /\ IsMemory(mem) /\ Tame(mem, mem) /\ m \in PathIds(run[r].loc)
      /\ UNCHANGED <<cpu, redirects>>
  <2>1. run[r].fg[m].st # "none" \/ run[r].bg[m].st # "none"
    BY DEF WakeLoader, FinishTask, FinishBackground
  <2> QED BY <2>1, RunType, TameSelf DEF RunOK, InPath, WakeLoader, FinishTask,
        FinishBackground
<1>1. ASSUME NEW k \in {"fg", "bg"}, NEW st \in TaskState, Move(r, k, m, st),
             Tame(mem, mem')
      PROVE  StepOK
  BY <1>0, <1>1, MoveOK DEF StepOK, LoadOK
<1>2. CASE WakeLoader(r, m)
  <2> DEFINE h == HandleLoader(mem, r, m, run[r].fg[m].preload, FALSE)
  <2>1. \/ /\ mem' = mem /\ (Move(r, "fg", m, "crash") \/ Move(r, "fg", m, "redirect"))
        \/ /\ Known(mem, m) /\ mem' = Fail(mem, r, m, "notFound")
           /\ Reject(r, "fg", m, "notFound")
        \/ Known(mem, m) /\ mem' = h[1] /\ run' = [run EXCEPT ![r] = h[2]]
        \/ Known(mem, m) /\ mem' = Finalize(mem, r, m) /\ Move(r, "fg", m, "ok")
    BY <1>2 DEF WakeLoader
  <2>2. CASE mem' = mem /\ (Move(r, "fg", m, "crash") \/ Move(r, "fg", m, "redirect"))
    BY <1>0, <1>1, <2>2 DEF TaskState
  <2>3. CASE mem' = Fail(mem, r, m, "notFound") /\ Reject(r, "fg", m, "notFound")
    BY <1>0, <2>3, FailTame, RejectOK DEF StepOK, LoadOK
  <2>4. CASE Known(mem, m) /\ mem' = h[1] /\ run' = [run EXCEPT ![r] = h[2]]
    <3>1. Tame(mem, h[1]) /\ RunOK(h[2]) BY <1>0, <2>4, HandleLoaderOK
    <3> HIDE DEF h
    <3>2. RunsOK' BY <2>4, <3>1, RunUpdate DEF LoadOK
    <3> QED BY <1>0, <2>4, <3>1, <3>2 DEF StepOK, LoadOK
  <2>5. CASE Known(mem, m) /\ mem' = Finalize(mem, r, m) /\ Move(r, "fg", m, "ok")
    BY <1>0, <1>1, <2>5, FinalizeTame DEF TaskState
  <2> QED BY <2>1, <2>2, <2>3, <2>4, <2>5
<1>3. CASE FinishTask(r, m)
  <2>1. \/ Known(mem, m) /\ mem' = Finalize(mem, r, m) /\ Move(r, "fg", m, "ok")
        \/ mem' = mem /\ Move(r, "fg", m, "crash")
    BY <1>3 DEF FinishTask
  <2>2. Tame(mem, mem') BY <1>0, <2>1, FinalizeTame
  <2> QED BY <1>1, <2>1, <2>2 DEF TaskState
<1>4. CASE FinishBackground(r, m)
  <2> DEFINE o == GetMatch(mem, m).obj
  <2>1. Known(mem, m) => o \in Obj BY <1>0, KnownMatch DEF Match
  <2>2. mem' = (IF Known(mem, m) THEN Unlock(mem, m, o) ELSE mem)
        /\ Move(r, "bg", m, "ok")
    BY <1>4 DEF FinishBackground
  <2> HIDE DEF o
  <2>3. Tame(mem, mem') BY <1>0, <2>1, <2>2, LockTame
  <2> QED BY <1>1, <2>2, <2>3 DEF TaskState
<1> QED BY <1>2, <1>3, <1>4
-----------------------------------------------------------------------------
(* The end of loadMatches *)

LEMMA NotFoundAtType == ASSUME LoadOK, NEW r \in Run PROVE NotFoundAt(r) \in Nat
<1> DEFINE R == Rejections(r, "notFound")
           i == CHOOSE i \in R : \A j \in R : i <= j
           at == run[r].fg[PathOf(r)[i]].at
<1>1. R \in SUBSET Nat /\ R \subseteq 1..Len(PathOf(r))
  BY LoaderCountType, RunType DEF Rejections
<1>2. CASE R # {}
  <2>1. NotFoundAt(r) = Boundary(r, at) BY <1>2 DEF NotFoundAt
  <2> HIDE DEF R
  <2>2. i \in R
    <3>1. \E x \in R : \A y \in R : x <= y BY <1>1, <1>2, MinExists
    <3> QED BY <3>1
  <2> HIDE DEF i
  <2>3. PathOf(r)[i] \in Id BY <1>1, <2>2, PathMember
  <2>4. at \in Nat BY <2>3, RunType DEF Task
  <2> HIDE DEF at
  <2> QED BY <2>1, <2>4, BoundaryType
<1>3. CASE R = {}
  <2>1. NotFoundAt(r) = 0 \/ NotFoundAt(r) = BeforeBoundary(r)
    BY <1>3 DEF NotFoundAt
  <2> QED BY <2>1, BoundaryType, RunType DEF BeforeBoundary
<1> QED BY <1>2, <1>3

LEMMA ThenErrorStep ==
  ASSUME LoadOK, NEW r \in Run, NEW s, Tame(mem, s), ThenError(r, s, run[r]),
         cpu = 0, UNCHANGED redirects
  PROVE  StepOK
<1>1. /\ RunOK([run[r] EXCEPT !.pc = "errChunk"])
      /\ RunOK([run[r] EXCEPT !.pc = "ready"])
  BY RunType, PcOK DEF PCs
<1>2. /\ \/ mem' = s
         \/ mem' = StartChunk(s, PathOf(r)[run[r].bad])
      /\ \/ run' = [run EXCEPT ![r] = [run[r] EXCEPT !.pc = "errChunk"]]
         \/ run' = [run EXCEPT ![r] = [run[r] EXCEPT !.pc = "ready"]]
      /\ cpu' \in {0, r}
  BY DEF ThenError
<1>3. Tame(mem, mem') BY <1>2, TameType, ChunkTame, TameTrans
<1>4. RunsOK' BY <1>1, <1>2, RunUpdate DEF LoadOK
<1> QED BY <1>2, <1>3, <1>4, RunIsObj DEF StepOK, LoadOK

LEMMA Settles ==
  ASSUME LoadOK, NEW r \in Run,
         Settle(r) \/ NotFoundChunkArrives(r) \/ SerialChunkArrives(r)
  PROVE  StepOK
<1>0. /\ IsMemory(mem) /\ Tame(mem, mem) /\ cpu = 0 /\ UNCHANGED redirects
      /\ \A res \in {"redirect", "error"} : RunOK(End(run[r], res))
      /\ RunOK([run[r] EXCEPT !.pc = "ready"])
  BY RunType, TameSelf, PcOK DEF Settle, NotFoundChunkArrives, SerialChunkArrives, PCs
<1>1. ASSUME NEW x, RunOK(x), run' = [run EXCEPT ![r] = x], Tame(mem, mem'),
             UNCHANGED cpu
      PROVE  StepOK
  BY <1>0, <1>1, RunUpdate DEF StepOK, LoadOK
<1>2. CASE Settle(r)
  <2> DEFINE b == NotFoundAt(r)
             s == MarkBoundary(r, b)
             z == ClearGlobalNotFound(r)
  <2>1. \/ /\ mem' = mem /\ UNCHANGED cpu
           /\ \E res \in {"redirect", "error"} :
                run' = [run EXCEPT ![r] = End(run[r], res)]
        \/ /\ mem' = StartChunk(s, PathOf(r)[b]) /\ UNCHANGED cpu
           /\ run' = [run EXCEPT ![r] = [run[r] EXCEPT !.pc = "nfChunk", !.nf = b]]
        \/ ThenError(r, z, run[r])
    BY <1>2 DEF Settle
  <2>2. Tame(mem, s) BY <1>0, FlagTame DEF MarkBoundary
  <2>3. Tame(mem, z) BY <1>0, FlagTame DEF ClearGlobalNotFound
  <2>4. RunOK([run[r] EXCEPT !.pc = "nfChunk", !.nf = b])
    BY NotFoundAtType, RunType, PcOK DEF PCs
  <2> HIDE DEF b, s, z
  <2>5. Tame(mem, StartChunk(s, PathOf(r)[b])) BY <2>2, TameType, ChunkTame, TameTrans
  <2>6. CASE ThenError(r, z, run[r]) BY <1>0, <2>3, <2>6, ThenErrorStep
  <2> QED BY <1>0, <1>1, <2>1, <2>4, <2>5, <2>6
<1>3. CASE NotFoundChunkArrives(r)
  <2>1. \/ /\ mem' = mem /\ UNCHANGED cpu
           /\ run' = [run EXCEPT ![r] = End(run[r], "error")]
        \/ ThenError(r, mem, run[r])
    BY <1>3 DEF NotFoundChunkArrives
  <2> QED BY <1>0, <1>1, <2>1, ThenErrorStep
<1>4. CASE SerialChunkArrives(r)
  <2>1. /\ mem' = mem /\ UNCHANGED cpu
        /\ \/ run' = [run EXCEPT ![r] = End(run[r], "error")]
           \/ run' = [run EXCEPT ![r] = [run[r] EXCEPT !.pc = "ready"]]
    BY <1>4 DEF SerialChunkArrives
  <2> QED BY <1>0, <1>1, <2>1
<1> QED BY <1>2, <1>3, <1>4

-----------------------------------------------------------------------------
(* The steps that may commit *)

\* The latest location l has been rendered.
Committed(l) ==
  /\ IsMemory(mem') /\ Sound(mem', l) /\ ~mem'.isLoading
  /\ DOMAIN mem'.active = PathIds(l)
  /\ ~ViewTransition /\ mem.commits = 0 => mem'.commits = 0
  /\ FailingChunks = {} =>
       \A rt \in Route : mem'.lazy[rt] = "failed" => mem.lazy[rt] = "failed"
  /\ SameObjects(mem, mem')

\* A step of a load: an update of records, or the commit of l.
LoadStep(l) ==
  /\ Tame(mem, mem') \/ Committed(l)
  /\ RunsOK' /\ cpu' \in Obj /\ redirects' \in Nat

LEMMA TameCommits ==
  ASSUME NEW s, NEW l, IsMemory(s), Sound(s, l), NEW n \in Nat \ {0}, ViewTransition
  PROVE  Tame(s, [s EXCEPT !.commits = n])
BY DEF Tame, IsMemory, IsPool

LEMMA OnReadyStep ==
  ASSUME IsMemory(mem), NEW l \in Loc, NEW s, Tame(mem, s), Sound(mem, l), NEW old,
         mem' = OnReady(s, old)
  PROVE  Tame(mem, mem') \/ Committed(l)
<1>0. IsMemory(mem) /\ Sound(mem, l) /\ Tame(mem, s) OBVIOUS
<1>1. IsMemory(s) /\ Sound(s, l) BY TameSound
<1>2. CASE ViewTransition
  <2>1. mem' = [s EXCEPT !.commits = s.commits + 1] BY <1>2 DEF OnReady
  <2>2. s.commits + 1 \in Nat \ {0} BY <1>1 DEF IsMemory
  <2>3. Tame(s, mem') BY <1>1, <1>2, <2>1, <2>2, TameCommits
  <2> QED BY <2>3, TameTrans
<1>3. CASE ~ViewTransition
  <2> DEFINE t == [Commit(s, old) EXCEPT !.isLoading = FALSE]
  <2>1. mem' = t BY <1>3 DEF OnReady
  <2>2. IsMemory(t) /\ Sound(t, l) /\ ~t.isLoading /\ DOMAIN t.active = PathIds(l)
    BY <1>1, CommitSound
  <2>3. t.commits = s.commits /\ t.lazy = s.lazy BY <1>1 DEF Commit, IsMemory
  <2>4. SameObjects(s, t)
    <3>1. /\ t.active = Commit(s, old).active /\ t.pending = Commit(s, old).pending
          /\ t.cached = Commit(s, old).cached
      BY <1>1 DEF Commit, IsMemory
    <3> HIDE DEF t
    <3> QED BY <1>1, <3>1, CommitObjects
  <2> HIDE DEF t
  <2>5. SameObjects(mem, mem')
    <3>1. SameObjects(mem, s) BY <1>0, TameObjects
    <3> QED BY <2>1, <2>4, <3>1, SameObjectsTrans
  <2> QED BY <1>3, <2>1, <2>2, <2>3, <2>5 DEF Committed, Tame
<1> QED BY <1>2, <1>3

LEMMA ReadyStep ==
  ASSUME LoadOK, NEW l \in Loc, Sound(mem, l), NEW r \in Run, Ready(r)
  PROVE  LoadStep(l)
<1> DEFINE x == [run[r] EXCEPT !.rendered = TRUE]
           res == IF run[r].nf # 0 THEN "notFound" ELSE "ok"
<1>1. PICK old \in Aged :
        mem' = IF IsPreload(r) \/ run[r].rendered THEN mem ELSE OnReady(mem, old)
  BY DEF Ready
<1>2. Tame(mem, mem) BY RunType, TameSelf
<1>3. Tame(mem, mem') \/ Committed(l) BY <1>1, <1>2, RunType, OnReadyStep
<1>4. RunOK(x) BY RunType, PcOK
<1>5. run' = [run EXCEPT ![r] = End(x, res)] /\ cpu' = 0 /\ UNCHANGED redirects
  BY DEF Ready
<1> HIDE DEF x
<1>6. RunOK(End(x, res)) BY <1>4, PcOK
<1>7. RunsOK' BY <1>5, <1>6, RunUpdate DEF LoadOK
<1> QED BY <1>3, <1>5, <1>7, RunIsObj DEF LoadStep, LoadOK

LEMMA TimeoutStep ==
  ASSUME LoadOK, NEW l \in Loc, Sound(mem, l), NEW m \in Id, NEW o \in Obj,
         PendingTimeout(m, o)
  PROVE  LoadStep(l)
<1> DEFINE r == mem.bag[m][o].timer
           s == [mem EXCEPT !.bag[m][o].fired = TRUE]
           x == [run[r] EXCEPT !.rendered = TRUE]
<1>1. PICK old \in Aged :
        /\ r # 0 /\ mem' = (IF run[r].rendered THEN s ELSE OnReady(s, old))
        /\ run' = [run EXCEPT ![r] = x] /\ UNCHANGED <<cpu, redirects>>
  BY DEF PendingTimeout
<1>2. r \in Run
  <2>1. r \in Obj BY DEF LoadOK, IsMemory, Bag
  <2> QED BY <1>1, <2>1, PathAssumption DEF Run, Obj
<1>3. Tame(mem, s) BY FieldTame DEF LoadOK
<1>4. RunOK(x) BY <1>2, RunType, PcOK
<1> HIDE DEF r, s, x
<1>5. Tame(mem, mem') \/ Committed(l) BY <1>1, <1>3, OnReadyStep DEF LoadOK
<1>6. RunsOK' BY <1>1, <1>2, <1>4, RunUpdate DEF LoadOK
<1> QED BY <1>1, <1>5, <1>6 DEF LoadStep, LoadOK

LEMMA EnvironmentSteps ==
  ASSUME LoadOK, NEW l \in Loc, Sound(mem, l), Environment
  PROVE  LoadStep(l)
<1>1. ASSUME NEW m \in Id, NEW o \in Obj, PendingTimeout(m, o) PROVE LoadStep(l)
  BY <1>1, TimeoutStep
<1>2. ASSUME NEW rt \in LazyRoutes, ChunkLoads(rt) \/ ChunkFails(rt)
      PROVE  LoadStep(l)
  <2>1. PICK c \in {"loaded", "failed"} :
          mem' = [mem EXCEPT !.lazy[rt] = c] /\ (c = "failed" => FailingChunks # {})
    BY <1>2 DEF ChunkLoads, ChunkFails
  <2>2. Tame(mem, mem')
    <3> DEFINE z == [mem.lazy EXCEPT ![rt] = c]
    <3>1. z \in [Route -> {"idle", "loading", "loaded", "failed"}]
      BY DEF LoadOK, IsMemory
    <3>2. mem' = [mem EXCEPT !.lazy = z] BY <2>1
    <3>3. FailingChunks = {} =>
            \A q \in Route : z[q] = "failed" => mem.lazy[q] = "failed"
      BY <2>1 DEF LoadOK, IsMemory
    <3> HIDE DEF z
    <3> QED BY <3>1, <3>2, <3>3 DEF Tame, LoadOK, IsMemory, IsPool
  <2>3. UNCHANGED <<run, cpu, redirects>> BY <1>2 DEF ChunkLoads, ChunkFails
  <2> QED BY <2>2, <2>3 DEF LoadStep, LoadOK, RunsOK, RunOK, IsRun, InPath
<1>3. CASE RunViewTransition
  <2>1. PICK old \in Aged :
          /\ mem.commits > 0
          /\ mem' = [Commit(mem, old) EXCEPT !.isLoading = FALSE, !.commits = @ - 1]
          /\ UNCHANGED <<run, cpu, redirects>>
    BY <1>3 DEF RunViewTransition
  <2>2. IsMemory(mem) /\ mem.commits - 1 \in Nat BY <2>1 DEF LoadOK, IsMemory
  <2>3. Commit(mem, old).commits = mem.commits BY <2>2 DEF Commit, IsMemory
  <2> DEFINE n == mem.commits - 1
             t == [Commit(mem, old) EXCEPT !.isLoading = FALSE, !.commits = n]
  <2>4. mem' = t /\ n \in Nat BY <2>1, <2>2, <2>3
  <2> HIDE DEF n
  <2>5. IsMemory(t) /\ Sound(t, l) /\ ~t.isLoading /\ DOMAIN t.active = PathIds(l)
    BY <2>2, <2>4, CommitSound
  <2>6. t.lazy = mem.lazy BY <2>2 DEF Commit, IsMemory
  <2>7. mem.commits # 0 BY <2>1
  <2>8. /\ t.active = Commit(mem, old).active /\ t.pending = Commit(mem, old).pending
        /\ t.cached = Commit(mem, old).cached
    BY <2>2 DEF Commit, IsMemory
  <2> HIDE DEF t
  <2>9. SameObjects(mem, t) BY <2>2, <2>8, CommitObjects
  <2>10. Committed(l) BY <2>4, <2>5, <2>6, <2>7, <2>9 DEF Committed
  <2> QED BY <2>1, <2>10 DEF LoadStep, LoadOK, RunsOK, RunOK, IsRun, InPath
<1> QED BY <1>1, <1>2, <1>3 DEF Environment

\* What every step of loadMatches does to the memory and the run table.
LEMMA LoadMatchesSteps ==
  ASSUME LoadOK, NEW l \in Loc, Sound(mem, l), NEW r \in Run,
         UserResult(r) \/ Continuation(r)
  PROVE  LoadStep(l)
<1>1. StepOK => LoadStep(l) BY DEF StepOK, LoadStep
<1>2. CASE UserResult(r)
  <2>1. CASE \/ BeforeLoadReturns(r) \/ BeforeLoadThrows(r)
             \/ \E e \in {"redirect", "notFound"} : BeforeLoadFails(r, e)
    BY <1>1, <2>1, EndsBeforeLoad
  <2>2. ASSUME NEW k \in {"fg", "bg"}, NEW m \in Id,
               \/ LoaderReturns(r, k, m) \/ LoaderThrows(r, k, m)
               \/ LoaderAborts(r, k, m)
               \/ \E e \in {"redirect", "notFound"} : LoaderFails(r, k, m, e)
        PROVE  LoadStep(l)
    BY <1>1, <2>2, LoaderResults
  <2> QED BY <1>2, <2>1, <2>2 DEF UserResult
<1>3. CASE Continuation(r)
  <2>1. CASE SkipBeforeLoad(r) \/ WaitBeforeLoad(r) \/ StartBeforeLoad(r)
             \/ WakeBeforeLoad(r)
    BY <1>1, <2>1, StartsBeforeLoad
  <2>2. CASE SkipLoader(r) \/ WaitLoader(r) \/ StartTask(r) \/ LaunchedAll(r)
    BY <1>1, <2>2, StartsTasks
  <2>3. ASSUME NEW m \in Id, WakeLoader(r, m) \/ FinishTask(r, m) \/ FinishBackground(r, m)
        PROVE  LoadStep(l)
    BY <1>1, <2>3, TaskEnds
  <2>4. ASSUME NEW k \in {"fg", "bg"}, NEW m \in Id,
               LazyArrives(r, k, m) \/ ErrorChunkArrives(r, k, m)
        PROVE  LoadStep(l)
    BY <1>1, <2>4, LoaderResults
  <2>5. CASE Settle(r) \/ NotFoundChunkArrives(r) \/ SerialChunkArrives(r)
    BY <1>1, <2>5, Settles
  <2>6. CASE Ready(r) BY <2>6, ReadyStep
  <2> QED BY <1>3, <2>1, <2>2, <2>3, <2>4, <2>5, <2>6 DEF Continuation
<1> QED BY <1>2, <1>3

\* No step of loadMatches gives a match another _nonReactive object.
LEMMA StepObjects ==
  ASSUME LoadOK, NEW l \in Loc, Sound(mem, l), LoadStep(l)
  PROVE  SameObjects(mem, mem')
BY TameObjects DEF LoadOK, LoadStep, Committed
=============================================================================
