------------------------------ MODULE LockProofs ------------------------------
(***************************************************************************)
(* beforeLoadPromise and loaderPromise are held by runs that are still at  *)
(* work on the match.                                                      *)
(*                                                                         *)
(* Stage says of every run which tasks it may have at each position of     *)
(* loadMatches: without it a run that launches a task could overwrite one  *)
(* that holds a promise, and a new run could start with the promises of    *)
(* another.  Advance says what a step may do to a run's record.  A step    *)
(* that leaves a promise in place must leave its run at work on the match. *)
(*                                                                         *)
(* The last part is about commits: what the latest load has done when it   *)
(* ends, so that the page is, or will be, that of the latest location.     *)
(***************************************************************************)
EXTENDS RouterCoreProofs

BeforePC == {"pre", "waitB", "before"}

\* The positions a run has noted are positions of its path.
Placed(x) ==
  /\ x.bnf <= Len(Path[x.loc]) /\ (x.serial => x.bad # 0)
  /\ \A m \in Id : x.fg[m].at <= Len(Path[x.loc])
  /\ x.pc = "nfChunk" => x.nf \in 1..Len(Path[x.loc])
  /\ x.pc = "errChunk" => x.bad # 0

\* A run that has not started is idle.  There is no task before the loaders,
\* none yet at the positions still ahead of the loop that launches them, and
\* none at work in the foreground once they are settled.
Stage(r) ==
  LET x == run[r] IN
  /\ Placed(x) /\ (x.kind = "free" => x.pc = "idle")
  /\ x.pc \in BeforePC \cup {"idle"} =>
       \A m \in Id : x.fg[m].st = "none" /\ x.bg[m].st = "none"
  /\ x.pc = "loaders" => \A i \in x.idx..Len(PathOf(r)) :
       x.fg[PathOf(r)[i]].st = "none" /\ x.bg[PathOf(r)[i]].st = "none"
  /\ \A m \in Id : x.fg[m].st # "none" => m \in Tasks(r)
  /\ x.pc \in {"nfChunk", "errChunk", "ready", "end", "done"} =>
       \A m \in Id : x.fg[m].st \in Ended \cup {"none"}

-----------------------------------------------------------------------------
(* What one step of a run may do to its record: x before, y after *)

SamePlan(x, y) ==
  /\ y.kind = x.kind /\ y.loc = x.loc /\ y.bad = x.bad /\ y.bnf = x.bnf
  /\ y.gone = x.gone /\ y.serial = x.serial

\* A step of the serial phase.
InBefore(r, y) ==
  LET x == run[r] IN
  /\ x.pc \in BeforePC /\ y.kind = x.kind /\ y.loc = x.loc
  /\ y.fg = x.fg /\ y.bg = x.bg
  /\ \/ /\ y.pc \in BeforePC \cup {"loaders"} /\ y.rendered = x.rendered
        /\ y.pc = "loaders" => y.idx = 1
     \/ y.pc = "end" /\ y.res = "redirect"
     \/ y.pc = "end" /\ y.rendered = x.rendered /\ ~Known(mem, Current(r))

\* The next task is launched, or skipped.
Launches(r, y) ==
  LET x == run[r] IN
  /\ x.pc = "loaders" /\ x.idx <= LoaderCount(r) /\ Current(r) \in Id
  /\ SamePlan(x, y) /\ y.pc = x.pc /\ y.rendered = x.rendered /\ y.idx = x.idx + 1
  /\ \A m \in Id \ {Current(r)} : y.fg[m] = x.fg[m] /\ y.bg[m] = x.bg[m]
  /\ y.fg[Current(r)].st # "crash"

\* The task k of m moves on.
Works(r, k, m, y) ==
  LET x == run[r] IN
  /\ x[k][m].st \notin Ended \cup {"none"}
  /\ SamePlan(x, y) /\ y.pc = x.pc /\ y.idx = x.idx /\ y.res = x.res
  /\ \A j \in {"fg", "bg"}, n \in Id : <<j, n>> # <<k, m>> => y[j][n] = x[j][n]
  /\ y[k][m].st = "crash" => ~Known(mem, m)
  /\ \/ y.rendered = x.rendered
     \/ y[k][m].st = "redirect"

\* The tasks are settled, chunks of boundaries awaited.
Finishes(r, y) ==
  LET x == run[r] IN
  /\ SamePlan(x, y) /\ y.fg = x.fg /\ y.bg = x.bg /\ y.rendered = x.rendered
  /\ \/ x.pc = "loaders" /\ y.pc = "settle"
     \/ /\ x.pc = "settle" /\ AllSettled(r)
        /\ \/ y.pc = "end" /\ y.res = "redirect"
           \/ y.pc = "end" /\ \E m \in Id : x.fg[m].st = "crash"
           \/ /\ y.pc \in {"nfChunk", "errChunk", "ready"}
              /\ \A m \in Tasks(r) : x.fg[m].st # "redirect"
     \/ /\ x.pc \in {"nfChunk", "errChunk"}
        /\ \/ y.pc \in {"errChunk", "ready"}
           \/ y.pc = "end" /\ \E rt \in Route : mem.lazy[rt] = "failed"

\* The run renders what it has loaded, or has done so before.
Readies(r, y) ==
  LET x == run[r] IN
  /\ x.pc = "ready" /\ y.pc = "end"
  /\ SamePlan(x, y) /\ y.fg = x.fg /\ y.bg = x.bg
  /\ x.rendered \/ x.kind = "preload" \/ (mem'.isLoading => mem'.commits # 0)

Advance(r) ==
  \E y : /\ run' = [run EXCEPT ![r] = y] /\ Placed(y)
         /\ \/ InBefore(r, y) \/ Launches(r, y)
            \/ \E k \in {"fg", "bg"}, m \in Id : Works(r, k, m, y)
            \/ Finishes(r, y) \/ Readies(r, y)

-----------------------------------------------------------------------------
LEMMA AfterBeforeIs ==
  ASSUME NEW x, IsRun(x)
  PROVE  LET y == AfterBefore(x) IN
         /\ y.kind = x.kind /\ y.loc = x.loc /\ y.fg = x.fg /\ y.bg = x.bg
         /\ y.rendered = x.rendered /\ y.pc \in {"pre", "loaders"}
         /\ y.pc = "loaders" => y.idx = 1
         /\ Placed(x) => Placed(y)
<1> USE DEF Placed
<1>1. CASE x.bad = 0 /\ x.bnf = 0 /\ x.idx < Len(Path[x.loc])
  BY <1>1 DEF AfterBefore, IsRun
<1>2. CASE ~(x.bad = 0 /\ x.bnf = 0 /\ x.idx < Len(Path[x.loc]))
  BY <1>2 DEF AfterBefore, IsRun
<1> QED BY <1>1, <1>2

LEMMA EndIs ==
  ASSUME NEW x, IsRun(x), NEW res
  PROVE  LET y == End(x, res) IN
         /\ SamePlan(x, y) /\ y.fg = x.fg /\ y.bg = x.bg
         /\ y.rendered = x.rendered /\ y.pc = "end" /\ y.res = res
         /\ Placed(x) => Placed(y)
BY DEF End, IsRun, SamePlan, Placed

LEMMA BeforeAdvances ==
  ASSUME LoadOK, NEW r \in Run, Placed(run[r]),
         \/ SkipBeforeLoad(r) \/ WaitBeforeLoad(r) \/ StartBeforeLoad(r)
         \/ WakeBeforeLoad(r) \/ BeforeLoadReturns(r) \/ BeforeLoadThrows(r)
         \/ \E e \in {"redirect", "notFound"} : BeforeLoadFails(r, e)
  PROVE  Advance(r)
<1> DEFINE x == run[r]
<1>0. IsRun(x) /\ x.idx <= Len(Path[x.loc]) /\ x.idx # 0
  <2>1. x.pc \in {"pre", "waitB", "before"}
    BY DEF SkipBeforeLoad, WaitBeforeLoad, StartBeforeLoad, WakeBeforeLoad,
           BeforeLoadReturns, BeforeLoadThrows, BeforeLoadFails
  <2> QED BY <2>1, RunType DEF RunOK, InPath
<1>1. x.pc \in BeforePC
  BY DEF SkipBeforeLoad, WaitBeforeLoad, StartBeforeLoad, WakeBeforeLoad,
         BeforeLoadReturns, BeforeLoadThrows, BeforeLoadFails, BeforePC
<1>2. ASSUME NEW y, run' = [run EXCEPT ![r] = y], InBefore(r, y), Placed(y)
      PROVE  Advance(r)
  BY <1>2 DEF Advance
<1>3. ASSUME NEW z, IsRun(z), z.kind = x.kind, z.loc = x.loc, z.fg = x.fg,
             z.bg = x.bg, z.rendered = x.rendered, Placed(z)
      PROVE  InBefore(r, AfterBefore(z)) /\ Placed(AfterBefore(z))
  BY <1>1, <1>3, AfterBeforeIs DEF InBefore, BeforePC
<1>4. InBefore(r, End(x, "redirect")) /\ Placed(End(x, "redirect"))
  BY <1>0, <1>1, EndIs DEF InBefore, SamePlan
<1>5. ASSUME NEW s, ThenExecute(s, r) PROVE Advance(r)
  <2>1. \/ run' = [run EXCEPT ![r] = [x EXCEPT !.pc = "before",
                                        !.bobj = GetMatch(s, Current(r)).obj]]
        \/ run' = [run EXCEPT ![r] = AfterBefore(x)]
        \/ run' = [run EXCEPT ![r] = End(x, "redirect")]
        \/ run' = [run EXCEPT ![r] = AfterBefore([x EXCEPT !.bnf = x.idx])]
    BY <1>5 DEF ThenExecute, ExecuteBeforeLoad
  <2>2. LET y == [x EXCEPT !.pc = "before", !.bobj = GetMatch(s, Current(r)).obj]
        IN InBefore(r, y) /\ Placed(y)
    BY <1>0, <1>1 DEF InBefore, IsRun, BeforePC, Placed
  <2>3. InBefore(r, AfterBefore(x)) /\ Placed(AfterBefore(x)) BY <1>0, <1>3
  <2>4. LET y == AfterBefore([x EXCEPT !.bnf = x.idx]) IN InBefore(r, y) /\ Placed(y)
    <3> DEFINE z == [x EXCEPT !.bnf = x.idx]
    <3>1. /\ IsRun(z) /\ z.kind = x.kind /\ z.loc = x.loc /\ z.fg = x.fg
          /\ z.bg = x.bg /\ z.rendered = x.rendered /\ Placed(z)
      BY <1>0 DEF IsRun, Placed
    <3> HIDE DEF z
    <3> QED BY <3>1, <1>3 DEF z
  <2> HIDE DEF x
  <2> QED BY <1>2, <1>4, <2>1, <2>2, <2>3, <2>4
<1>6. CASE SkipBeforeLoad(r) BY <1>0, <1>2, <1>3, <1>6 DEF SkipBeforeLoad
<1>7. CASE WaitBeforeLoad(r)
  <2>1. PICK b : run' = [run EXCEPT ![r] = [x EXCEPT !.pc = "waitB", !.bkey = b]]
    BY <1>7 DEF WaitBeforeLoad
  <2>2. LET y == [x EXCEPT !.pc = "waitB", !.bkey = b] IN InBefore(r, y) /\ Placed(y)
    BY <1>0, <1>1 DEF InBefore, IsRun, BeforePC, Placed
  <2> QED BY <1>2, <2>1, <2>2
<1>8. CASE StartBeforeLoad(r)
  <2>1. \E s : ThenExecute(s, r) \/ ExecuteBeforeLoad(s, r)
    BY <1>8 DEF StartBeforeLoad
  <2>2. ASSUME NEW s, ExecuteBeforeLoad(s, r) PROVE Advance(r)
    <3>1. \/ run' = [run EXCEPT ![r] = [x EXCEPT !.pc = "before",
                                          !.bobj = GetMatch(s, Current(r)).obj]]
          \/ run' = [run EXCEPT ![r] = AfterBefore(x)]
      BY <2>2 DEF ExecuteBeforeLoad
    <3>2. LET y == [x EXCEPT !.pc = "before", !.bobj = GetMatch(s, Current(r)).obj]
          IN InBefore(r, y) /\ Placed(y)
      BY <1>0, <1>1 DEF InBefore, IsRun, BeforePC, Placed
    <3>3. InBefore(r, AfterBefore(x)) /\ Placed(AfterBefore(x)) BY <1>0, <1>3
    <3> QED BY <1>2, <3>1, <3>2, <3>3
  <2> QED BY <1>5, <2>1, <2>2
<1>9. CASE WakeBeforeLoad(r)
  <2>1. CASE Known(mem, Current(r)) BY <1>5, <1>9, <2>1 DEF WakeBeforeLoad
  <2>2. CASE ~Known(mem, Current(r))
    <3>1. \/ run' = [run EXCEPT ![r] = [x EXCEPT !.pc = "loaders", !.idx = 1]]
          \/ run' = [run EXCEPT ![r] = End(x, "error")]
      BY <1>9, <2>2 DEF WakeBeforeLoad
    <3>2. LET y == [x EXCEPT !.pc = "loaders", !.idx = 1] IN InBefore(r, y) /\ Placed(y)
      BY <1>0, <1>1 DEF InBefore, IsRun, BeforePC, Placed
    <3>3. InBefore(r, End(x, "error")) /\ Placed(End(x, "error"))
      BY <1>0, <1>1, <2>2, EndIs DEF InBefore, SamePlan
    <3> QED BY <1>2, <3>1, <3>2, <3>3
  <2> QED BY <2>1, <2>2
<1>10. CASE BeforeLoadReturns(r) BY <1>0, <1>2, <1>3, <1>10 DEF BeforeLoadReturns
<1>11. CASE BeforeLoadThrows(r)
  <2> DEFINE z == [x EXCEPT !.bad = x.idx, !.serial = ~IsPreload(r)]
  <2>1. run' = [run EXCEPT ![r] = AfterBefore(z)] BY <1>11 DEF BeforeLoadThrows
  <2>2. /\ IsRun(z) /\ z.kind = x.kind /\ z.loc = x.loc /\ z.fg = x.fg
        /\ z.bg = x.bg /\ z.rendered = x.rendered /\ Placed(z)
    BY <1>0 DEF IsRun, IsPreload, Placed
  <2> HIDE DEF z
  <2> QED BY <1>2, <1>3, <2>1, <2>2
<1>12. ASSUME NEW e \in {"redirect", "notFound"}, BeforeLoadFails(r, e)
       PROVE  Advance(r)
  <2> DEFINE v == [x EXCEPT !.bad = x.idx, !.rendered = TRUE]
             z == [x EXCEPT !.bad = x.idx, !.bnf = x.idx,
                           !.gone = ~Known(mem, Current(r))]
  <2>1. \/ run' = [run EXCEPT ![r] = End(v, "redirect")]
        \/ run' = [run EXCEPT ![r] = AfterBefore(z)]
    BY <1>12 DEF BeforeLoadFails
  <2>2. /\ IsRun(z) /\ z.kind = x.kind /\ z.loc = x.loc /\ z.fg = x.fg
        /\ z.bg = x.bg /\ z.rendered = x.rendered /\ Placed(z)
    BY <1>0 DEF IsRun, Placed
  <2>3. /\ IsRun(v) /\ v.kind = x.kind /\ v.loc = x.loc /\ v.fg = x.fg /\ v.bg = x.bg
        /\ Placed(v)
    BY <1>0 DEF IsRun, Placed
  <2> HIDE DEF v, z
  <2>4. InBefore(r, End(v, "redirect")) /\ Placed(End(v, "redirect"))
    BY <1>1, <2>3, EndIs DEF InBefore, SamePlan
  <2> QED BY <1>2, <1>3, <2>1, <2>2, <2>4
<1> QED BY <1>6, <1>7, <1>8, <1>9, <1>10, <1>11, <1>12

-----------------------------------------------------------------------------
\* runLoader goes to its first await or to its end, and rejects neither.
LEMMA LoaderStates ==
  ASSUME NEW s, NEW r, NEW m
  PROVE  /\ AwaitLazy(s, r, m)[2] \in {"lazy", "returned"}
         /\ AwaitErrorChunk(s, r, m)[2] \in {"chunk", "returned"}
         /\ StartLoader(s, r, m)[2] \in {"run", "lazy", "returned"}
<1>1. AwaitLazy(s, r, m)[2] \in {"lazy", "returned"} BY DEF AwaitLazy
<1>2. AwaitErrorChunk(s, r, m)[2] \in {"chunk", "returned"} BY DEF AwaitErrorChunk
<1>3. \A t : AwaitLazy(t, r, m)[2] \in {"lazy", "returned"} BY DEF AwaitLazy
<1>4. StartLoader(s, r, m)[2] \in {"run", "lazy", "returned"} BY <1>3 DEF StartLoader
<1> QED BY <1>1, <1>2, <1>4

LEMMA StartedState ==
  ASSUME NEW m, NEW st
  PROVE  /\ Started(m, st).st = st /\ Started(m, st).at = 0
         /\ At(st).st = st /\ At(st).at = 0
BY DEF Started, At, NoTask

\* handleLoader changes the tasks of its match only.
LEMMA HandleLoaderIs ==
  ASSUME LoadOK, NEW r \in Run, NEW m \in Id, NEW s, NEW p, NEW stale
  PROVE  LET x == run[r]
             y == HandleLoader(s, r, m, p, stale)[2] IN
         /\ SamePlan(x, y) /\ y.pc = x.pc /\ y.idx = x.idx /\ y.res = x.res
         /\ y.rendered = x.rendered /\ (Placed(x) => Placed(y))
         /\ \A n \in Id \ {m} : y.fg[n] = x.fg[n] /\ y.bg[n] = x.bg[n]
         /\ y.fg[m].st \in {"returned", "run", "lazy"}
         /\ GetMatch(s, m).status = "pending" => y.bg[m] = x.bg[m]
<1> DEFINE x == run[r]
           go == StartLoader(s, r, m)
           t  == Started(m, go[2])
           a == [x EXCEPT !.fg[m] = At("returned")]
           b == [x EXCEPT !.bg[m] = t, !.fg[m] = At("returned")]
           c == [x EXCEPT !.fg[m] = t]
           h == HandleLoader(s, r, m, p, stale)
<1>1. IsRun(x) BY RunType DEF RunOK
<1>2. t.st \in {"returned", "run", "lazy"} /\ t.at = 0 BY LoaderStates, StartedState
<1>3. \/ h[2] = a \/ h[2] = c
      \/ h[2] = b /\ GetMatch(s, m).status = "success"
  BY DEF HandleLoader, ShouldReload
<1> HIDE DEF h, t, x
<1>4. At("returned").st = "returned" /\ At("returned").at = 0 BY StartedState
<1>8. 0 <= Len(Path[x.loc]) BY RunType DEF PathOf, x
<1>5. h[2] = a => /\ SamePlan(x, h[2]) /\ h[2].pc = x.pc /\ h[2].idx = x.idx
                  /\ h[2].res = x.res /\ h[2].rendered = x.rendered
                  /\ h[2].nf = x.nf
                  /\ \A n \in Id \ {m} : h[2].fg[n] = x.fg[n] /\ h[2].bg[n] = x.bg[n]
                  /\ h[2].fg[m] = At("returned") /\ h[2].bg[m] = x.bg[m]
  BY <1>1 DEF IsRun, SamePlan
<1>6. h[2] = c => /\ SamePlan(x, h[2]) /\ h[2].pc = x.pc /\ h[2].idx = x.idx
                  /\ h[2].res = x.res /\ h[2].rendered = x.rendered
                  /\ h[2].nf = x.nf
                  /\ \A n \in Id \ {m} : h[2].fg[n] = x.fg[n] /\ h[2].bg[n] = x.bg[n]
                  /\ h[2].fg[m] = t /\ h[2].bg[m] = x.bg[m]
  BY <1>1 DEF IsRun, SamePlan
<1>7. h[2] = b => /\ SamePlan(x, h[2]) /\ h[2].pc = x.pc /\ h[2].idx = x.idx
                  /\ h[2].res = x.res /\ h[2].rendered = x.rendered
                  /\ h[2].nf = x.nf
                  /\ \A n \in Id \ {m} : h[2].fg[n] = x.fg[n] /\ h[2].bg[n] = x.bg[n]
                  /\ h[2].fg[m] = At("returned")
  BY <1>1 DEF IsRun, SamePlan
<1> HIDE DEF a, b, c
<1>9. Placed(x) => Placed(h[2])
  BY <1>2, <1>3, <1>4, <1>5, <1>6, <1>7, <1>8 DEF Placed, SamePlan
<1> QED BY <1>2, <1>3, <1>4, <1>5, <1>6, <1>7, <1>9 DEF h, x

LEMMA HandleLoaderOthers ==
  ASSUME LoadOK, NEW r \in Run, NEW m \in Id, NEW s, NEW p, NEW stale
  PROVE  \A n \in Id \ {m} :
           /\ HandleLoader(s, r, m, p, stale)[2].fg[n] = run[r].fg[n]
           /\ HandleLoader(s, r, m, p, stale)[2].bg[n] = run[r].bg[n]
BY HandleLoaderIs

LEMMA LaunchAdvances ==
  ASSUME LoadOK, NEW r \in Run, Placed(run[r]),
         SkipLoader(r) \/ WaitLoader(r) \/ StartTask(r) \/ LaunchedAll(r)
  PROVE  Advance(r)
<1> DEFINE x == run[r]
<1>0. IsRun(x) BY RunType DEF RunOK
<1>1. ASSUME NEW y, run' = [run EXCEPT ![r] = y], Launches(r, y), Placed(y)
      PROVE  Advance(r)
  BY <1>1 DEF Advance
<1>6. 0 <= Len(Path[x.loc]) BY RunType DEF PathOf
<1>2. CASE SkipLoader(r)
  <2>1. PICK m \in Id :
          /\ NextTask(r, m)
          /\ run' = [run EXCEPT ![r] = [x EXCEPT !.fg[m] = At("ok"), !.idx = x.idx + 1]]
    BY <1>2 DEF SkipLoader
  <2> DEFINE y == [x EXCEPT !.fg[m] = At("ok"), !.idx = x.idx + 1]
  <2>2. At("ok").st = "ok" /\ At("ok").at = 0 BY StartedState
  <2>3. Launches(r, y)
    BY <1>0, <2>1, <2>2 DEF Launches, SamePlan, NextTask, InLoaders, IsRun
  <2>4. Placed(y) BY <1>0, <1>6, <2>2 DEF Placed, IsRun
  <2> HIDE DEF y
  <2> QED BY <1>1, <2>1, <2>3, <2>4 DEF y
<1>3. CASE WaitLoader(r)
  <2>1. PICK m \in Id : \E t :
          /\ NextTask(r, m) /\ t.st = "wait" /\ t.at = 0
          /\ run' = [run EXCEPT ![r] = [x EXCEPT !.idx = x.idx + 1, !.fg[m] = t]]
    <3>1. PICK m \in Id :
            /\ NextTask(r, m)
            /\ run' = [run EXCEPT ![r] = [x EXCEPT !.idx = x.idx + 1,
                 !.fg[m] = [NoTask EXCEPT !.st = "wait",
                              !.preload = Preloading(mem, r, m),
                              !.key = mem.bag[m][GetMatch(mem, m).obj].loaderP]]]
      BY <1>3 DEF WaitLoader
    <3> DEFINE t == [NoTask EXCEPT !.st = "wait", !.preload = Preloading(mem, r, m),
                       !.key = mem.bag[m][GetMatch(mem, m).obj].loaderP]
    <3>2. t.st = "wait" /\ t.at = 0 BY DEF NoTask
    <3>3. run' = [run EXCEPT ![r] = [x EXCEPT !.idx = x.idx + 1, !.fg[m] = t]]
      BY <3>1
    <3> HIDE DEF t
    <3> QED BY <3>1, <3>2, <3>3
  <2>2. PICK t :
          /\ t.st = "wait" /\ t.at = 0
          /\ run' = [run EXCEPT ![r] = [x EXCEPT !.idx = x.idx + 1, !.fg[m] = t]]
    BY <2>1
  <2> DEFINE y == [x EXCEPT !.idx = x.idx + 1, !.fg[m] = t]
  <2>3. Launches(r, y)
    BY <1>0, <2>1, <2>2 DEF Launches, SamePlan, NextTask, InLoaders, IsRun
  <2>4. Placed(y) BY <1>0, <1>6, <2>2 DEF Placed, IsRun
  <2> HIDE DEF y
  <2> QED BY <1>1, <2>2, <2>3, <2>4 DEF y
<1>4. CASE StartTask(r)
  <2>1. PICK m \in Id : NextTask(r, m) /\ \E s, p, stale :
          run' = [run EXCEPT ![r] = [HandleLoader(s, r, m, p, stale)[2]
                                      EXCEPT !.idx = x.idx + 1]]
    <3> HIDE DEF x
    <3>1. PICK m \in Id, stale \in BOOLEAN :
            LET o  == GetMatch(mem, m).obj
                s1 == Lock(mem, m, o, r)
                p  == Preloading(mem, r, m)
                s2 == IF p = GetMatch(mem, m).preload THEN s1
                      ELSE Update(s1, r, m, [Stored(s1, m) EXCEPT !.preload = p])
                h  == HandleLoader(s2, r, m, p, stale) IN
            /\ NextTask(r, m)
            /\ run' = [run EXCEPT ![r] = [h[2] EXCEPT !.idx = run[r].idx + 1]]
      BY <1>4 DEF StartTask
    <3> QED BY <3>1 DEF x
  <2>2. PICK s, p, stale :
          run' = [run EXCEPT ![r] = [HandleLoader(s, r, m, p, stale)[2]
                                      EXCEPT !.idx = x.idx + 1]]
    BY <2>1
  <2> DEFINE h == HandleLoader(s, r, m, p, stale)[2]
             y == [h EXCEPT !.idx = x.idx + 1]
  <2>3. /\ SamePlan(x, h) /\ h.pc = x.pc /\ h.rendered = x.rendered
        /\ \A n \in Id \ {m} : h.fg[n] = x.fg[n] /\ h.bg[n] = x.bg[n]
        /\ h.fg[m].st \in {"returned", "run", "lazy"} /\ Placed(h)
    BY HandleLoaderIs
  <2>4. DOMAIN h = DOMAIN x BY DEF HandleLoader
  <2> HIDE DEF h
  <2>5. "idx" \in DOMAIN h /\ x.idx \in Nat BY <1>0, <2>4 DEF IsRun
  <2>6. Launches(r, y)
    BY <2>1, <2>3, <2>5 DEF Launches, SamePlan, NextTask, InLoaders
  <2>7. Placed(y) BY <2>3, <2>5 DEF Placed
  <2> HIDE DEF y
  <2> QED BY <1>1, <2>2, <2>6, <2>7 DEF y, h
<1>5. CASE LaunchedAll(r)
  <2> DEFINE y == [x EXCEPT !.pc = "settle"]
  <2>1. run' = [run EXCEPT ![r] = y] /\ x.pc = "loaders"
    BY <1>5 DEF LaunchedAll, InLoaders
  <2>2. Finishes(r, y) /\ Placed(y)
    BY <1>0, <2>1 DEF Finishes, SamePlan, IsRun, Placed
  <2> HIDE DEF y
  <2> QED BY <2>1, <2>2 DEF Advance
<1> QED BY <1>2, <1>3, <1>4, <1>5

-----------------------------------------------------------------------------
LEMMA MoveAdvances ==
  ASSUME LoadOK, NEW r \in Run, Placed(run[r]), NEW k \in {"fg", "bg"}, NEW m \in Id, NEW st,
         Move(r, k, m, st), run[r][k][m].st \notin Ended \cup {"none"},
         st = "crash" => ~Known(mem, m)
  PROVE  Advance(r)
<1> DEFINE x == run[r]
           y == [x EXCEPT ![k][m] = At(st)]
<1>1. IsRun(x) BY RunType DEF RunOK
<1>2. run' = [run EXCEPT ![r] = y] BY DEF Move
<1>3. At(st).st = st /\ At(st).at = 0 BY StartedState
<1>4. k = "fg" \/ k = "bg" OBVIOUS
<1>5. Works(r, k, m, y) BY <1>1, <1>3, <1>4 DEF Works, SamePlan, IsRun
<1>6. 0 <= Len(Path[x.loc]) BY RunType DEF PathOf
<1>7. Placed(y) BY <1>1, <1>3, <1>4, <1>6 DEF Placed, IsRun
<1> HIDE DEF y
<1> QED BY <1>2, <1>5, <1>7 DEF Advance

LEMMA RejectAdvances ==
  ASSUME LoadOK, NEW r \in Run, Placed(run[r]), NEW k \in {"fg", "bg"}, NEW m \in Id,
         NEW e \in {"redirect", "notFound"}, Reject(r, k, m, e),
         run[r][k][m].st \notin Ended \cup {"none"}
  PROVE  Advance(r)
<1> DEFINE x == run[r]
           at == IF Known(mem, m)
                 THEN CHOOSE i \in 1..Len(PathOf(r)) : PathOf(r)[i] = m ELSE 0
           t  == [NoTask EXCEPT !.at = at,
                    !.st = IF k = "bg" /\ e = "notFound" THEN "ok" ELSE e]
           y  == [x EXCEPT !.rendered = x.rendered \/ RenderedBy(e), ![k][m] = t]
<1>1. IsRun(x) BY RunType DEF RunOK
<1>2. run' = [run EXCEPT ![r] = y] BY DEF Reject
<1>3. t.st # "crash" /\ (e = "redirect" => t.st = "redirect") /\ t.at = at
  BY DEF NoTask
<1>7. at \in Nat /\ at <= Len(Path[x.loc])
  <2>1. Len(Path[x.loc]) \in Nat BY RunType DEF PathOf
  <2>2. m \in PathIds(x.loc)
    <3>1. x.fg[m].st # "none" \/ x.bg[m].st # "none" OBVIOUS
    <3> QED BY <3>1, RunType DEF RunOK, InPath
  <2>3. \E i \in 1..Len(PathOf(r)) : PathOf(r)[i] = m BY <2>2 DEF PathIds, PathOf
  <2>4. at = 0 \/ at \in 1..Len(Path[x.loc]) BY <2>3 DEF PathOf
  <2> HIDE DEF at, x
  <2> QED BY <2>1, <2>4
<1>4. e # "redirect" => (x.rendered \/ RenderedBy(e)) = x.rendered
  BY <1>1 DEF RenderedBy, IsRun
<1> HIDE DEF t
<1>5. k = "fg" \/ k = "bg" OBVIOUS
<1> HIDE DEF at
<1>6. Works(r, k, m, y) BY <1>1, <1>3, <1>4, <1>5 DEF Works, SamePlan, IsRun
<1>8. Placed(y) BY <1>1, <1>3, <1>5, <1>7 DEF Placed, IsRun
<1> HIDE DEF y
<1> QED BY <1>2, <1>6, <1>8 DEF Advance

LEMMA TaskAdvances ==
  ASSUME LoadOK, NEW r \in Run, Placed(run[r]), NEW k \in {"fg", "bg"}, NEW m \in Id,
         \/ LoaderReturns(r, k, m) \/ LoaderThrows(r, k, m) \/ LoaderAborts(r, k, m)
         \/ \E e \in {"redirect", "notFound"} : LoaderFails(r, k, m, e)
         \/ LazyArrives(r, k, m) \/ ErrorChunkArrives(r, k, m)
         \/ WakeLoader(r, m) \/ FinishTask(r, m) \/ FinishBackground(r, m)
  PROVE  Advance(r)
<1>1. ASSUME NEW s, run[r][k][m].st \in {"run", "lazy", "chunk"},
             \/ Continue(r, k, m, AwaitLazy(s, r, m))
             \/ Continue(r, k, m, AwaitErrorChunk(s, r, m))
      PROVE  Advance(r)
  <2>1. PICK st \in {"lazy", "chunk", "returned"} : Move(r, k, m, st)
    BY <1>1, LoaderStates DEF Continue
  <2> QED BY <1>1, <2>1, MoveAdvances DEF Ended
<1>2. CASE LoaderReturns(r, k, m)
  <2>1. \E s : Continue(r, k, m, AwaitLazy(s, r, m)) BY <1>2 DEF LoaderReturns
  <2> QED BY <1>1, <1>2, <2>1 DEF LoaderReturns
<1>3. CASE LoaderThrows(r, k, m) BY <1>1, <1>3 DEF LoaderThrows
<1>4. CASE LoaderAborts(r, k, m)
  <2>1. Move(r, k, m, "returned") /\ run[r][k][m].st = "run"
    BY <1>4 DEF LoaderAborts, Continue
  <2> QED BY <2>1, MoveAdvances DEF Ended
<1>5. ASSUME NEW e \in {"redirect", "notFound"}, LoaderFails(r, k, m, e)
      PROVE  Advance(r)
  BY <1>5, RejectAdvances DEF LoaderFails, Ended
<1>6. CASE LazyArrives(r, k, m) BY <1>1, <1>6 DEF LazyArrives
<1>7. CASE ErrorChunkArrives(r, k, m) BY <1>1, <1>7 DEF ErrorChunkArrives
<1>8. CASE WakeLoader(r, m)
  <2>0. run[r]["fg"][m].st \notin Ended \cup {"none"} BY <1>8 DEF WakeLoader, Ended
  <2>1. \/ ~Known(mem, m) /\ Move(r, "fg", m, "crash")
        \/ Move(r, "fg", m, "redirect")
        \/ Reject(r, "fg", m, "notFound")
        \/ /\ GetMatch(mem, m).status = "pending"
           /\ \E p, stale : run' = [run EXCEPT ![r] = HandleLoader(mem, r, m, p, stale)[2]]
        \/ Move(r, "fg", m, "ok")
    BY <1>8 DEF WakeLoader
  <2>2. CASE /\ GetMatch(mem, m).status = "pending"
             /\ \E p, stale : run' = [run EXCEPT ![r] = HandleLoader(mem, r, m, p, stale)[2]]
    <3>0. PICK p, stale : run' = [run EXCEPT ![r] = HandleLoader(mem, r, m, p, stale)[2]]
      BY <2>2
    <3> DEFINE x == run[r]
               y == HandleLoader(mem, r, m, p, stale)[2]
    <3>1. /\ SamePlan(x, y) /\ y.pc = x.pc /\ y.idx = x.idx /\ y.res = x.res
          /\ y.rendered = x.rendered /\ Placed(y)
          /\ \A n \in Id \ {m} : y.fg[n] = x.fg[n] /\ y.bg[n] = x.bg[n]
          /\ y.fg[m].st \in {"returned", "run", "lazy"}
          /\ GetMatch(mem, m).status = "pending" => y.bg[m] = x.bg[m]
      BY HandleLoaderIs
    <3> HIDE DEF y
    <3>2. \A j \in {"fg", "bg"}, n \in Id :
            <<j, n>> # <<"fg", m>> => y[j][n] = x[j][n]
      BY <2>2, <3>1
    <3>3. Works(r, "fg", m, y) BY <2>0, <3>1, <3>2 DEF Works
    <3> QED BY <3>0, <3>1, <3>3 DEF Advance, y
  <2> QED BY <2>0, <2>1, <2>2, MoveAdvances, RejectAdvances
<1>9. CASE FinishTask(r, m)
  <2>1. \/ Move(r, "fg", m, "ok")
        \/ ~Known(mem, m) /\ Move(r, "fg", m, "crash")
    BY <1>9 DEF FinishTask
  <2>2. run[r]["fg"][m].st \notin Ended \cup {"none"} BY <1>9 DEF FinishTask, Ended
  <2> QED BY <2>1, <2>2, MoveAdvances
<1>10. CASE FinishBackground(r, m)
  <2>1. Move(r, "bg", m, "ok") /\ run[r]["bg"][m].st = "returned"
    BY <1>10 DEF FinishBackground
  <2> QED BY <2>1, MoveAdvances DEF Ended
<1> QED BY <1>2, <1>3, <1>4, <1>5, <1>6, <1>7, <1>8, <1>9, <1>10

-----------------------------------------------------------------------------
LEMMA PathsAreIds ==
  ASSUME LoadOK, NEW r \in Run, NEW i \in 1..Len(PathOf(r))
  PROVE  PathOf(r)[i] \in Id /\ RouteOf[PathOf(r)[i]] \in Route
<1>1. PathOf(r)[i] \in Id BY PathMember
<1> QED BY <1>1, PathAssumption

LEMMA TasksAreIds ==
  ASSUME LoadOK, NEW r \in Run
  PROVE  Tasks(r) = {PathOf(r)[i] : i \in 1..LoaderCount(r)} /\ Tasks(r) \subseteq Id
<1>1. \A i \in 1..LoaderCount(r) : i \in 1..Len(PathOf(r))
  BY LoaderCountType, RunType
<1> QED BY <1>1, PathsAreIds DEF Tasks

LEMMA ThenErrorIs ==
  ASSUME LoadOK, NEW r \in Run, NEW s, ThenError(r, s, run[r])
  PROVE  \E pc \in {"errChunk", "ready"} :
           /\ run' = [run EXCEPT ![r] = [run[r] EXCEPT !.pc = pc]]
           /\ pc = "errChunk" => run[r].serial
BY DEF ThenError

\* A notFound is shown by a match of the path.
LEMMA BoundaryInPath ==
  ASSUME LoadOK, NEW r \in Run, NEW at \in Nat, at <= Len(PathOf(r))
  PROVE  Boundary(r, at) \in 1..Len(PathOf(r))
<1> DEFINE from == IF at # 0 THEN at
                   ELSE IF run[r].bad # 0 THEN run[r].bad ELSE Len(PathOf(r))
           S == {i \in 1..from : RouteOf[PathOf(r)[i]] \in NotFoundRoutes}
<1>1. from \in 1..Len(PathOf(r)) BY RunType
<1>2. Boundary(r, at) = IF S # {} THEN CHOOSE i \in S : \A j \in S : j <= i
                        ELSE IF at # 0 THEN from ELSE 1
  BY DEF Boundary
<1>3. CASE S # {}
  <2>1. from \in Nat /\ S \in SUBSET (1..from) BY <1>1
  <2> HIDE DEF S, from
  <2>2. \E i \in S : \A j \in S : j <= i BY <1>3, <2>1, MaxExists
  <2>3. Boundary(r, at) \in S BY <1>2, <1>3, <2>2
  <2>4. \A n \in Nat : from <= n => \A i \in 1..from : i \in 1..n BY <2>1
  <2>5. Len(PathOf(r)) \in Nat /\ from <= Len(PathOf(r)) BY <1>1, RunType DEF from
  <2>6. \A i \in S : i \in 1..Len(PathOf(r)) BY <2>1, <2>4, <2>5
  <2> QED BY <2>3, <2>6
<1>4. CASE S = {} BY <1>1, <1>2, <1>4
<1> QED BY <1>3, <1>4

LEMMA NotFoundInPath ==
  ASSUME LoadOK, NEW r \in Run, Placed(run[r]), NotFoundAt(r) # 0
  PROVE  NotFoundAt(r) \in 1..Len(PathOf(r))
<1> DEFINE R == Rejections(r, "notFound")
           k == CHOOSE i \in R : \A j \in R : i <= j
           at == run[r].fg[PathOf(r)[k]].at
<1>0. Len(PathOf(r)) \in Nat BY RunType
<1>1. NotFoundAt(r) = IF R # {} THEN Boundary(r, at)
                      ELSE IF run[r].bnf # 0 /\ ~IsPreload(r)
                           THEN BeforeBoundary(r) ELSE 0
  BY DEF NotFoundAt
<1>2. CASE R # {}
  <2>1. R \in SUBSET Nat BY LoaderCountType DEF Rejections
  <2>2. \E i \in R : \A j \in R : i <= j
    <3> HIDE DEF R
    <3> QED BY <1>2, <2>1, MinExists
  <2>3. k \in R BY <2>2
  <2> HIDE DEF k
  <2>4. k \in 1..Len(PathOf(r)) BY <2>3, LoaderCountType, RunType DEF Rejections
  <2>5. PathOf(r)[k] \in Id BY <2>4, PathsAreIds
  <2>6. at \in Nat BY <2>5, RunType DEF Task
  <2>7. at <= Len(PathOf(r)) BY <2>5 DEF Placed, PathOf
  <2> HIDE DEF at
  <2> QED BY <1>1, <1>2, <2>6, <2>7, BoundaryInPath
<1>3. CASE R = {}
  <2> DEFINE at2 == IF run[r].gone THEN 0 ELSE run[r].bnf
  <2>1. at2 \in Nat /\ at2 <= Len(PathOf(r)) BY <1>0, RunType DEF Placed, PathOf
  <2>2. NotFoundAt(r) = Boundary(r, at2) BY <1>1, <1>3 DEF BeforeBoundary
  <2> HIDE DEF at2
  <2> QED BY <2>1, <2>2, BoundaryInPath
<1> QED BY <1>2, <1>3

LEMMA SettleAdvances ==
  ASSUME LoadOK, NEW r \in Run, Placed(run[r]),
         Settle(r) \/ NotFoundChunkArrives(r) \/ SerialChunkArrives(r)
  PROVE  Advance(r)
<1> DEFINE x == run[r]
<1>0. IsRun(x) BY RunType DEF RunOK
<1>1. ASSUME NEW y, run' = [run EXCEPT ![r] = y], Finishes(r, y), Placed(y)
      PROVE  Advance(r)
  BY <1>1 DEF Advance
<1>2. \A pc \in {"errChunk", "ready"} : LET y == [x EXCEPT !.pc = pc] IN
        /\ SamePlan(x, y) /\ y.fg = x.fg /\ y.bg = x.bg /\ y.rendered = x.rendered
        /\ y.pc = pc
        /\ (pc = "errChunk" => x.serial) => Placed(y)
  BY <1>0 DEF IsRun, SamePlan, Placed
<1>3. CASE Settle(r)
  <2> DEFINE b == NotFoundAt(r)
  <2>0. x.pc = "settle" /\ AllSettled(r) BY <1>3 DEF Settle
  <2>1. \/ run' = [run EXCEPT ![r] = End(x, "redirect")]
        \/ /\ run' = [run EXCEPT ![r] = End(x, "error")]
           /\ Rejections(r, "crash") # {}
        \/ /\ run' = [run EXCEPT ![r] = [x EXCEPT !.pc = "nfChunk", !.nf = b]]
           /\ Rejections(r, "redirect") = {} /\ b # 0
        \/ /\ \E s : ThenError(r, s, x)
           /\ Rejections(r, "redirect") = {}
    BY <1>3 DEF Settle
  <2>2. Rejections(r, "crash") # {} => \E m \in Id : x.fg[m].st = "crash"
    BY TasksAreIds DEF Rejections, Tasks
  <2>3. Rejections(r, "redirect") = {} => \A m \in Tasks(r) : x.fg[m].st # "redirect"
    BY DEF Rejections, Tasks
  <2>4. Finishes(r, End(x, "redirect")) /\ Placed(End(x, "redirect"))
    BY <1>0, <2>0, EndIs DEF Finishes
  <2>5. /\ Rejections(r, "crash") # {} => Finishes(r, End(x, "error"))
        /\ Placed(End(x, "error"))
    BY <1>0, <2>0, <2>2, EndIs DEF Finishes
  <2>6. CASE /\ run' = [run EXCEPT ![r] = [x EXCEPT !.pc = "nfChunk", !.nf = b]]
             /\ Rejections(r, "redirect") = {} /\ b # 0
    <3>0. b \in 1..Len(Path[x.loc]) BY <2>6, NotFoundInPath DEF PathOf
    <3> HIDE DEF b
    <3> DEFINE y == [x EXCEPT !.pc = "nfChunk", !.nf = b]
    <3>1. /\ SamePlan(x, y) /\ y.fg = x.fg /\ y.bg = x.bg /\ y.rendered = x.rendered
          /\ y.pc = "nfChunk" /\ Placed(y)
      BY <1>0, <3>0 DEF IsRun, SamePlan, Placed
    <3> HIDE DEF y
    <3>2. Finishes(r, y) BY <2>0, <2>3, <2>6, <3>1 DEF Finishes
    <3> QED BY <1>1, <2>6, <3>1, <3>2 DEF y
  <2>7. CASE (\E s : ThenError(r, s, x)) /\ Rejections(r, "redirect") = {}
    <3>1. PICK pc \in {"errChunk", "ready"} :
            /\ run' = [run EXCEPT ![r] = [x EXCEPT !.pc = pc]]
            /\ pc = "errChunk" => x.serial
      BY <2>7, ThenErrorIs
    <3> DEFINE y == [x EXCEPT !.pc = pc]
    <3>2. Finishes(r, y) /\ Placed(y) BY <1>2, <2>0, <2>3, <2>7, <3>1 DEF Finishes
    <3> HIDE DEF y
    <3> QED BY <1>1, <3>1, <3>2 DEF y
  <2> QED BY <1>1, <2>1, <2>4, <2>5, <2>6, <2>7
<1>4. CASE NotFoundChunkArrives(r) \/ SerialChunkArrives(r)
  <2>1. x.pc \in {"nfChunk", "errChunk"}
    BY <1>4 DEF NotFoundChunkArrives, SerialChunkArrives
  <2>2. \/ \E pc \in {"errChunk", "ready"} :
             /\ run' = [run EXCEPT ![r] = [x EXCEPT !.pc = pc]]
             /\ pc = "errChunk" => x.serial
        \/ /\ run' = [run EXCEPT ![r] = End(x, "error")]
           /\ \E i \in {x.nf, x.bad} : /\ i \in 1..Len(PathOf(r))
                                       /\ mem.lazy[RouteOf[PathOf(r)[i]]] = "failed"
    <3>1. CASE NotFoundChunkArrives(r)
      <4>1. x.nf \in 1..Len(PathOf(r)) BY <3>1 DEF NotFoundChunkArrives, Placed, PathOf
      <4> QED BY <3>1, <4>1, ThenErrorIs DEF NotFoundChunkArrives
    <3>2. CASE SerialChunkArrives(r)
      <4>1. x.bad \in 1..Len(PathOf(r))
        BY <3>2, RunType DEF SerialChunkArrives, Placed
      <4>2. \/ run' = [run EXCEPT ![r] = [x EXCEPT !.pc = "ready"]]
            \/ /\ run' = [run EXCEPT ![r] = End(x, "error")]
               /\ mem.lazy[RouteOf[PathOf(r)[x.bad]]] = "failed"
        BY <3>2 DEF SerialChunkArrives
      <4> QED BY <4>1, <4>2
    <3> QED BY <1>4, <3>1, <3>2
  <2>3. CASE \E pc \in {"errChunk", "ready"} :
               /\ run' = [run EXCEPT ![r] = [x EXCEPT !.pc = pc]]
               /\ pc = "errChunk" => x.serial
    <3>1. PICK pc \in {"errChunk", "ready"} :
            /\ run' = [run EXCEPT ![r] = [x EXCEPT !.pc = pc]]
            /\ pc = "errChunk" => x.serial
      BY <2>3
    <3> DEFINE y == [x EXCEPT !.pc = pc]
    <3>2. Finishes(r, y) /\ Placed(y) BY <1>2, <2>1, <3>1 DEF Finishes
    <3> HIDE DEF y
    <3> QED BY <1>1, <3>1, <3>2 DEF y
  <2>4. CASE /\ run' = [run EXCEPT ![r] = End(x, "error")]
             /\ \E i \in {x.nf, x.bad} : /\ i \in 1..Len(PathOf(r))
                                         /\ mem.lazy[RouteOf[PathOf(r)[i]]] = "failed"
    <3>1. \E rt \in Route : mem.lazy[rt] = "failed" BY <2>4, PathsAreIds
    <3>2. Finishes(r, End(x, "error")) /\ Placed(End(x, "error"))
      BY <1>0, <2>1, <3>1, EndIs DEF Finishes
    <3> QED BY <1>1, <2>4, <3>2
  <2> QED BY <2>2, <2>3, <2>4
<1> QED BY <1>3, <1>4

\* onReady commits, or queues a view transition that will.
LEMMA OnReadyWaits ==
  ASSUME NEW s, IsMemory(s), NEW l \in Loc, Sound(s, l), NEW old
  PROVE  OnReady(s, old).isLoading => OnReady(s, old).commits # 0
<1>1. CASE ViewTransition
  <2>1. s.commits + 1 # 0 /\ "commits" \in DOMAIN s BY DEF IsMemory
  <2>2. OnReady(s, old) = [s EXCEPT !.commits = s.commits + 1] BY <1>1 DEF OnReady
  <2> QED BY <2>1, <2>2
<1>2. CASE ~ViewTransition
  <2>1. OnReady(s, old) = [Commit(s, old) EXCEPT !.isLoading = FALSE]
    BY <1>2 DEF OnReady
  <2> QED BY <2>1, CommitSound
<1> QED BY <1>1, <1>2

\* A run that has not committed before does so now.
LEMMA ReadyAdvances ==
  ASSUME LoadOK, NEW r \in Run, Placed(run[r]), Sound(mem, latest), latest \in Loc,
         Ready(r)
  PROVE  Advance(r)
<1> DEFINE x == run[r]
           v == [x EXCEPT !.rendered = TRUE]
<1>0. IsRun(x) /\ IsMemory(mem) BY RunType DEF RunOK
<1>1. PICK old \in Aged, res \in {"notFound", "ok"} :
        /\ x.pc = "ready" /\ run' = [run EXCEPT ![r] = End(v, res)]
        /\ mem' = IF IsPreload(r) \/ x.rendered THEN mem ELSE OnReady(mem, old)
  BY DEF Ready
<1> DEFINE y == End(v, res)
<1>2. IsRun(v) /\ SamePlan(x, v) /\ v.fg = x.fg /\ v.bg = x.bg /\ Placed(v)
  BY <1>0 DEF IsRun, SamePlan, Placed
<1> HIDE DEF v
<1>3. SamePlan(x, y) /\ y.fg = x.fg /\ y.bg = x.bg /\ Placed(y) /\ y.pc = "end"
  BY <1>2, EndIs DEF SamePlan
<1>4. x.rendered \/ x.kind = "preload" \/ (mem'.isLoading => mem'.commits # 0)
  <2> SUFFICES ASSUME ~x.rendered, x.kind # "preload"
               PROVE  mem'.isLoading => mem'.commits # 0
    OBVIOUS
  <2>1. mem' = OnReady(mem, old) BY <1>1 DEF IsPreload
  <2> QED BY <1>0, <2>1, OnReadyWaits
<1> HIDE DEF y
<1>5. Readies(r, y) BY <1>1, <1>3, <1>4 DEF Readies
<1> QED BY <1>1, <1>3, <1>5 DEF Advance, y

\* Every step of a run is one of the five kinds.
LEMMA StepAdvances ==
  ASSUME LoadOK, NEW r \in Run, Placed(run[r]), Sound(mem, latest), latest \in Loc,
         UserResult(r) \/ Continuation(r)
  PROVE  Advance(r)
<1>1. \/ SkipBeforeLoad(r) \/ WaitBeforeLoad(r) \/ StartBeforeLoad(r)
      \/ WakeBeforeLoad(r) \/ BeforeLoadReturns(r) \/ BeforeLoadThrows(r)
      \/ \E e \in {"redirect", "notFound"} : BeforeLoadFails(r, e)
      \/ SkipLoader(r) \/ WaitLoader(r) \/ StartTask(r) \/ LaunchedAll(r)
      \/ \E k \in {"fg", "bg"}, m \in Id :
           \/ LoaderReturns(r, k, m) \/ LoaderThrows(r, k, m) \/ LoaderAborts(r, k, m)
           \/ \E e \in {"redirect", "notFound"} : LoaderFails(r, k, m, e)
           \/ LazyArrives(r, k, m) \/ ErrorChunkArrives(r, k, m)
           \/ WakeLoader(r, m) \/ FinishTask(r, m) \/ FinishBackground(r, m)
      \/ Settle(r) \/ NotFoundChunkArrives(r) \/ SerialChunkArrives(r) \/ Ready(r)
  BY DEF UserResult, Continuation
<1> QED BY <1>1, BeforeAdvances, LaunchAdvances, TaskAdvances, SettleAdvances,
           ReadyAdvances

-----------------------------------------------------------------------------
(* Every run is at some stage *)

LEMMA SameTasks ==
  ASSUME NEW r \in Run, run'[r].loc = run[r].loc, run'[r].kind = run[r].kind,
         run'[r].bad = run[r].bad, run'[r].bnf = run[r].bnf,
         run'[r].gone = run[r].gone
  PROVE  /\ PathOf(r)' = PathOf(r) /\ LoaderCount(r)' = LoaderCount(r)
         /\ Tasks(r)' = Tasks(r)
<1>1. PathOf(r)' = PathOf(r) /\ IsPreload(r)' = IsPreload(r) BY DEF PathOf, IsPreload
<1>2. Unfailed(r)' = Unfailed(r) BY <1>1 DEF Unfailed
<1>3. \A at : Boundary(r, at)' = Boundary(r, at) BY <1>1 DEF Boundary
<1>4. BeforeBoundary(r)' = BeforeBoundary(r) BY <1>3 DEF BeforeBoundary
<1>5. LoaderCount(r)' = LoaderCount(r) BY <1>1, <1>2, <1>4 DEF LoaderCount
<1> QED BY <1>1, <1>5 DEF Tasks

LEMMA StageSame ==
  ASSUME NEW r \in Run, run'[r] = run[r], Stage(r)
  PROVE  Stage(r)'
<1>1. /\ PathOf(r)' = PathOf(r) /\ Tasks(r)' = Tasks(r) BY SameTasks
<1> QED BY <1>1 DEF Stage, Placed

\* The match the serial phase or the launching loop is at has no task.
LEMMA CurrentFresh ==
  ASSUME LoadOK, NEW r \in Run, Stage(r), run[r].pc = "loaders",
         run[r].idx <= LoaderCount(r)
  PROVE  /\ run[r].idx \in 1..Len(PathOf(r)) /\ Current(r) \in Tasks(r)
         /\ run[r].fg[Current(r)].st = "none" /\ run[r].bg[Current(r)].st = "none"
<1>1. run[r].idx \in Nat \ {0} /\ LoaderCount(r) \in Nat /\ Len(PathOf(r)) \in Nat
      /\ LoaderCount(r) <= Len(PathOf(r))
  BY RunType, LoaderCountType
<1> QED BY <1>1 DEF Stage, Current, Tasks

LEMMA StageKept ==
  ASSUME LoadOK, NEW r \in Run, Stage(r), Advance(r)
  PROVE  Stage(r)'
<1> DEFINE x == run[r]
<1>1. PICK y : /\ run' = [run EXCEPT ![r] = y] /\ Placed(y)
               /\ \/ InBefore(r, y) \/ Launches(r, y)
                  \/ \E k \in {"fg", "bg"}, m \in Id : Works(r, k, m, y)
                  \/ Finishes(r, y) \/ Readies(r, y)
  BY DEF Advance
<1>2. run'[r] = y BY <1>1 DEF LoadOK, RunsOK
<1>3. CASE InBefore(r, y)
  <2>0. x.kind # "free" /\ y.kind = x.kind BY <1>3 DEF InBefore, Stage, BeforePC
  <2>1. \A m \in Id : y.fg[m].st = "none" /\ y.bg[m].st = "none"
    BY <1>3 DEF InBefore, Stage
  <2>2. PathOf(r)' = PathOf(r) BY <1>2, <1>3 DEF InBefore, PathOf
  <2>3. y.pc = "loaders" => y.idx = 1 BY <1>3 DEF InBefore, BeforePC
  <2>4. \A i \in 1..Len(PathOf(r)) : PathOf(r)[i] \in Id BY PathsAreIds
  <2> QED BY <1>1, <1>2, <2>0, <2>1, <2>2, <2>3, <2>4 DEF Stage
<1>4. SamePlan(x, y) => /\ PathOf(r)' = PathOf(r) /\ Tasks(r)' = Tasks(r)
  BY <1>2, SameTasks DEF SamePlan
<1>5. CASE Launches(r, y)
  <2>1. /\ x.idx \in 1..Len(PathOf(r)) /\ Current(r) \in Tasks(r)
        /\ x.pc = "loaders" /\ y.pc = "loaders" /\ y.idx = x.idx + 1
        /\ \A m \in Id \ {Current(r)} : y.fg[m] = x.fg[m] /\ y.bg[m] = x.bg[m]
    BY <1>5, CurrentFresh DEF Launches
  <2>2. \A i \in y.idx..Len(PathOf(r)) :
          y.fg[PathOf(r)[i]].st = "none" /\ y.bg[PathOf(r)[i]].st = "none"
    <3> SUFFICES ASSUME NEW i \in y.idx..Len(PathOf(r))
                 PROVE  y.fg[PathOf(r)[i]].st = "none" /\ y.bg[PathOf(r)[i]].st = "none"
      OBVIOUS
    <3>1. i \in 1..Len(PathOf(r)) /\ i # x.idx /\ i \in x.idx..Len(PathOf(r)) BY <2>1
    <3>2. PathOf(r)[i] \in Id /\ PathOf(r)[i] # PathOf(r)[x.idx]
      BY <2>1, <3>1, PathsAreIds, RunType, PathAssumption DEF PathOf
    <3> QED BY <2>1, <3>1, <3>2 DEF Stage, Current
  <2>3. \A m \in Id : y.fg[m].st # "none" => m \in Tasks(r) BY <2>1 DEF Stage
  <2>4. x.kind # "free" BY <2>1 DEF Stage
  <2> QED BY <1>1, <1>2, <1>4, <1>5, <2>1, <2>2, <2>3, <2>4
          DEF Stage, Launches, SamePlan, BeforePC
<1>6. ASSUME NEW k \in {"fg", "bg"}, NEW m \in Id, Works(r, k, m, y)
      PROVE  Stage(r)'
  <2>1. /\ x[k][m].st \notin Ended \cup {"none"} /\ y.pc = x.pc /\ y.idx = x.idx
        /\ \A j \in {"fg", "bg"}, n \in Id : <<j, n>> # <<k, m>> => y[j][n] = x[j][n]
    BY <1>6 DEF Works
  <2>2. \A n \in Id : n # m => y.fg[n] = x.fg[n] /\ y.bg[n] = x.bg[n]
    BY <2>1
  <2>3. k = "bg" => y.fg[m] = x.fg[m] BY <2>1
  <2>4. k = "fg" => y.bg[m] = x.bg[m] BY <2>1
  <2>5. x.pc \notin BeforePC \cup {"idle"} /\ x.kind # "free" /\ y.kind = x.kind
    BY <1>6, <2>1 DEF Stage, Works, SamePlan
  <2>6. x.pc \in {"nfChunk", "errChunk", "ready", "end", "done"} => k = "bg" BY <2>1 DEF Stage
  <2>7. k = "fg" => m \in Tasks(r) BY <2>1 DEF Stage
  <2>8. x.pc = "loaders" => \A i \in x.idx..Len(PathOf(r)) :
          PathOf(r)[i] # m /\ PathOf(r)[i] \in Id
    <3>1. x.idx \in Nat \ {0} /\ Len(PathOf(r)) \in Nat BY RunType
    <3>2. \A i \in x.idx..Len(PathOf(r)) : i \in 1..Len(PathOf(r)) BY <3>1
    <3> QED BY <2>1, <3>2, PathsAreIds DEF Stage
  <2>9. PathOf(r)' = PathOf(r) /\ Tasks(r)' = Tasks(r) BY <1>4, <1>6 DEF Works
  <2> HIDE DEF x
  <2>10. \A n \in Id : y.fg[n].st # "none" => n \in Tasks(r)
    BY <2>2, <2>3, <2>7 DEF Stage, x
  <2>11. y.pc = "loaders" => \A i \in y.idx..Len(PathOf(r)) :
           y.fg[PathOf(r)[i]].st = "none" /\ y.bg[PathOf(r)[i]].st = "none"
    BY <2>1, <2>2, <2>8 DEF Stage, x
  <2>12. y.pc \in {"nfChunk", "errChunk", "ready", "end", "done"} =>
           \A n \in Id : y.fg[n].st \in Ended \cup {"none"}
    BY <2>1, <2>2, <2>3, <2>6 DEF Stage, x
  <2> QED BY <1>1, <1>2, <2>1, <2>5, <2>9, <2>10, <2>11, <2>12 DEF Stage
<1>7. CASE Finishes(r, y) \/ Readies(r, y)
  <2>1. /\ SamePlan(x, y) /\ y.fg = x.fg /\ y.bg = x.bg
        /\ y.pc \notin BeforePC \cup {"idle", "loaders"}
    BY <1>7 DEF Finishes, Readies, BeforePC
  <2>3. x.kind # "free" /\ y.kind = x.kind
    BY <1>7, <2>1 DEF Finishes, Readies, Stage, SamePlan
  <2>2. y.pc # "settle" => \A m \in Id : y.fg[m].st \in Ended \cup {"none"}
    <3>1. CASE x.pc \in {"nfChunk", "errChunk", "ready"} BY <2>1, <3>1 DEF Stage
    <3>2. CASE x.pc = "settle" /\ AllSettled(r) BY <2>1, <3>2 DEF Stage, AllSettled
    <3> QED BY <1>7, <3>1, <3>2 DEF Finishes, Readies
  <2> QED BY <1>1, <1>2, <1>4, <2>1, <2>2, <2>3 DEF Stage
<1> QED BY <1>1, <1>3, <1>5, <1>6, <1>7

LEMMA NewRunIs ==
  ASSUME NEW kind, NEW l, NEW force, NEW sync, NEW held, NEW x,
         x = NewRun(kind, l, force, sync, held)
  PROVE  /\ x.kind = kind /\ x.loc = l /\ x.pc = "pre" /\ ~x.rendered
         /\ x.bnf = 0 /\ ~x.serial
         /\ \A m \in Id : x.fg[m] = NoTask /\ x.bg[m] = NoTask
BY DEF NewRun, FreeRun

LEMMA FreshStage ==
  ASSUME NEW r \in Run, run'[r].loc \in Loc, run'[r].pc \in {"pre", "done", "idle"},
         run'[r].bnf = 0, ~run'[r].serial,
         \A m \in Id : run'[r].fg[m] = NoTask,
         run'[r].kind = "free" => run'[r].pc = "idle",
         run'[r].pc # "done" => \A m \in Id : run'[r].bg[m] = NoTask
  PROVE  Stage(r)'
<1>1. NoTask.st = "none" /\ NoTask.at = 0 BY DEF NoTask
<1>2. Len(Path[run'[r].loc]) \in Nat BY LenType
<1>3. Placed(run'[r]) BY <1>1, <1>2 DEF Placed
<1> HIDE DEF NoTask
<1> QED BY <1>1, <1>3 DEF Stage, Placed, BeforePC

LEMMA DoneStage ==
  ASSUME LoadOK, NEW r \in Run, Stage(r), run[r].pc = "end",
         run'[r] = Done(run[r])
  PROVE  Stage(r)'
<1>0. run[r].kind # "free" BY DEF Stage
<1>1. /\ run'[r].pc = "done" /\ run'[r].bnf = 0 /\ ~run'[r].serial
      /\ run'[r].kind = run[r].kind /\ run'[r].loc = run[r].loc /\ \A m \in Id : run'[r].fg[m] = NoTask
  BY DEF Done, FreeRun
<1>2. run[r].loc \in Loc BY RunType
<1> QED BY <1>0, <1>1, <1>2, FreshStage

\* Following a background redirect ends that task.
LEMMA BackgroundStage ==
  ASSUME LoadOK, NEW r \in Run, NEW m \in Id, Stage(r), run[r].bg[m].st = "redirect",
         run'[r] = [run[r] EXCEPT !.bg[m] = At("ok")]
  PROVE  Stage(r)'
<1> DEFINE x == run[r]
           y == [x EXCEPT !.bg[m] = At("ok")]
<1>1. IsRun(x) BY RunType DEF RunOK
<1>2. /\ y.kind = x.kind /\ y.loc = x.loc /\ y.bad = x.bad /\ y.bnf = x.bnf
      /\ y.gone = x.gone
      /\ y.serial = x.serial /\ y.nf = x.nf /\ y.pc = x.pc /\ y.idx = x.idx
      /\ y.fg = x.fg /\ \A n \in Id : n # m => y.bg[n] = x.bg[n]
  BY <1>1 DEF IsRun
<1> HIDE DEF y
<1>3. run'[r] = y BY DEF y
<1>4. PathOf(r)' = PathOf(r) /\ Tasks(r)' = Tasks(r) BY <1>2, <1>3, SameTasks
<1>5. x.pc \notin BeforePC \cup {"idle"} /\ x.kind # "free" BY DEF Stage
<1>6. x.pc = "loaders" => \A i \in x.idx..Len(PathOf(r)) :
        PathOf(r)[i] # m /\ PathOf(r)[i] \in Id
  <2>1. x.idx \in Nat \ {0} /\ Len(PathOf(r)) \in Nat BY RunType
  <2>2. \A i \in x.idx..Len(PathOf(r)) : i \in 1..Len(PathOf(r)) BY <2>1
  <2> QED BY <2>2, PathsAreIds DEF Stage
<1>7. Placed(y) BY <1>2 DEF Stage, Placed
<1> HIDE DEF x
<1>8. y.pc = "loaders" => \A i \in y.idx..Len(PathOf(r)) :
        y.fg[PathOf(r)[i]].st = "none" /\ y.bg[PathOf(r)[i]].st = "none"
  BY <1>2, <1>6 DEF Stage, x
<1>9. /\ \A n \in Id : y.fg[n].st # "none" => n \in Tasks(r)
      /\ y.pc \in {"nfChunk", "errChunk", "ready", "end", "done"} =>
           \A n \in Id : y.fg[n].st \in Ended \cup {"none"}
  BY <1>2 DEF Stage, x
<1> QED BY <1>2, <1>3, <1>4, <1>5, <1>7, <1>8, <1>9 DEF Stage

Stages == \A r \in Run : Stage(r)

\* Loads and preloads start at the first match, without a task.
LEMMA NewRunStages ==
  ASSUME NEW r \in Run, NEW rs, DOMAIN rs = Run, NEW kind \in {"load", "preload"},
         NEW l \in Loc, NEW f, NEW y, NEW h,
         run' = [rs EXCEPT ![r] = NewRun(kind, l, f, y, h)],
         \A q \in Run : rs[q] = run'[q] => Stage(q)'
  PROVE  Stages'
<1> DEFINE x == NewRun(kind, l, f, y, h)
<1>1. run'[r] = x /\ \A q \in Run : q # r => run'[q] = rs[q] OBVIOUS
<1>2. /\ x.kind = kind /\ x.loc = l /\ x.pc = "pre" /\ x.bnf = 0 /\ ~x.serial
      /\ \A m \in Id : x.fg[m] = NoTask /\ x.bg[m] = NoTask
  BY NewRunIs
<1> HIDE DEF x
<1>3. Stage(r)' BY <1>1, <1>2, FreshStage
<1> QED BY <1>1, <1>3 DEF Stages

LEMMA StartsStages ==
  ASSUME LoadOK, NEW s, NEW rs, DOMAIN rs = Run, NEW l \in Loc, NEW sync,
         Load(s, rs, l, sync) \/ StartPreload(s, rs, l),
         \A q \in Run : rs[q] = run'[q] => Stage(q)'
  PROVE  Stages'
<1>1. NextRun \in Run BY NextRunType DEF Load, StartPreload
<1>2. CASE Load(s, rs, l, sync)
  <2>1. PICK f : f = (resolved = l) OBVIOUS
  <2>2. run' = [rs EXCEPT ![NextRun] = NewRun("load", l, f, sync, NoHeld)]
    BY <1>2, <2>1 DEF Load
  <2> QED BY <1>1, <2>2, NewRunStages
<1>3. CASE StartPreload(s, rs, l)
  <2>1. PICK h : h = [m \in DOMAIN s.active \cup DOMAIN s.pending |-> GetMatch(s, m).obj]
    OBVIOUS
  <2>2. run' = [rs EXCEPT ![NextRun] = NewRun("preload", l, FALSE, FALSE, h)]
    BY <1>3, <2>1 DEF StartPreload
  <2> QED BY <1>1, <2>2, NewRunStages
<1> QED BY <1>2, <1>3

LEMMA UserActionStages ==
  ASSUME Inv, Stages, UserAction
  PROVE  Stages'
<1>0. LoadOK /\ DOMAIN run = Run /\ latest \in Loc BY DEF Inv, LoadOK, RunsOK, RouterOK
<1>1. \A q \in Run : run[q] = run'[q] => Stage(q)' BY StageSame DEF Stages
<1>2. ASSUME NEW l \in Loc, Navigate(l) \/ PopState(l) \/ Preload(l) PROVE Stages'
  BY <1>0, <1>1, <1>2, StartsStages DEF Navigate, PopState, Preload
<1>3. ASSUME NEW force \in BOOLEAN, NEW sync \in BOOLEAN, Invalidate(force, sync)
      PROVE  Stages'
  BY <1>0, <1>1, <1>3, StartsStages DEF Invalidate
<1>4. ASSUME NEW S \in SUBSET Id, ClearCache(S) PROVE Stages'
  BY <1>1, <1>4 DEF ClearCache, Stages
<1> QED BY <1>2, <1>3, <1>4 DEF UserAction

LEMMA RouterStepStages ==
  ASSUME Inv, Stages, NEW r \in Run, RouterStep(r)
  PROVE  Stages'
<1>0. /\ LoadOK /\ DOMAIN run = Run /\ RedirectTo \in Loc /\ Stage(r)
      /\ \A q \in Run : run'[q] = run[q] => Stage(q)'
  BY RouterAssumption, StageSame DEF Inv, LoadOK, RunsOK, Stages
<1> DEFINE rs == [run EXCEPT ![r] = Done(run[r])]
<1>1. CASE EndLoad(r) \/ FollowRedirect(r) \/ EndPreload(r)
  <2>1. /\ run[r].pc = "end"
        /\ \/ run' = rs
           \/ Load(mem, rs, RedirectTo, FALSE)
           \/ StartPreload(mem, rs, RedirectTo)
    BY <1>1 DEF EndLoad, FollowRedirect, EndPreload
  <2>2. rs[r] = Done(run[r]) /\ DOMAIN rs = Run /\ \A q \in Run : q # r => rs[q] = run[q]
    BY <1>0
  <2> HIDE DEF rs
  <2>3. rs[r] = run'[r] => Stage(r)' BY <1>0, <2>1, <2>2, DoneStage
  <2>4. \A q \in Run : rs[q] = run'[q] => Stage(q)' BY <1>0, <2>2, <2>3
  <2> QED BY <1>0, <2>1, <2>2, <2>4, StartsStages DEF Stages
<1>2. ASSUME NEW m \in Id, BackgroundRedirect(r, m) PROVE Stages'
  <2> DEFINE x == [run[r] EXCEPT !.bg[m] = At("ok")]
             ts == [run EXCEPT ![r] = x]
  <2>1. Load(mem, ts, RedirectTo, FALSE) /\ run[r].bg[m].st = "redirect"
    BY <1>2 DEF BackgroundRedirect
  <2>2. DOMAIN ts = Run /\ ts[r] = x /\ \A q \in Run : q # r => ts[q] = run[q]
    BY <1>0
  <2>3. run'[r] = x => Stage(r)' BY <1>0, <2>1, BackgroundStage
  <2> HIDE DEF x, ts
  <2>4. \A q \in Run : ts[q] = run'[q] => Stage(q)' BY <1>0, <2>2, <2>3
  <2> QED BY <1>0, <2>1, <2>2, <2>4, StartsStages
<1> QED BY <1>1, <1>2 DEF RouterStep

LEMMA LoadMatchesStages ==
  ASSUME Inv, Stages, NEW r \in Run, LoadMatchesStep(r)
  PROVE  Advance(r) /\ Stages' /\ \A q \in Run : q # r => run'[q] = run[q]
<1>0. /\ LoadOK /\ Sound(mem, latest) /\ latest \in Loc /\ Stage(r) /\ Placed(run[r])
  BY DEF Inv, RouterOK, Stages, Stage
<1>1. Advance(r) BY <1>0, StepAdvances DEF LoadMatchesStep
<1>2. \A q \in Run : q # r => run'[q] = run[q] BY <1>0, <1>1 DEF Advance, LoadOK, RunsOK
<1>3. Stage(r)' BY <1>0, <1>1, StageKept
<1> QED BY <1>1, <1>2, <1>3, StageSame DEF Stages

\* A pending timeout notes that its run has rendered, and no more.
LEMMA TimeoutRun ==
  ASSUME LoadOK, NEW m \in Id, NEW o \in Obj, PendingTimeout(m, o)
  PROVE  LET r == mem.bag[m][o].timer IN
         /\ r \in Run /\ \A q \in Run : q # r => run'[q] = run[q]
         /\ run'[r].rendered
         /\ \A f \in DOMAIN run[r] : f # "rendered" => run'[r][f] = run[r][f]
<1> DEFINE r == mem.bag[m][o].timer
<1>1. r \in Run
  <2>1. r \in Obj /\ r # 0 BY DEF LoadOK, IsMemory, Bag, PendingTimeout
  <2> QED BY <2>1, PathAssumption DEF Run, Obj
<1>2. run' = [run EXCEPT ![r] = [run[r] EXCEPT !.rendered = TRUE]]
  BY DEF PendingTimeout
<1>3. IsRun(run[r]) BY <1>1, RunType DEF RunOK
<1> HIDE DEF r
<1>4. /\ run'[r] = [run[r] EXCEPT !.rendered = TRUE]
      /\ \A q \in Run : q # r => run'[q] = run[q]
  BY <1>1, <1>2 DEF LoadOK, RunsOK
<1>5. "rendered" \in DOMAIN run[r] BY <1>3 DEF IsRun
<1> QED BY <1>1, <1>4, <1>5 DEF r

LEMMA EnvironmentStages ==
  ASSUME Inv, Stages, EnvironmentStep
  PROVE  Stages'
<1>1. ASSUME NEW m \in Id, NEW o \in Obj, PendingTimeout(m, o) PROVE Stages'
  <2>0. LoadOK BY DEF Inv
  <2>1. PICK r \in Run :
          /\ \A q \in Run : q # r => run'[q] = run[q]
          /\ \A f \in DOMAIN run[r] : f # "rendered" => run'[r][f] = run[r][f]
    BY <1>1, <2>0, TimeoutRun
  <2>2. IsRun(run[r]) BY <2>0, RunType DEF RunOK
  <2>3. /\ run'[r].kind = run[r].kind /\ run'[r].loc = run[r].loc
        /\ run'[r].bad = run[r].bad /\ run'[r].bnf = run[r].bnf
        /\ run'[r].gone = run[r].gone
        /\ run'[r].serial = run[r].serial /\ run'[r].nf = run[r].nf
        /\ run'[r].pc = run[r].pc /\ run'[r].idx = run[r].idx
        /\ run'[r].fg = run[r].fg /\ run'[r].bg = run[r].bg
    BY <2>1, <2>2 DEF IsRun
  <2>4. PathOf(r)' = PathOf(r) /\ Tasks(r)' = Tasks(r) BY <2>3, SameTasks
  <2>5. Stage(r)' BY <2>3, <2>4 DEF Stages, Stage, Placed
  <2> QED BY <2>1, <2>5, StageSame DEF Stages
<1>2. ASSUME run' = run PROVE Stages' BY <1>2, StageSame DEF Stages
<1> QED BY <1>1, <1>2 DEF EnvironmentStep, Environment, ChunkLoads, ChunkFails,
           RunViewTransition

LEMMA NextStages == Inv /\ Stages /\ [Next]_vars => Stages'
<1> SUFFICES ASSUME Inv, Stages, [Next]_vars PROVE Stages'
  OBVIOUS
<1>1. run' = run => Stages' BY StageSame DEF Stages
<1> QED BY <1>1, UserActionStages, RouterStepStages, LoadMatchesStages,
           EnvironmentStages DEF Next, Resolve, vars, loadVars

LEMMA InitStages == Init => Stages
<1> SUFFICES ASSUME Init, NEW r \in Run PROVE Stage(r)
  BY DEF Stages
<1>1. run[r] = FreeRun /\ FreeRun.loc \in Loc BY FreeRunOK DEF Init, RunOK, IsRun
<1>2. /\ FreeRun.pc = "idle" /\ FreeRun.bnf = 0 /\ FreeRun.serial = FALSE
      /\ FreeRun.fg = [m \in Id |-> NoTask] /\ FreeRun.bg = [m \in Id |-> NoTask]
  BY DEF FreeRun
<1>3. NoTask.st = "none" /\ NoTask.at = 0 BY DEF NoTask
<1>4. Len(Path[FreeRun.loc]) \in Nat BY <1>1, LenType
<1> HIDE DEF FreeRun, NoTask
<1> QED BY <1>1, <1>2, <1>3, <1>4 DEF Stage, Placed, BeforePC

-----------------------------------------------------------------------------
(* What a step hands on *)

\* At the matches t knows, a promise of r is one that r, at y, works for,
\* and any other promise is one that s has.
Passes(s, t, r, y) ==
  \A m \in Id : Known(t, m) =>
    LET o == GetMatch(t, m).obj
        b == t.bag[m][o]
        same == Known(s, m) /\ o = GetMatch(s, m).obj IN
    /\ b.beforeP = r => Executes(y, m, o)
    /\ b.loaderP = r => AtWork(y, m)
    /\ b.beforeP \in {0, r} \/ (same /\ b.beforeP = s.bag[m][o].beforeP)
    /\ b.loaderP \in {0, r} \/ (same /\ b.loaderP = s.bag[m][o].loaderP)

LEMMA PassesHeld ==
  ASSUME NEW s, NEW rs, LocksHeld(s, rs), NEW r \in Run, NEW t, NEW ts,
         Passes(s, t, r, ts[r]), \A q \in Run : q # r => ts[q] = rs[q]
  PROVE  LocksHeld(t, ts)
<1> SUFFICES ASSUME NEW m \in Id, NEW q \in Run, NEW o, o = GetMatch(t, m).obj,
                    Known(t, m)
             PROVE  /\ t.bag[m][o].beforeP = q => Executes(ts[q], m, o)
                    /\ t.bag[m][o].loaderP = q => AtWork(ts[q], m)
  BY DEF LocksHeld
<1> DEFINE b == t.bag[m][o].beforeP
           l == t.bag[m][o].loaderP
<1>1. /\ b = r => Executes(ts[r], m, o)
      /\ l = r => AtWork(ts[r], m)
      /\ \/ b \in {0, r}
         \/ Known(s, m) /\ o = GetMatch(s, m).obj /\ b = s.bag[m][o].beforeP
      /\ \/ l \in {0, r}
         \/ Known(s, m) /\ o = GetMatch(s, m).obj /\ l = s.bag[m][o].loaderP
  BY DEF Passes
<1>2. q # 0 BY DEF Run
<1>3. Known(s, m) /\ o = GetMatch(s, m).obj =>
        /\ s.bag[m][o].beforeP = q => Executes(rs[q], m, o)
        /\ s.bag[m][o].loaderP = q => AtWork(rs[q], m)
  BY DEF LocksHeld
<1>4. b = q => Executes(ts[q], m, o)
  <2>1. CASE q = r BY <1>1, <2>1
  <2>2. CASE q # r
    <3>1. ts[q] = rs[q] BY <2>2
    <3> QED BY <1>1, <1>2, <1>3, <2>2, <3>1
  <2> QED BY <2>1, <2>2
<1>5. l = q => AtWork(ts[q], m)
  <2>1. CASE q = r BY <1>1, <2>1
  <2>2. CASE q # r
    <3>1. ts[q] = rs[q] BY <2>2
    <3> QED BY <1>1, <1>2, <1>3, <2>2, <3>1
  <2> QED BY <2>1, <2>2
<1> QED BY <1>4, <1>5

\* A step that takes no promise must stay at work where r has one.
LEMMA KeepsPasses ==
  ASSUME NEW s, NEW rs, LocksHeld(s, rs), NEW r \in Run, NEW t, NEW y, Keeps(s, t),
         \A m \in Id : Known(t, m) =>
           LET o == GetMatch(t, m).obj IN
           /\ t.bag[m][o].beforeP = r /\ Executes(rs[r], m, o) => Executes(y, m, o)
           /\ t.bag[m][o].loaderP = r /\ AtWork(rs[r], m) => AtWork(y, m)
  PROVE  Passes(s, t, r, y)
<1> SUFFICES ASSUME NEW m \in Id, NEW o, o = GetMatch(t, m).obj, Known(t, m)
             PROVE  LET b == t.bag[m][o]
                        same == Known(s, m) /\ o = GetMatch(s, m).obj IN
                    /\ b.beforeP = r => Executes(y, m, o)
                    /\ b.loaderP = r => AtWork(y, m)
                    /\ b.beforeP \in {0, r} \/ (same /\ b.beforeP = s.bag[m][o].beforeP)
                    /\ b.loaderP \in {0, r} \/ (same /\ b.loaderP = s.bag[m][o].loaderP)
  BY DEF Passes
<1> DEFINE b == t.bag[m][o].beforeP
           l == t.bag[m][o].loaderP
           same == Known(s, m) /\ o = GetMatch(s, m).obj
<1>1. /\ b = 0 \/ (same /\ b = s.bag[m][o].beforeP)
      /\ l = 0 \/ (same /\ l = s.bag[m][o].loaderP)
  BY DEF Keeps
<1>2. r # 0 BY DEF Run
<1>3. same => /\ s.bag[m][o].beforeP = r => Executes(rs[r], m, o)
              /\ s.bag[m][o].loaderP = r => AtWork(rs[r], m)
  BY DEF LocksHeld
<1>4. /\ b = r /\ Executes(rs[r], m, o) => Executes(y, m, o)
      /\ l = r /\ AtWork(rs[r], m) => AtWork(y, m)
  OBVIOUS
<1> HIDE DEF b, l, same
<1>5. (b = r => Executes(y, m, o)) /\ (l = r => AtWork(y, m))
  BY <1>1, <1>2, <1>3, <1>4 DEF b, l
<1> QED BY <1>1, <1>5 DEF b, l, same

\* The same for a step of loadMatches.
LEMMA FreesPasses ==
  ASSUME LoadOK, LocksAreHeld, NEW r \in Run, NEW y, IsMemory(mem'),
         SameObjects(mem, mem'), Frees(mem, mem'),
         \A m \in Id : Known(mem', m) =>
           LET o == GetMatch(mem', m).obj IN
           /\ mem'.bag[m][o].beforeP = r /\ Executes(run[r], m, o) => Executes(y, m, o)
           /\ mem'.bag[m][o].loaderP = r /\ AtWork(run[r], m) => AtWork(y, m)
  PROVE  Passes(mem, mem', r, y)
<1>1. Keeps(mem, mem') BY FreesKeeps
<1>2. PICK t : t = mem' OBVIOUS
<1> QED BY <1>1, <1>2, KeepsPasses DEF LocksAreHeld

-----------------------------------------------------------------------------
(* ... in the serial phase *)

\* A beforeLoad that starts takes the promise of its match.
LEMMA ExecuteLocks ==
  ASSUME LoadOK, LocksAreHeld, NEW r \in Run,
         \A m \in Id, o \in Obj : ~Executes(run[r], m, o),
         \A m \in Id : ~AtWork(run[r], m),
         NEW s, IsMemory(s), Frees(mem, s), s.active = mem.active,
         s.pending = mem.pending, s.cached = mem.cached, Current(r) \in Id,
         IsMemory(mem'), SameObjects(mem, mem'), Known(mem, Current(r)),
         \A m \in Id : ~AtWork(run'[r], m),
         mem' = Execute(s, r, Current(r)), IsRun(run[r]),
         RouteOf[Current(r)] \in HasBeforeLoad,
         run'[r] = [run[r] EXCEPT !.pc = "before", !.bobj = GetMatch(s, Current(r)).obj]
  PROVE  Passes(mem, mem', r, run'[r])
<1> DEFINE n == Current(r)
           y == run'[r]
           p == GetMatch(mem, n).obj
<1>1. Known(s, n) /\ GetMatch(s, n) = GetMatch(mem, n) BY DEF Known, PoolName, GetMatch
<1>2. \A m \in Id, o \in Obj :
        /\ mem'.bag[m][o].loaderP \in {0, s.bag[m][o].loaderP}
        /\ \/ mem'.bag[m][o].beforeP \in {0, s.bag[m][o].beforeP}
           \/ m = n /\ o = p /\ mem'.bag[m][o].beforeP = r
  <2> HIDE DEF n
  <2>1. mem' = Execute(s, r, n) /\ RouteOf[n] \in HasBeforeLoad BY DEF n
  <2>2. p = GetMatch(s, n).obj BY <1>1
  <2> HIDE DEF p
  <2> QED BY <1>1, <2>1, <2>2, ExecuteFrees
<1>3. \A m \in Id, o \in Obj :
        /\ mem'.bag[m][o].loaderP \in {0, mem.bag[m][o].loaderP}
        /\ \/ mem'.bag[m][o].beforeP \in {0, mem.bag[m][o].beforeP}
           \/ m = n /\ o = p /\ mem'.bag[m][o].beforeP = r
  BY <1>2 DEF Frees
<1>4. Executes(y, n, p)
  <2>1. y.pc = "before" /\ y.bobj = p /\ y.loc = run[r].loc /\ y.idx = run[r].idx
    BY <1>1 DEF IsRun
  <2> QED BY <2>1 DEF Executes, Current, PathOf
<1> SUFFICES ASSUME NEW m \in Id, NEW o, o = GetMatch(mem', m).obj, Known(mem', m)
             PROVE  LET b == mem'.bag[m][o]
                        same == Known(mem, m) /\ o = GetMatch(mem, m).obj IN
                    /\ b.beforeP = r => Executes(y, m, o)
                    /\ b.loaderP = r => AtWork(y, m)
                    /\ b.beforeP \in {0, r} \/ (same /\ b.beforeP = mem.bag[m][o].beforeP)
                    /\ b.loaderP \in {0, r} \/ (same /\ b.loaderP = mem.bag[m][o].loaderP)
  BY DEF Passes
<1> DEFINE b == mem'.bag[m][o].beforeP
           l == mem'.bag[m][o].loaderP
<1>5. Known(mem, m) /\ o = GetMatch(mem, m).obj BY DEF SameObjects
<1>6. o \in Obj BY <1>5, KnownMatch DEF LoadOK, Match
<1>7. mem.bag[m][o].beforeP # r /\ mem.bag[m][o].loaderP # r
  BY <1>5, <1>6 DEF LocksAreHeld, LocksHeld
<1>8. /\ l \in {0, mem.bag[m][o].loaderP}
      /\ \/ b \in {0, mem.bag[m][o].beforeP}
         \/ m = n /\ o = p /\ b = r
  BY <1>3, <1>6
<1>9. r # 0 BY DEF Run
<1> HIDE DEF y, b, l
<1>10. b = r => Executes(y, m, o) BY <1>4, <1>7, <1>8, <1>9
<1>11. l # r BY <1>7, <1>8, <1>9
<1> QED BY <1>5, <1>8, <1>10, <1>11 DEF b, l

LEMMA BeforeLocks ==
  ASSUME LoadOK, LocksAreHeld, NEW r \in Run, Stage(r), IsMemory(mem'),
         SameObjects(mem, mem'),
         \/ SkipBeforeLoad(r) \/ WaitBeforeLoad(r) \/ StartBeforeLoad(r)
         \/ WakeBeforeLoad(r) \/ BeforeLoadReturns(r) \/ BeforeLoadThrows(r)
         \/ \E e \in {"redirect", "notFound"} : BeforeLoadFails(r, e)
  PROVE  Passes(mem, mem', r, run'[r])
<1> DEFINE x == run[r]
           m == Current(r)
<1>0. /\ IsRun(x) /\ x.pc \in BeforePC /\ m \in Id /\ IsMemory(mem) /\ DOMAIN run = Run
      /\ Placed(x) /\ x.bobj \in Obj
  <2>1. x.pc \in {"pre", "waitB", "before"}
    BY DEF SkipBeforeLoad, WaitBeforeLoad, StartBeforeLoad, WakeBeforeLoad,
           BeforeLoadReturns, BeforeLoadThrows, BeforeLoadFails
  <2> QED BY <2>1, RunType, CurrentType DEF RunOK, BeforePC, Stage, LoadOK, RunsOK, IsRun
<1>1. \A n \in Id : ~AtWork(x, n)
  BY <1>0 DEF Stage, AtWork, Busy
<1>2. \A n \in Id : ~AtWork(run'[r], n)
  <2>1. Advance(r) BY <1>0, BeforeAdvances
  <2>2. PICK y : /\ run' = [run EXCEPT ![r] = y]
                 /\ \/ InBefore(r, y) \/ Launches(r, y)
                    \/ \E k \in {"fg", "bg"}, n \in Id : Works(r, k, n, y)
                    \/ Finishes(r, y) \/ Readies(r, y)
    BY <2>1 DEF Advance
  <2>3. InBefore(r, y)
    <3>1. \A n \in Id : x.fg[n].st = "none" /\ x.bg[n].st = "none" BY <1>0 DEF Stage
    <3>2. \A k \in {"fg", "bg"}, n \in Id : ~Works(r, k, n, y) BY <3>1 DEF Works
    <3> QED BY <1>0, <2>2, <3>2 DEF Launches, Finishes, Readies, BeforePC
  <2>4. run'[r] = y BY <1>0, <2>2
  <2> QED BY <1>1, <2>3, <2>4 DEF InBefore, AtWork
<1>3. ASSUME Frees(mem, mem'), x.pc # "before" PROVE Passes(mem, mem', r, run'[r])
  <2>1. \A n, o : ~Executes(x, n, o) BY <1>3 DEF Executes
  <2>2. PICK y : y = run'[r] OBVIOUS
  <2> QED BY <1>1, <1>3, <2>1, <2>2, FreesPasses
<1>4. ASSUME Frees(mem, mem'),
             \A n \in Id : Known(mem', n) /\ Executes(x, n, GetMatch(mem', n).obj) =>
               mem'.bag[n][GetMatch(mem', n).obj].beforeP = 0
      PROVE  Passes(mem, mem', r, run'[r])
  <2>1. r # 0 BY DEF Run
  <2>2. PICK y : y = run'[r] OBVIOUS
  <2> QED BY <1>1, <1>4, <2>1, <2>2, FreesPasses
<1>5. ASSUME NEW s, IsMemory(s), Frees(mem, s), s.active = mem.active,
             s.pending = mem.pending, s.cached = mem.cached, Known(mem, m),
             x.pc # "before", ExecuteBeforeLoad(s, r)
      PROVE  Passes(mem, mem', r, run'[r])
  <2>1. Known(s, m) BY <1>5 DEF Known, PoolName
  <2>2. CASE RouteOf[m] \notin HasBeforeLoad
    <3>1. mem' = Execute(s, r, m) BY <1>5 DEF ExecuteBeforeLoad
    <3> HIDE DEF m
    <3>2. Frees(s, mem') BY <1>5, <2>1, <2>2, <3>1, ExecuteFrees
    <3>3. PICK t : t = mem' OBVIOUS
    <3>4. Frees(mem, t) BY <1>5, <3>2, <3>3, FreesTrans
    <3> QED BY <1>3, <1>5, <3>3, <3>4
  <2>3. CASE RouteOf[m] \in HasBeforeLoad
    <3>1. /\ mem' = Execute(s, r, m)
          /\ run' = [run EXCEPT ![r] = [x EXCEPT !.pc = "before",
                                          !.bobj = GetMatch(s, m).obj]]
      BY <1>5, <2>3 DEF ExecuteBeforeLoad
    <3>2. run'[r] = [x EXCEPT !.pc = "before", !.bobj = GetMatch(s, m).obj]
      BY <1>0, <3>1
    <3>3. \A n, o : ~Executes(x, n, o) BY <1>5 DEF Executes
    <3> QED BY <1>0, <1>1, <1>2, <1>5, <2>3, <3>1, <3>2, <3>3, ExecuteLocks
  <2> QED BY <2>2, <2>3
<1>6. ASSUME NEW s, IsMemory(s), Frees(mem, s), s.active = mem.active,
             s.pending = mem.pending, s.cached = mem.cached, Known(mem, m),
             x.pc # "before", ThenExecute(s, r)
      PROVE  Passes(mem, mem', r, run'[r])
  <2>1. \/ ExecuteBeforeLoad(s, r) \/ mem' = s \/ mem' = Fail(s, r, m, "notFound")
    BY <1>6 DEF ThenExecute
  <2>2. Frees(s, Fail(s, r, m, "notFound")) BY <1>6, FailFrees
  <2>3. Frees(mem, Fail(s, r, m, "notFound")) BY <1>6, <2>2, FreesTrans
  <2> QED BY <1>3, <1>5, <1>6, <2>1, <2>3
<1>7. CASE SkipBeforeLoad(r)
  BY <1>3, <1>7, FreesSelf DEF SkipBeforeLoad
<1>8. Known(mem, m) => LET s == SetupTimer(mem, r, m, GetMatch(mem, m).obj) IN
        /\ IsMemory(s) /\ Frees(mem, s) /\ s.active = mem.active
        /\ s.pending = mem.pending /\ s.cached = mem.cached
  <2> DEFINE o == GetMatch(mem, m).obj
             s == SetupTimer(mem, r, m, o)
  <2> SUFFICES ASSUME Known(mem, m)
               PROVE  /\ IsMemory(s) /\ Frees(mem, s) /\ s.active = mem.active
                      /\ s.pending = mem.pending /\ s.cached = mem.cached
    OBVIOUS
  <2>1. o \in Obj BY <1>0, KnownMatch DEF Match
  <2>2. s.active = mem.active /\ s.pending = mem.pending /\ s.cached = mem.cached
    BY <1>0 DEF SetupTimer, IsMemory
  <2> HIDE DEF o, m
  <2>3. IsMemory(s) /\ Frees(mem, s) BY <1>0, <2>1, TimerTame, TimerFrees, TameType
  <2> QED BY <2>2, <2>3
<1>9. CASE WaitBeforeLoad(r)
  BY <1>3, <1>8, <1>9 DEF WaitBeforeLoad
<1>10. CASE StartBeforeLoad(r)
  <2>1. Known(mem, m) /\ x.pc # "before" BY <1>10 DEF StartBeforeLoad
  <2>2. \/ ThenExecute(SetupTimer(mem, r, m, GetMatch(mem, m).obj), r)
        \/ ExecuteBeforeLoad(mem, r)
    BY <1>10 DEF StartBeforeLoad
  <2> HIDE DEF m, x
  <2> QED BY <1>0, <1>5, <1>6, <1>8, <2>1, <2>2, FreesSelf
<1>11. CASE WakeBeforeLoad(r)
  <2>1. x.pc # "before" /\ ((Known(mem, m) /\ ThenExecute(mem, r)) \/ mem' = mem)
    BY <1>11 DEF WakeBeforeLoad
  <2> QED BY <1>0, <1>3, <1>6, <2>1, FreesSelf
<1>12. ASSUME NEW s, IsMemory(s), Frees(mem, s), Frees(s, mem'),
              mem'.bag[m][x.bobj].beforeP = 0
       PROVE  Passes(mem, mem', r, run'[r])
  <2>1. PICK t : t = mem' OBVIOUS
  <2>2. Frees(mem, t) BY <1>12, <2>1, FreesTrans
  <2>3. \A n, o : Executes(x, n, o) => n = m /\ o = x.bobj
    BY DEF Executes, Current, PathOf
  <2> HIDE DEF x, m
  <2> QED BY <1>4, <1>12, <2>1, <2>2, <2>3
<1>13. CASE BeforeLoadReturns(r)
  <2> DEFINE s == ResolveBefore(mem, m, x.bobj)
             d == [Stored(s, m) EXCEPT !.fetching = "no"]
  <2>1. mem' = Update(s, r, m, d) BY <1>13 DEF BeforeLoadReturns
  <2> HIDE DEF d, x, m
  <2>2. IsMemory(s) /\ Frees(mem, s) /\ s.bag[m][x.bobj].beforeP = 0
    BY <1>0, ResolveTame, ResolveFrees, TameType
  <2> HIDE DEF s
  <2>3. mem'.bag = s.bag BY <2>1, <2>2, UpdateBag
  <2>4. PICK t : t = mem' OBVIOUS
  <2>5. Frees(s, t) BY <2>3, <2>4, SameBagFrees
  <2> QED BY <1>12, <2>2, <2>3, <2>4, <2>5
<1>14. CASE BeforeLoadThrows(r)
  <2> DEFINE held == m \in DOMAIN x.held
             o  == IF held THEN x.held[m] ELSE Stored(mem, m).obj
             s0 == ResolveBefore(mem, m, o)
             s1 == IF held \/ Known(mem, m) THEN ResolveLoad(s0, m, o) ELSE mem
             d  == [Stored(s1, m) EXCEPT !.status = "error", !.error = "error",
                      !.fetching = "no", !.ctrl = <<"err", r>>]
             s2 == Update(s1, r, m, d)
  <2>0. mem' = ResolveBefore(s2, m, x.bobj) BY <1>14 DEF BeforeLoadThrows
  <2>1. Tame(mem, s1) /\ Frees(mem, s1)
    <3>1. CASE ~(held \/ Known(mem, m)) BY <1>0, <3>1, TameSelf, FreesSelf
    <3>2. CASE held \/ Known(mem, m)
      <4>1. o \in Obj BY <1>0, <3>2, KnownMatch DEF IsRun, Match
      <4>0. s1 = ResolveLoad(s0, m, o) BY <3>2
      <4> HIDE DEF o, m, s1
      <4>2. Tame(mem, s0) /\ Frees(mem, s0) BY <1>0, <4>1, ResolveTame, ResolveFrees
      <4> HIDE DEF s0
      <4>3. Tame(s0, ResolveLoad(s0, m, o)) /\ Frees(s0, ResolveLoad(s0, m, o))
        BY <1>0, <4>1, <4>2, TameType, ResolveTame, ResolveFrees
      <4>4. Tame(mem, s1) BY <4>0, <4>2, <4>3, TameTrans
      <4>5. Frees(mem, s1) BY <4>0, <4>2, <4>3, FreesTrans
      <4> QED BY <4>4, <4>5
    <3> QED BY <3>1, <3>2
  <2> HIDE DEF s1, m, x
  <2>3. IsMemory(s2)
    <3>1. <<"err", r>> \in Controller BY RunIsObj DEF Controller
    <3> QED BY <2>1, <3>1, TameType, FlagTame
  <2>4. Frees(mem, s2)
    <3>1. s2.bag = s1.bag BY <2>1, TameType, UpdateBag
    <3> HIDE DEF s2
    <3> QED BY <2>1, <3>1, SameBagFrees, FreesTrans
  <2> HIDE DEF s2
  <2>5. Frees(s2, mem') /\ mem'.bag[m][x.bobj].beforeP = 0
    BY <1>0, <2>0, <2>3, ResolveFrees
  <2> QED BY <1>12, <2>3, <2>4, <2>5
<1>15. ASSUME NEW e \in {"redirect", "notFound"}, BeforeLoadFails(r, e)
       PROVE  Passes(mem, mem', r, run'[r])
  <2>1. mem' = Fail(mem, r, m, e) BY <1>15 DEF BeforeLoadFails
  <2>2. Frees(mem, mem') /\ (Known(mem, m) =>
          mem'.bag[m][GetMatch(mem, m).obj].beforeP = 0)
    BY <1>0, <2>1, FailFrees
  <2>3. \A n \in Id : Known(mem', n) /\ Executes(x, n, GetMatch(mem', n).obj) =>
          mem'.bag[n][GetMatch(mem', n).obj].beforeP = 0
    <3>1. \A n, o : Executes(x, n, o) => n = m BY DEF Executes, Current, PathOf
    <3> QED BY <2>2, <3>1 DEF SameObjects
  <2> QED BY <1>4, <2>2, <2>3
<1> QED BY <1>7, <1>9, <1>10, <1>11, <1>13, <1>14, <1>15

-----------------------------------------------------------------------------
(* ... when tasks are launched *)

LEMMA HandleLoaderWorks ==
  ASSUME LoadOK, NEW r \in Run, NEW m \in Id, NEW s, NEW p, NEW stale,
         run[r].bg[m].st \in Busy \cup {"none"}
  PROVE  AtWork(HandleLoader(s, r, m, p, stale)[2], m)
<1> DEFINE x == run[r]
           go == StartLoader(s, r, m)
           t  == Started(m, go[2])
           a == [x EXCEPT !.fg[m] = At("returned")]
           b == [x EXCEPT !.bg[m] = t, !.fg[m] = At("returned")]
           c == [x EXCEPT !.fg[m] = t]
           h == HandleLoader(s, r, m, p, stale)
<1>1. IsRun(x) BY RunType DEF RunOK
<1>2. t.st \in Busy BY LoaderStates, StartedState DEF Busy
<1>3. h[2] = a \/ h[2] = c \/ h[2] = b BY DEF HandleLoader
<1> HIDE DEF h, t
<1>4. At("returned").st \in Busy BY StartedState DEF Busy
<1>5. a.fg[m] = At("returned") /\ a.bg[m] = x.bg[m] BY <1>1 DEF IsRun
<1>6. c.fg[m] = t /\ c.bg[m] = x.bg[m] BY <1>1 DEF IsRun
<1>7. b.bg[m] = t BY <1>1 DEF IsRun
<1> HIDE DEF a, b, c
<1>8. AtWork(a, m) BY <1>4, <1>5 DEF AtWork
<1>9. AtWork(c, m) BY <1>2, <1>6 DEF AtWork
<1>10. AtWork(b, m) BY <1>2, <1>7 DEF AtWork
<1>11. AtWork(h[2], m) BY <1>3, <1>8, <1>9, <1>10
<1> QED BY <1>11 DEF h

LEMMA HandleLoaderFrees ==
  ASSUME NEW s, IsMemory(s), NEW r, NEW m \in Id, NEW p, NEW stale
  PROVE  Frees(s, HandleLoader(s, r, m, p, stale)[1])
<1>1. \/ HandleLoader(s, r, m, p, stale)[1] = s
      \/ HandleLoader(s, r, m, p, stale)[1] = StartLoader(s, r, m)[1]
  BY DEF HandleLoader
<1> QED BY <1>1, FreesSelf, StartLoaderFrees

\* Any step that leaves the memory alone, and every task that is at work.
LEMMA QuietLocks ==
  ASSUME LoadOK, LocksAreHeld, NEW r \in Run, mem' = mem, run[r].pc # "before",
         \A m \in Id : AtWork(run[r], m) => AtWork(run'[r], m)
  PROVE  Passes(mem, mem', r, run'[r])
<1>1. \A m, o : ~Executes(run[r], m, o) BY DEF Executes
<1>2. IsMemory(mem') /\ SameObjects(mem, mem') /\ Frees(mem, mem')
  BY FreesSelf DEF LoadOK, SameObjects
<1>3. PICK y : y = run'[r] OBVIOUS
<1> QED BY <1>1, <1>2, <1>3, FreesPasses

LEMMA LaunchLocks ==
  ASSUME LoadOK, LocksAreHeld, NEW r \in Run, Stage(r), IsMemory(mem'),
         SameObjects(mem, mem'),
         SkipLoader(r) \/ WaitLoader(r) \/ StartTask(r) \/ LaunchedAll(r)
  PROVE  Passes(mem, mem', r, run'[r])
<1> DEFINE x == run[r]
<1>0. /\ IsRun(x) /\ IsMemory(mem) /\ x.pc = "loaders" /\ Placed(x) /\ DOMAIN run = Run
      /\ \A m, o : ~Executes(x, m, o)
  BY RunType DEF RunOK, SkipLoader, WaitLoader, StartTask, LaunchedAll, NextTask,
                 InLoaders, Stage, LoadOK, RunsOK, Executes
<1>1. ASSUME NEW m \in Id, NextTask(r, m)
      PROVE  /\ m = Current(r) /\ x.fg[m].st = "none" /\ x.bg[m].st = "none"
             /\ ~AtWork(x, m) /\ x.idx <= LoaderCount(r)
  BY <1>0, <1>1, CurrentFresh DEF NextTask, AtWork, Busy
<1>2. CASE SkipLoader(r) \/ WaitLoader(r)
  <2>1. PICK m, t :
          /\ m \in Id /\ NextTask(r, m) /\ mem' = mem
          /\ run' = [run EXCEPT ![r] = [x EXCEPT !.fg[m] = t, !.idx = x.idx + 1]]
    <3>1. CASE SkipLoader(r) BY <3>1 DEF SkipLoader
    <3>2. CASE WaitLoader(r)
      <4>1. PICK m, t :
              /\ m \in Id /\ NextTask(r, m) /\ mem' = mem
              /\ run' = [run EXCEPT ![r] = [x EXCEPT !.idx = x.idx + 1, !.fg[m] = t]]
        BY <3>2 DEF WaitLoader
      <4>2. [x EXCEPT !.idx = x.idx + 1, !.fg[m] = t]
              = [x EXCEPT !.fg[m] = t, !.idx = x.idx + 1]
        BY <1>0 DEF IsRun
      <4> QED BY <4>1, <4>2
    <3> QED BY <1>2, <3>1, <3>2
  <2> DEFINE y == [x EXCEPT !.fg[m] = t, !.idx = x.idx + 1]
  <2>2. run'[r] = y BY <1>0, <2>1
  <2>3. y.bg = x.bg /\ \A n \in Id : n # m => y.fg[n] = x.fg[n] BY <1>0 DEF IsRun
  <2> HIDE DEF y
  <2>4. \A n \in Id : AtWork(x, n) => AtWork(y, n)
    BY <1>1, <2>1, <2>3 DEF AtWork
  <2> QED BY <1>0, <2>1, <2>2, <2>4, QuietLocks
<1>3. CASE LaunchedAll(r)
  <2> DEFINE y == [x EXCEPT !.pc = "settle"]
  <2>1. run'[r] = y /\ mem' = mem BY <1>0, <1>3 DEF LaunchedAll
  <2>2. y.fg = x.fg /\ y.bg = x.bg BY <1>0 DEF IsRun
  <2> HIDE DEF y
  <2>3. \A n \in Id : AtWork(x, n) => AtWork(y, n) BY <2>2 DEF AtWork
  <2> QED BY <1>0, <2>1, <2>3, QuietLocks
<1>4. CASE StartTask(r)
  <2>1. PICK m \in Id, stale \in BOOLEAN :
          LET o  == GetMatch(mem, m).obj
              s1 == Lock(mem, m, o, r)
              p  == Preloading(mem, r, m)
              s2 == IF p = GetMatch(mem, m).preload THEN s1
                    ELSE Update(s1, r, m, [Stored(s1, m) EXCEPT !.preload = p])
              h  == HandleLoader(s2, r, m, p, stale) IN
          /\ NextTask(r, m) /\ Known(mem, m)
          /\ mem' = h[1]
          /\ run' = [run EXCEPT ![r] = [h[2] EXCEPT !.idx = run[r].idx + 1]]
    BY <1>4 DEF StartTask
  <2> DEFINE o  == GetMatch(mem, m).obj
             s1 == Lock(mem, m, o, r)
             p  == Preloading(mem, r, m)
             s2 == IF p = GetMatch(mem, m).preload THEN s1
                   ELSE Update(s1, r, m, [Stored(s1, m) EXCEPT !.preload = p])
             h  == HandleLoader(s2, r, m, p, stale)
             y  == [h[2] EXCEPT !.idx = x.idx + 1]
  <2>2. o \in Obj BY <1>0, <2>1, KnownMatch DEF Match
  <2>3. Tame(mem, s1) /\ IsMemory(s1) BY <1>0, <2>2, LockTame, TameType
  <2>4. \A n \in Id, q \in Obj :
          /\ s1.bag[n][q].beforeP = mem.bag[n][q].beforeP
          /\ s1.bag[n][q].loaderP = IF n = m /\ q = o THEN r ELSE mem.bag[n][q].loaderP
    <3> DEFINE g == [mem.bag[m][o] EXCEPT !.loaderP = r]
    <3>1. g.beforeP = mem.bag[m][o].beforeP /\ g.loaderP = r
      BY <1>0, <2>2, BagType DEF Bag
    <3>2. s1.bag = [mem.bag EXCEPT ![m][o] = g] BY <1>0 DEF Lock, IsMemory
    <3> HIDE DEF g, s1, o
    <3>3. \A n \in Id, q \in Obj :
            s1.bag[n][q] = IF n = m /\ q = o THEN g ELSE mem.bag[n][q]
      BY <1>0, <2>2, <3>2 DEF IsMemory
    <3> QED BY <3>1, <3>3
  <2>5. p \in BOOLEAN BY DEF Preloading, IsPreload
  <2> HIDE DEF s1, p
  <2>6. Tame(s1, s2) /\ IsMemory(s2) /\ s2.bag = s1.bag
    BY <2>3, <2>5, TameType, TameSelf, FlagTame, UpdateBag
  <2> HIDE DEF s2
  <2>7. Frees(s2, h[1]) BY <2>6, HandleLoaderFrees
  <2>8. m \in PathIds(x.loc) /\ Tame(mem, s2) BY <2>1, <2>3, <2>6, NextTaskType, TameTrans
  <2>9. IsRun(h[2]) BY <2>1, <2>8, HandleLoaderOK DEF RunOK
  <2>10. /\ AtWork(h[2], m)
         /\ \A n \in Id \ {m} : h[2].fg[n] = x.fg[n] /\ h[2].bg[n] = x.bg[n]
    BY <1>1, <2>1, HandleLoaderWorks, HandleLoaderIs
  <2>11. mem' = h[1] /\ run'[r] = y BY <1>0, <2>1 DEF s2, s1, p
  <2> HIDE DEF h
  <2>12. y.fg = h[2].fg /\ y.bg = h[2].bg BY <2>9 DEF IsRun
  <2> HIDE DEF y
  <2>13. AtWork(y, m) /\ \A n \in Id \ {m} : AtWork(x, n) => AtWork(y, n)
    BY <2>10, <2>12 DEF AtWork
  <2>14. \A n \in Id, q \in Obj :
           /\ mem'.bag[n][q].beforeP \in {0, mem.bag[n][q].beforeP}
           /\ mem'.bag[n][q].loaderP \in
                {0, IF n = m /\ q = o THEN r ELSE mem.bag[n][q].loaderP}
    <3> SUFFICES ASSUME NEW n \in Id, NEW q \in Obj
                 PROVE  /\ mem'.bag[n][q].beforeP \in {0, mem.bag[n][q].beforeP}
                        /\ mem'.bag[n][q].loaderP \in
                             {0, IF n = m /\ q = o THEN r ELSE mem.bag[n][q].loaderP}
      OBVIOUS
    <3>1. /\ mem'.bag[n][q].beforeP \in {0, s1.bag[n][q].beforeP}
          /\ mem'.bag[n][q].loaderP \in {0, s1.bag[n][q].loaderP}
      BY <2>6, <2>7, <2>11 DEF Frees
    <3> HIDE DEF o
    <3> QED BY <2>4, <3>1
  <2> HIDE DEF o, x
  <2> SUFFICES ASSUME NEW n \in Id, NEW q, q = GetMatch(mem', n).obj, Known(mem', n)
               PROVE  LET b == mem'.bag[n][q]
                          same == Known(mem, n) /\ q = GetMatch(mem, n).obj IN
                      /\ b.beforeP = r => Executes(y, n, q)
                      /\ b.loaderP = r => AtWork(y, n)
                      /\ b.beforeP \in {0, r}
                           \/ (same /\ b.beforeP = mem.bag[n][q].beforeP)
                      /\ b.loaderP \in {0, r}
                           \/ (same /\ b.loaderP = mem.bag[n][q].loaderP)
    BY <2>11 DEF Passes
  <2>15. Known(mem, n) /\ q = GetMatch(mem, n).obj BY DEF SameObjects
  <2>16. q \in Obj BY <1>0, <2>15, KnownMatch DEF Match
  <2>17. /\ mem.bag[n][q].beforeP # r
         /\ mem.bag[n][q].loaderP = r => AtWork(x, n)
    BY <1>0, <2>15 DEF LocksAreHeld, LocksHeld, x
  <2>18. r # 0 BY DEF Run
  <2>19. mem'.bag[n][q].loaderP = r => AtWork(y, n)
    BY <2>13, <2>14, <2>16, <2>17, <2>18
  <2>20. mem'.bag[n][q].beforeP # r BY <2>14, <2>16, <2>17, <2>18
  <2> QED BY <2>14, <2>15, <2>16, <2>19, <2>20
<1> QED BY <1>2, <1>3, <1>4

-----------------------------------------------------------------------------
(* ... when a task moves on *)

LEMMA MoveIs ==
  ASSUME LoadOK, NEW r \in Run, NEW k \in {"fg", "bg"}, NEW m \in Id, NEW st,
         Move(r, k, m, st) \/ Reject(r, k, m, st)
  PROVE  /\ \A j \in {"fg", "bg"}, n \in Id :
              <<j, n>> # <<k, m>> => run'[r][j][n] = run[r][j][n]
         /\ Move(r, k, m, st) => run'[r][k][m].st = st
<1> DEFINE x == run[r]
<1>1. IsRun(x) /\ DOMAIN run = Run /\ (k = "fg" \/ k = "bg")
  BY RunType DEF RunOK, LoadOK, RunsOK
<1>2. CASE Move(r, k, m, st)
  <2> DEFINE t == At(st)
             y == [x EXCEPT ![k][m] = t]
  <2>1. run'[r] = y BY <1>1, <1>2 DEF Move
  <2>2. t.st = st BY StartedState
  <2> HIDE DEF t
  <2>3. /\ y[k][m] = t
        /\ \A j \in {"fg", "bg"}, n \in Id : <<j, n>> # <<k, m>> => y[j][n] = x[j][n]
    BY <1>1 DEF IsRun
  <2> QED BY <2>1, <2>2, <2>3
<1>3. CASE Reject(r, k, m, st) /\ ~Move(r, k, m, st)
  <2>1. PICK b, t : run' = [run EXCEPT ![r] = [x EXCEPT !.rendered = b, ![k][m] = t]]
    BY <1>3 DEF Reject
  <2> DEFINE y == [x EXCEPT !.rendered = b, ![k][m] = t]
  <2>2. run'[r] = y BY <1>1, <2>1
  <2>3. \A j \in {"fg", "bg"}, n \in Id : <<j, n>> # <<k, m>> => y[j][n] = x[j][n]
    BY <1>1 DEF IsRun
  <2> QED BY <1>3, <2>2, <2>3
<1> QED BY <1>2, <1>3

\* Of all tasks of r only that of m moves: it is still at work, or there is
\* no loaderPromise left, or the match is gone.
LEMMA TaskPasses ==
  ASSUME LoadOK, LocksAreHeld, NEW r \in Run, run[r].pc # "before", NEW m \in Id,
         IsMemory(mem'), SameObjects(mem, mem'), Frees(mem, mem'),
         \A n \in Id : n # m => /\ run'[r].fg[n] = run[r].fg[n]
                                /\ run'[r].bg[n] = run[r].bg[n],
         \/ ~Known(mem, m)
         \/ AtWork(run[r], m) => AtWork(run'[r], m)
         \/ mem'.bag[m][GetMatch(mem, m).obj].loaderP = 0
  PROVE  Passes(mem, mem', r, run'[r])
<1>1. \A n, o : ~Executes(run[r], n, o) BY DEF Executes
<1>2. PICK y : y = run'[r] OBVIOUS
<1>3. \A n \in Id : n # m /\ AtWork(run[r], n) => AtWork(y, n) BY <1>2 DEF AtWork
<1>4. Known(mem', m) => Known(mem, m) /\ GetMatch(mem', m).obj = GetMatch(mem, m).obj
  BY DEF SameObjects
<1>5. r # 0 BY DEF Run
<1>6. \A n \in Id : Known(mem', n) =>
        LET o == GetMatch(mem', n).obj IN
        /\ mem'.bag[n][o].beforeP = r /\ Executes(run[r], n, o) => Executes(y, n, o)
        /\ mem'.bag[n][o].loaderP = r /\ AtWork(run[r], n) => AtWork(y, n)
  BY <1>1, <1>2, <1>3, <1>4, <1>5
<1> QED BY <1>2, <1>6, FreesPasses

\* A loader call that goes on, in the foreground or in the background.
LEMMA BusyPasses ==
  ASSUME NEW x, NEW y, NEW k \in {"fg", "bg"}, NEW m \in Id, x[k][m].st \in Busy,
         y[k][m].st \in Busy,
         \A j \in {"fg", "bg"}, n \in Id : <<j, n>> # <<k, m>> => y[j][n] = x[j][n]
  PROVE  AtWork(x, m) => AtWork(y, m)
<1>1. CASE k = "fg"
  <2>1. y.bg[m] = x.bg[m] BY <1>1
  <2> QED BY <1>1, <2>1 DEF AtWork
<1>2. CASE k = "bg" BY <1>2 DEF AtWork
<1> QED BY <1>1, <1>2

LEMMA TaskLocks ==
  ASSUME LoadOK, LocksAreHeld, NEW r \in Run, Stage(r), IsMemory(mem'),
         SameObjects(mem, mem'), NEW k \in {"fg", "bg"}, NEW m \in Id,
         \/ LoaderReturns(r, k, m) \/ LoaderThrows(r, k, m) \/ LoaderAborts(r, k, m)
         \/ \E e \in {"redirect", "notFound"} : LoaderFails(r, k, m, e)
         \/ LazyArrives(r, k, m) \/ ErrorChunkArrives(r, k, m)
         \/ WakeLoader(r, m) \/ FinishTask(r, m) \/ FinishBackground(r, m)
  PROVE  Passes(mem, mem', r, run'[r])
<1> DEFINE x == run[r]
           y == run'[r]
<1>0. IsMemory(mem) /\ DOMAIN run = Run BY DEF LoadOK, RunsOK
<1>1. x.pc # "before"
  <2>1. x.fg[m].st # "none" \/ x.bg[m].st # "none"
    BY DEF LoaderReturns, LoaderThrows, LoaderAborts, LoaderFails, LazyArrives,
           ErrorChunkArrives, WakeLoader, FinishTask, FinishBackground
  <2> QED BY <2>1 DEF Stage, BeforePC
<1>2. ASSUME NEW j \in {"fg", "bg"}, NEW st, Move(r, j, m, st) \/ Reject(r, j, m, st),
             Frees(mem, mem'),
             \/ ~Known(mem, m)
             \/ AtWork(run[r], m) => AtWork(run'[r], m)
             \/ mem'.bag[m][GetMatch(mem, m).obj].loaderP = 0
      PROVE  Passes(mem, mem', r, run'[r])
  <2>1. \A i \in {"fg", "bg"}, n \in Id : <<i, n>> # <<j, m>> => y[i][n] = x[i][n]
    BY <1>2, MoveIs
  <2>2. \A n \in Id : n # m => y.fg[n] = x.fg[n] /\ y.bg[n] = x.bg[n] BY <2>1
  <2> HIDE DEF x, y
  <2> QED BY <1>1, <1>2, <2>2, TaskPasses DEF x, y
<1>3. ASSUME NEW s, NEW st \in Busy, IsMemory(s), Frees(mem, s), Frees(s, mem'),
             x[k][m].st \in Busy, Move(r, k, m, st)
      PROVE  Passes(mem, mem', r, run'[r])
  <2>1. /\ \A i \in {"fg", "bg"}, n \in Id : <<i, n>> # <<k, m>> => y[i][n] = x[i][n]
        /\ y[k][m].st = st
    BY <1>3, MoveIs
  <2>2. AtWork(x, m) => AtWork(y, m)
    <3> HIDE DEF x, y
    <3> QED BY <1>3, <2>1, BusyPasses
  <2>3. PICK t : t = mem' OBVIOUS
  <2>4. Frees(mem, t) BY <1>3, <2>3, FreesTrans
  <2> HIDE DEF x, y
  <2> QED BY <1>2, <1>3, <2>2, <2>3, <2>4 DEF x, y
<1>4. ASSUME NEW s, IsMemory(s), Frees(mem, s), x[k][m].st \in {"run", "lazy", "chunk"},
             \/ Continue(r, k, m, AwaitLazy(s, r, m))
             \/ Continue(r, k, m, AwaitErrorChunk(s, r, m))
      PROVE  Passes(mem, mem', r, run'[r])
  <2>1. PICK st \in {"lazy", "chunk", "returned"} :
          /\ Move(r, k, m, st)
          /\ mem' = AwaitLazy(s, r, m)[1] \/ mem' = AwaitErrorChunk(s, r, m)[1]
    BY <1>4, LoaderStates DEF Continue
  <2>2. Frees(s, AwaitLazy(s, r, m)[1]) /\ Frees(s, AwaitErrorChunk(s, r, m)[1])
    BY <1>4, AwaitFrees
  <2>3. Frees(s, mem') BY <2>1, <2>2
  <2> HIDE DEF x
  <2> QED BY <1>3, <1>4, <2>1, <2>3 DEF Busy
<1>5. CASE LoaderReturns(r, k, m)
  <2> DEFINE d == [Stored(mem, m) EXCEPT !.data = TRUE]
             s == Update(mem, r, m, d)
  <2>1. IsMemory(s) BY <1>0, FlagTame, TameType
  <2>2. Frees(mem, s)
    <3> HIDE DEF d
    <3> QED BY <1>0, UpdateBag, SameBagFrees
  <2>3. Continue(r, k, m, AwaitLazy(s, r, m)) /\ x[k][m].st = "run"
    BY <1>5 DEF LoaderReturns
  <2> HIDE DEF s, x
  <2> QED BY <1>4, <2>1, <2>2, <2>3
<1>6. CASE LoaderThrows(r, k, m)
  BY <1>0, <1>4, <1>6, FreesSelf DEF LoaderThrows
<1>7. CASE LoaderAborts(r, k, m)
  <2>0. x[k][m].st = "run" /\ x[k][m].obj \in Obj
    BY <1>7, TaskType DEF LoaderAborts, Task
  <2>1. mem' = Abort(mem, r, m, x[k][m]) /\ Move(r, k, m, "returned")
    BY <1>7 DEF LoaderAborts, Continue
  <2>2. Frees(mem, mem') BY <1>0, <2>0, <2>1, AbortFrees
  <2> HIDE DEF x
  <2> QED BY <1>0, <1>3, <2>0, <2>1, <2>2, FreesSelf DEF Busy
<1>8. ASSUME NEW j \in {"fg", "bg"}, NEW e \in {"redirect", "notFound"},
             mem' = Fail(mem, r, m, e), Reject(r, j, m, e)
      PROVE  Passes(mem, mem', r, run'[r])
  <2>1. /\ Frees(mem, mem')
        /\ Known(mem, m) => mem'.bag[m][GetMatch(mem, m).obj].loaderP = 0
    BY <1>0, <1>8, FailFrees
  <2> QED BY <1>2, <1>8, <2>1
<1>9. ASSUME NEW e \in {"redirect", "notFound"}, LoaderFails(r, k, m, e)
      PROVE  Passes(mem, mem', r, run'[r])
  BY <1>8, <1>9 DEF LoaderFails
<1>10. CASE LazyArrives(r, k, m) BY <1>0, <1>4, <1>10, FreesSelf DEF LazyArrives
<1>11. CASE ErrorChunkArrives(r, k, m)
  BY <1>0, <1>4, <1>11, FreesSelf DEF ErrorChunkArrives
<1>12. ASSUME NEW st, Move(r, "fg", m, st), x.fg[m].st = "wait"
       PROVE  AtWork(x, m) => AtWork(y, m)
  <2>1. y.bg[m] = x.bg[m] BY <1>12, MoveIs
  <2> QED BY <1>12, <2>1 DEF AtWork, Busy
<1>13. CASE WakeLoader(r, m)
  <2> DEFINE h == HandleLoader(mem, r, m, x.fg[m].preload, FALSE)
  <2>0. x.fg[m].st = "wait" BY <1>13 DEF WakeLoader
  <2>1. \/ mem' = mem /\ Move(r, "fg", m, "crash")
        \/ mem' = mem /\ Move(r, "fg", m, "redirect")
        \/ mem' = Fail(mem, r, m, "notFound") /\ Reject(r, "fg", m, "notFound")
        \/ mem' = h[1] /\ run' = [run EXCEPT ![r] = h[2]]
        \/ Known(mem, m) /\ mem' = Finalize(mem, r, m) /\ Move(r, "fg", m, "ok")
    BY <1>13 DEF WakeLoader
  <2>2. CASE mem' = mem /\ (Move(r, "fg", m, "crash") \/ Move(r, "fg", m, "redirect"))
    BY <1>2, <1>12, <2>0, <2>2, FreesSelf
  <2>3. CASE mem' = Fail(mem, r, m, "notFound") /\ Reject(r, "fg", m, "notFound")
    BY <1>8, <2>3
  <2>4. CASE mem' = h[1] /\ run' = [run EXCEPT ![r] = h[2]]
    <3>1. Frees(mem, h[1]) BY <1>0, HandleLoaderFrees
    <3>2. \A n \in Id \ {m} : h[2].fg[n] = x.fg[n] /\ h[2].bg[n] = x.bg[n]
      <4>1. PICK p : p = x.fg[m].preload OBVIOUS
      <4>2. PICK stale : stale = FALSE OBVIOUS
      <4>3. h = HandleLoader(mem, r, m, p, stale) BY <4>1, <4>2
      <4> HIDE DEF h
      <4> QED BY <4>3, HandleLoaderOthers
    <3>3. AtWork(x, m) => AtWork(h[2], m)
      <4>1. AtWork(x, m) => x.bg[m].st \in Busy BY <2>0 DEF AtWork, Busy
      <4> QED BY <4>1, HandleLoaderWorks
    <3> HIDE DEF h
    <3>4. y = h[2] BY <1>0, <2>4
    <3> HIDE DEF x, y
    <3> QED BY <1>1, <2>4, <3>1, <3>2, <3>3, <3>4, TaskPasses DEF x, y
  <2>5. CASE Known(mem, m) /\ mem' = Finalize(mem, r, m) /\ Move(r, "fg", m, "ok")
    BY <1>0, <1>2, <1>12, <2>0, <2>5, FinalizeFrees
  <2> HIDE DEF h
  <2> QED BY <2>1, <2>2, <2>3, <2>4, <2>5
<1>14. CASE FinishTask(r, m)
  <2>1. CASE Known(mem, m)
    <3>1. mem' = Finalize(mem, r, m) /\ Move(r, "fg", m, "ok")
      BY <1>14, <2>1 DEF FinishTask
    <3>2. /\ Frees(mem, mem')
          /\ x.bg[m].st = "none" => mem'.bag[m][GetMatch(mem, m).obj].loaderP = 0
      BY <1>0, <2>1, <3>1, FinalizeFrees
    <3>3. y.bg[m] = x.bg[m] BY <3>1, MoveIs
    <3>4. x.bg[m].st # "none" /\ AtWork(x, m) => AtWork(y, m) BY <3>3 DEF AtWork
    <3> HIDE DEF x, y
    <3> QED BY <1>2, <3>1, <3>2, <3>4 DEF x, y
  <2>2. CASE ~Known(mem, m)
    <3>1. mem' = mem /\ Move(r, "fg", m, "crash") BY <1>14, <2>2 DEF FinishTask
    <3> QED BY <1>2, <2>2, <3>1, FreesSelf
  <2> QED BY <2>1, <2>2
<1>15. CASE FinishBackground(r, m)
  <2>1. Move(r, "bg", m, "ok") BY <1>15 DEF FinishBackground
  <2>2. CASE ~Known(mem, m) BY <1>2, <1>15, <2>1, <2>2, FreesSelf DEF FinishBackground
  <2>3. CASE Known(mem, m)
    <3> DEFINE o == GetMatch(mem, m).obj
    <3>1. o \in Obj BY <1>0, <2>3, KnownMatch DEF Match
    <3>2. mem' = Unlock(mem, m, o) BY <1>15, <2>3 DEF FinishBackground
    <3> HIDE DEF o
    <3>3. Frees(mem, mem') /\ mem'.bag[m][o].loaderP = 0 BY <1>0, <3>1, <3>2, UnlockFrees
    <3> QED BY <1>2, <2>1, <3>3 DEF o
  <2> QED BY <2>2, <2>3
<1> QED BY <1>5, <1>6, <1>7, <1>9, <1>10, <1>11, <1>13, <1>14, <1>15

-----------------------------------------------------------------------------
(* ... when the tasks are settled *)

LEMMA SettleKeeps ==
  ASSUME LoadOK, NEW r \in Run,
         Settle(r) \/ NotFoundChunkArrives(r) \/ SerialChunkArrives(r) \/ Ready(r)
  PROVE  /\ run[r].pc # "before" /\ mem'.bag = mem.bag
         /\ run'[r].fg = run[r].fg /\ run'[r].bg = run[r].bg
<1> DEFINE x == run[r]
<1>0. IsRun(x) /\ IsMemory(mem) /\ DOMAIN run = Run
  BY RunType DEF RunOK, LoadOK, RunsOK
<1>1. \A y : run' = [run EXCEPT ![r] = y] /\ y.fg = x.fg /\ y.bg = x.bg
         => run'[r].fg = x.fg /\ run'[r].bg = x.bg
  BY <1>0
<1>2. \A res : End(x, res).fg = x.fg /\ End(x, res).bg = x.bg BY <1>0, EndIs
<1>3. \A pc : /\ [x EXCEPT !.pc = pc].fg = x.fg /\ [x EXCEPT !.pc = pc].bg = x.bg
              /\ \A b : /\ [x EXCEPT !.pc = pc, !.nf = b].fg = x.fg
                        /\ [x EXCEPT !.pc = pc, !.nf = b].bg = x.bg
  BY <1>0 DEF IsRun
<1> HIDE DEF x
<1>4. ASSUME NEW s, IsMemory(s), s.bag = mem.bag, ThenError(r, s, x)
      PROVE  /\ mem'.bag = mem.bag
             /\ run'[r].fg = x.fg /\ run'[r].bg = x.bg
  <2>1. \A n : StartChunk(s, n).bag = s.bag BY <1>4, ChunkBag
  <2> QED BY <1>1, <1>3, <1>4, <2>1 DEF ThenError
<1>5. \A s, m, d : IsMemory(s) => Update(s, r, m, d).bag = s.bag BY UpdateBag
<1>6. CASE Settle(r)
  <2> DEFINE b == NotFoundAt(r)
  <2>1. x.pc = "settle" BY <1>6 DEF Settle, x
  <2>2. IsMemory(MarkBoundary(r, b)) /\ MarkBoundary(r, b).bag = mem.bag
    <3>1. Tame(mem, MarkBoundary(r, b)) BY <1>0, FlagTame DEF MarkBoundary
    <3> QED BY <1>0, <1>5, <3>1, TameType DEF MarkBoundary
  <2>3. IsMemory(ClearGlobalNotFound(r)) /\ ClearGlobalNotFound(r).bag = mem.bag
    <3>1. Tame(mem, ClearGlobalNotFound(r)) BY <1>0, TameSelf, FlagTame DEF ClearGlobalNotFound
    <3> QED BY <1>0, <1>5, <3>1, TameType DEF ClearGlobalNotFound
  <2>4. \/ mem' = mem /\ \E res : run' = [run EXCEPT ![r] = End(x, res)]
        \/ /\ mem' = StartChunk(MarkBoundary(r, b), PathOf(r)[b])
           /\ run' = [run EXCEPT ![r] = [x EXCEPT !.pc = "nfChunk", !.nf = b]]
        \/ ThenError(r, ClearGlobalNotFound(r), x)
    BY <1>6 DEF Settle, x
  <2>5. \A n : StartChunk(MarkBoundary(r, b), n).bag = mem.bag BY <2>2, ChunkBag
  <2>6. [x EXCEPT !.pc = "nfChunk", !.nf = b].fg = x.fg
        /\ [x EXCEPT !.pc = "nfChunk", !.nf = b].bg = x.bg
    BY <1>3
  <2> HIDE DEF b
  <2>7. CASE mem' = mem /\ \E res : run' = [run EXCEPT ![r] = End(x, res)]
    BY <1>1, <1>2, <2>1, <2>7 DEF x
  <2>8. CASE /\ mem' = StartChunk(MarkBoundary(r, b), PathOf(r)[b])
             /\ run' = [run EXCEPT ![r] = [x EXCEPT !.pc = "nfChunk", !.nf = b]]
    BY <1>1, <2>1, <2>5, <2>6, <2>8 DEF x
  <2>9. CASE ThenError(r, ClearGlobalNotFound(r), x)
    BY <1>4, <2>1, <2>3, <2>9 DEF x
  <2> QED BY <2>4, <2>7, <2>8, <2>9
<1>7. CASE NotFoundChunkArrives(r)
  <2>1. /\ x.pc = "nfChunk"
        /\ \/ mem' = mem /\ run' = [run EXCEPT ![r] = End(x, "error")]
           \/ ThenError(r, mem, x)
    BY <1>7 DEF NotFoundChunkArrives, x
  <2> QED BY <1>0, <1>1, <1>2, <1>4, <2>1 DEF x
<1>8. CASE SerialChunkArrives(r)
  <2>1. /\ x.pc = "errChunk" /\ mem' = mem
        /\ \/ run' = [run EXCEPT ![r] = End(x, "error")]
           \/ run' = [run EXCEPT ![r] = [x EXCEPT !.pc = "ready"]]
    BY <1>8 DEF SerialChunkArrives, x
  <2> QED BY <1>1, <1>2, <1>3, <2>1 DEF x
<1>9. CASE Ready(r)
  <2> DEFINE v == [x EXCEPT !.rendered = TRUE]
  <2>1. PICK old \in Aged, res \in {"notFound", "ok"} :
        /\ x.pc = "ready" /\ run' = [run EXCEPT ![r] = End(v, res)]
        /\ mem' = IF IsPreload(r) \/ x.rendered THEN mem ELSE OnReady(mem, old)
    BY <1>9 DEF Ready, x
  <2>2. IsRun(v) /\ v.fg = x.fg /\ v.bg = x.bg BY <1>0 DEF IsRun, x
  <2> HIDE DEF v
  <2>3. End(v, res).fg = x.fg /\ End(v, res).bg = x.bg BY <2>2, EndIs
  <2>4. mem'.bag = mem.bag BY <1>0, <2>1, OnReadyBag
  <2> QED BY <1>1, <2>1, <2>3, <2>4 DEF x
<1> QED BY <1>6, <1>7, <1>8, <1>9 DEF x

LEMMA SettleLocks ==
  ASSUME LoadOK, LocksAreHeld, NEW r \in Run, IsMemory(mem'), SameObjects(mem, mem'),
         Settle(r) \/ NotFoundChunkArrives(r) \/ SerialChunkArrives(r) \/ Ready(r)
  PROVE  Passes(mem, mem', r, run'[r])
<1>1. /\ run[r].pc # "before" /\ mem'.bag = mem.bag
      /\ run'[r].fg = run[r].fg /\ run'[r].bg = run[r].bg
  BY SettleKeeps
<1>2. Frees(mem, mem') BY <1>1, SameBagFrees
<1>3. \A n, o : ~Executes(run[r], n, o) BY <1>1 DEF Executes
<1>4. PICK y : y = run'[r] OBVIOUS
<1>5. \A n \in Id : AtWork(run[r], n) => AtWork(y, n) BY <1>1, <1>4 DEF AtWork
<1> QED BY <1>2, <1>3, <1>4, <1>5, FreesPasses

-----------------------------------------------------------------------------
(* The promises stay with runs at work on the match *)

LEMMA StepLocks ==
  ASSUME LoadOK, LocksAreHeld, NEW r \in Run, Stage(r), IsMemory(mem'),
         SameObjects(mem, mem'), UserResult(r) \/ Continuation(r)
  PROVE  Passes(mem, mem', r, run'[r])
<1>1. ASSUME NEW k \in {"fg", "bg"}, NEW m \in Id,
             \/ LoaderReturns(r, k, m) \/ LoaderThrows(r, k, m) \/ LoaderAborts(r, k, m)
             \/ \E e \in {"redirect", "notFound"} : LoaderFails(r, k, m, e)
             \/ LazyArrives(r, k, m) \/ ErrorChunkArrives(r, k, m)
             \/ WakeLoader(r, m) \/ FinishTask(r, m) \/ FinishBackground(r, m)
      PROVE  Passes(mem, mem', r, run'[r])
  BY <1>1, TaskLocks
<1>2. CASE UserResult(r)
  BY <1>1, <1>2, BeforeLocks DEF UserResult
<1>3. CASE Continuation(r)
  <2>1. \A m \in Id : WakeLoader(r, m) \/ FinishTask(r, m) \/ FinishBackground(r, m)
                        => Passes(mem, mem', r, run'[r])
    BY <1>1
  <2>2. \A k \in {"fg", "bg"}, m \in Id :
          LazyArrives(r, k, m) \/ ErrorChunkArrives(r, k, m)
            => Passes(mem, mem', r, run'[r])
    BY <1>1
  <2> QED BY <1>3, <2>1, <2>2, BeforeLocks, LaunchLocks, SettleLocks DEF Continuation
<1> QED BY <1>2, <1>3

LEMMA LoadMatchesLocks ==
  ASSUME Inv, Stages, LocksAreHeld, NEW r \in Run, LoadMatchesStep(r)
  PROVE  LocksAreHeld'
<1>0. /\ LoadOK /\ IsMemory(mem) /\ Sound(mem, latest) /\ latest \in Loc /\ Stage(r)
      /\ UserResult(r) \/ Continuation(r)
  BY DEF Inv, LoadOK, RouterOK, Stages, LoadMatchesStep
<1>1. LoadStep(latest) BY <1>0, LoadMatchesSteps
<1>2. IsMemory(mem') BY <1>1, TameType DEF LoadStep, Committed
<1>3. SameObjects(mem, mem') BY <1>0, <1>1, StepObjects
<1>4. Passes(mem, mem', r, run'[r]) BY <1>0, <1>2, <1>3, StepLocks
<1>5. \A q \in Run : q # r => run'[q] = run[q] BY LoadMatchesStages
<1>6. PICK t, ts : t = mem' /\ ts = run' OBVIOUS
<1>7. LocksHeld(t, ts) BY <1>4, <1>5, <1>6, PassesHeld DEF LocksAreHeld
<1> QED BY <1>6, <1>7 DEF LocksAreHeld, LocksHeld

\* A step that takes no promise, nor any run from its work.
LEMMA QuietHeld ==
  ASSUME LocksAreHeld, Keeps(mem, mem'),
         \A q \in Run, m \in Id :
           /\ AtWork(run[q], m) => AtWork(run'[q], m)
           /\ \A o : Executes(run[q], m, o) => Executes(run'[q], m, o)
  PROVE  LocksAreHeld'
<1> SUFFICES ASSUME NEW m \in Id, NEW q \in Run, NEW o, o = GetMatch(mem', m).obj,
                    Known(mem', m)
             PROVE  /\ mem'.bag[m][o].beforeP = q => Executes(run'[q], m, o)
                    /\ mem'.bag[m][o].loaderP = q => AtWork(run'[q], m)
  BY DEF LocksAreHeld, LocksHeld
<1>1. /\ \/ mem'.bag[m][o].beforeP = 0
         \/ /\ Known(mem, m) /\ o = GetMatch(mem, m).obj
            /\ mem'.bag[m][o].beforeP = mem.bag[m][o].beforeP
      /\ \/ mem'.bag[m][o].loaderP = 0
         \/ /\ Known(mem, m) /\ o = GetMatch(mem, m).obj
            /\ mem'.bag[m][o].loaderP = mem.bag[m][o].loaderP
  BY DEF Keeps
<1>2. q # 0 BY DEF Run
<1>3. Known(mem, m) /\ o = GetMatch(mem, m).obj =>
        /\ mem.bag[m][o].beforeP = q => Executes(run[q], m, o)
        /\ mem.bag[m][o].loaderP = q => AtWork(run[q], m)
  BY DEF LocksAreHeld, LocksHeld
<1> QED BY <1>1, <1>2, <1>3

LEMMA EnvironmentLocks ==
  ASSUME Inv, Stages, LocksAreHeld, EnvironmentStep
  PROVE  LocksAreHeld'
<1>0. /\ LoadOK /\ IsMemory(mem) /\ Sound(mem, latest) /\ latest \in Loc
  BY DEF Inv, LoadOK, RouterOK
<1>1. LoadStep(latest) BY <1>0, EnvironmentSteps DEF EnvironmentStep
<1>2. IsMemory(mem') BY <1>1, TameType DEF LoadStep, Committed
<1>3. SameObjects(mem, mem') BY <1>0, <1>1, StepObjects
<1>4. Frees(mem, mem') => Keeps(mem, mem')
  <2>1. PICK t : t = mem' OBVIOUS
  <2> QED BY <1>2, <1>3, <2>1, FreesKeeps
<1>5. CASE \E m \in Id, o \in Obj : PendingTimeout(m, o)
  <2>1. PICK m \in Id, o \in Obj : PendingTimeout(m, o) BY <1>5
  <2>2. PICK r \in Run :
          /\ \A q \in Run : q # r => run'[q] = run[q]
          /\ \A f \in DOMAIN run[r] : f # "rendered" => run'[r][f] = run[r][f]
    BY <1>0, <2>1, TimeoutRun
  <2>3. IsRun(run[r]) BY <1>0, RunType DEF RunOK
  <2>4. /\ run'[r].pc = run[r].pc /\ run'[r].loc = run[r].loc
        /\ run'[r].idx = run[r].idx /\ run'[r].bobj = run[r].bobj
        /\ run'[r].fg = run[r].fg /\ run'[r].bg = run[r].bg
    BY <2>2, <2>3 DEF IsRun
  <2>5. \A q \in Run, n \in Id :
          /\ AtWork(run[q], n) => AtWork(run'[q], n)
          /\ \A p : Executes(run[q], n, p) => Executes(run'[q], n, p)
    BY <2>2, <2>4 DEF AtWork, Executes
  <2>6. Frees(mem, mem')
    <3> DEFINE s == [mem EXCEPT !.bag[m][o].fired = TRUE]
    <3>1. Frees(mem, s) BY <1>0, FieldFrees
    <3>2. Tame(mem, s) BY <1>0, FieldTame
    <3>3. mem' = s \/ \E old : mem' = OnReady(s, old) BY <2>1 DEF PendingTimeout
    <3> HIDE DEF s
    <3>4. \A old : OnReady(s, old).bag = s.bag BY <3>2, TameType, OnReadyBag
    <3>5. mem'.bag = s.bag BY <3>3, <3>4
    <3> QED BY <3>1, <3>5 DEF Frees
  <2> QED BY <1>4, <2>5, <2>6, QuietHeld
<1>6. CASE \/ \E rt \in LazyRoutes : ChunkLoads(rt) \/ ChunkFails(rt)
           \/ RunViewTransition
  <2>1. mem'.bag = mem.bag /\ run' = run
    <3>1. \A old : [Commit(mem, old) EXCEPT !.isLoading = FALSE,
                                            !.commits = @ - 1].bag = mem.bag
      BY <1>0, CommitBag DEF Commit, IsMemory
    <3> QED BY <1>0, <1>6, <3>1 DEF ChunkLoads, ChunkFails, RunViewTransition, IsMemory
  <2>2. Frees(mem, mem') BY <2>1, SameBagFrees
  <2> QED BY <1>4, <2>1, <2>2, QuietHeld
<1> QED BY <1>5, <1>6 DEF EnvironmentStep, Environment

LEMMA RunEnds ==
  ASSUME NEW rs, DOMAIN rs = Run, LocksAreHeld, NEW r \in Run,
         \A q \in Run : q # r => rs[q] = run[q],
         \A m \in Id : /\ AtWork(run[r], m) => AtWork(rs[r], m)
                       /\ \A o : ~Executes(run[r], m, o)
  PROVE  LocksHeld(mem, rs)
BY DEF LocksAreHeld, LocksHeld

\* A new run finds no promise that is its own: it had no work before.
LEMMA NewRunLocks ==
  ASSUME Stages, NEW rs, LocksHeld(mem, rs), NEW r \in Run, rs[r] = run[r],
         run[r].kind = "free", Keeps(mem, mem'), \A q \in Run : q # r => run'[q] = rs[q]
  PROVE  LocksAreHeld'
<1>1. \A m \in Id : ~AtWork(rs[r], m) /\ \A o : ~Executes(rs[r], m, o)
  BY DEF Stages, Stage, AtWork, Executes, Busy
<1>2. PICK t, ts : t = mem' /\ ts = run' OBVIOUS
<1>3. Passes(mem, t, r, ts[r])
  <2>1. PICK y : y = ts[r] OBVIOUS
  <2>2. Keeps(mem, t) BY <1>2
  <2> QED BY <1>1, <2>1, <2>2, KeepsPasses
<1>4. LocksHeld(t, ts) BY <1>2, <1>3, PassesHeld
<1> QED BY <1>2, <1>4 DEF LocksAreHeld, LocksHeld

\* What a load and a preload start from: no promise is taken by matchRoutes.
LEMMA StartsLocks ==
  ASSUME Inv, Stages, NEW rs, DOMAIN rs = Run, LocksHeld(mem, rs),
         \A q \in FreeRuns : rs[q] = run[q], NEW s, Tame(mem, s), s.bag = mem.bag,
         NEW l \in Loc, NEW sync,
         Load(s, rs, l, sync) \/ (s = mem /\ StartPreload(s, rs, l))
  PROVE  LocksAreHeld'
<1> DEFINE r == NextRun
<1>1. r \in Run /\ r \in FreeRuns /\ run[r].kind = "free" /\ rs[r] = run[r]
  BY DEF Load, StartPreload, NextRun, FreeRuns
<1>2. \A q \in Run : q # r => run'[q] = rs[q] BY DEF Load, StartPreload
<1>3. /\ IsMemory(mem) /\ Sound(mem, latest) /\ IsMemory(s) /\ Sound(s, latest)
  BY TameSound DEF Inv, LoadOK
<1> HIDE DEF r
<1>4. Keeps(mem, s)
  <2>1. SameObjects(mem, s) BY <1>3, TameObjects
  <2> QED BY <1>3, <2>1, SameBagFrees, FreesKeeps
<1>5. Keeps(mem, mem')
  <2>1. CASE Load(s, rs, l, sync)
    <3> DEFINE t == [IngestPending(s, l, r) EXCEPT !.isLoading = TRUE]
    <3>1. mem' = t BY <2>1 DEF Load, r
    <3>2. Keeps(s, t) BY <1>1, <1>3, IngestPendingKeeps
    <3> HIDE DEF t
    <3>3. Keeps(mem, t) BY <1>4, <3>2, KeepsTrans
    <3> QED BY <3>1, <3>3
  <2>2. CASE s = mem /\ StartPreload(s, rs, l)
    <3> DEFINE t == IngestPreload(mem, l, r)
    <3>1. mem' = t BY <2>2 DEF StartPreload, r
    <3>2. Keeps(mem, t) BY <1>1, <1>3, IngestPreloadKeeps
    <3> HIDE DEF t
    <3> QED BY <3>1, <3>2
  <2> QED BY <2>1, <2>2
<1> QED BY <1>1, <1>2, <1>5, NewRunLocks

LEMMA UserActionLocks ==
  ASSUME Inv, Stages, LocksAreHeld, UserAction
  PROVE  LocksAreHeld'
<1>0. /\ LoadOK /\ IsMemory(mem) /\ DOMAIN run = Run /\ latest \in Loc
      /\ Sound(mem, latest) /\ LocksHeld(mem, run) /\ Tame(mem, mem)
  BY TameSelf DEF Inv, LoadOK, RunsOK, RouterOK, LocksAreHeld
<1>1. ASSUME NEW l \in Loc, Navigate(l) \/ PopState(l) \/ Preload(l) PROVE LocksAreHeld'
  BY <1>0, <1>1, StartsLocks DEF Navigate, PopState, Preload
<1>2. ASSUME NEW force \in BOOLEAN, NEW sync \in BOOLEAN, Invalidate(force, sync)
      PROVE  LocksAreHeld'
  <2> DEFINE s == InvalidateAll(mem, force)
  <2>1. Tame(mem, s) /\ s.bag = mem.bag BY <1>0, InvalidateTame, InvalidateBag
  <2>2. Load(s, run, latest, sync) BY <1>2 DEF Invalidate
  <2> HIDE DEF s
  <2> QED BY <1>0, <2>1, <2>2, StartsLocks
<1>3. ASSUME NEW S \in SUBSET Id, ClearCache(S) PROVE LocksAreHeld'
  <2> DEFINE t == [mem EXCEPT !.cached = Drop(@, S)]
  <2>1. mem' = t /\ run' = run BY <1>3 DEF ClearCache
  <2>2. Tame(mem, t) /\ t.bag = mem.bag BY <1>0, ClearTame DEF IsMemory
  <2> HIDE DEF t
  <2>3. SameObjects(mem, t) BY <1>0, <2>2, TameObjects
  <2>4. Keeps(mem, t) BY <2>2, <2>3, TameType, SameBagFrees, FreesKeeps
  <2> QED BY <2>1, <2>4, QuietHeld
<1> QED BY <1>1, <1>2, <1>3 DEF UserAction

LEMMA RouterStepLocks ==
  ASSUME Inv, Stages, LocksAreHeld, NEW r \in Run, RouterStep(r)
  PROVE  LocksAreHeld'
<1>0. /\ LoadOK /\ IsMemory(mem) /\ DOMAIN run = Run /\ RedirectTo \in Loc /\ Stage(r)
      /\ Tame(mem, mem) /\ IsRun(run[r])
  BY RouterAssumption, TameSelf, RunType DEF Inv, LoadOK, RunsOK, RunOK, Stages
<1>1. CASE EndLoad(r) \/ FollowRedirect(r) \/ EndPreload(r)
  <2> DEFINE x == Done(run[r])
             rs == [run EXCEPT ![r] = x]
  <2>1. /\ run[r].pc = "end"
        /\ \/ run' = rs /\ mem' = mem
           \/ Load(mem, rs, RedirectTo, FALSE)
           \/ StartPreload(mem, rs, RedirectTo)
    BY <1>1 DEF EndLoad, FollowRedirect, EndPreload
  <2>2. x.bg = run[r].bg BY DEF Done, FreeRun
  <2> HIDE DEF x
  <2>3. DOMAIN rs = Run /\ rs[r] = x /\ \A q \in Run : q # r => rs[q] = run[q]
    BY <1>0
  <2> HIDE DEF rs
  <2>4. \A m \in Id : /\ AtWork(run[r], m) => AtWork(x, m)
                      /\ \A o : ~Executes(run[r], m, o)
    BY <1>0, <2>1, <2>2 DEF Stage, AtWork, Busy, Ended, Executes
  <2>5. LocksHeld(mem, rs) BY <2>3, <2>4, RunEnds
  <2>6. \A q \in FreeRuns : rs[q] = run[q] BY <1>0, <2>1, <2>3 DEF FreeRuns, Stage
  <2>7. CASE run' = rs /\ mem' = mem BY <2>5, <2>7 DEF LocksAreHeld, LocksHeld
  <2>8. CASE Load(mem, rs, RedirectTo, FALSE) \/ StartPreload(mem, rs, RedirectTo)
    BY <1>0, <2>3, <2>5, <2>6, <2>8, StartsLocks
  <2> QED BY <2>1, <2>7, <2>8
<1>2. ASSUME NEW m \in Id, BackgroundRedirect(r, m) PROVE LocksAreHeld'
  <2> DEFINE t == At("ok")
             x == [run[r] EXCEPT !.bg[m] = t]
             rs == [run EXCEPT ![r] = x]
  <2>1. Load(mem, rs, RedirectTo, FALSE) /\ run[r].bg[m].st = "redirect"
    BY <1>2 DEF BackgroundRedirect
  <2> HIDE DEF t
  <2>2. /\ x.fg = run[r].fg /\ x.pc = run[r].pc /\ x.loc = run[r].loc
        /\ x.idx = run[r].idx /\ x.bobj = run[r].bobj
        /\ \A n \in Id : n # m => x.bg[n] = run[r].bg[n]
    BY <1>0 DEF IsRun
  <2> HIDE DEF x
  <2>3. DOMAIN rs = Run /\ rs[r] = x /\ \A q \in Run : q # r => rs[q] = run[q]
    BY <1>0
  <2> HIDE DEF rs
  <2>4. run[r].pc # "before" /\ run[r].kind # "free"
    BY <1>0, <2>1 DEF Stage, BeforePC
  <2>5. \A n \in Id : /\ AtWork(run[r], n) => AtWork(rs[r], n)
                      /\ \A o : ~Executes(run[r], n, o)
    BY <2>1, <2>2, <2>3, <2>4 DEF AtWork, Busy, Executes
  <2>6. LocksHeld(mem, rs) BY <2>3, <2>5, RunEnds
  <2>7. \A q \in FreeRuns : rs[q] = run[q] BY <2>3, <2>4 DEF FreeRuns
  <2> QED BY <1>0, <2>1, <2>3, <2>6, <2>7, StartsLocks
<1> QED BY <1>1, <1>2 DEF RouterStep

LEMMA NextLocks == Inv /\ Stages /\ LocksAreHeld /\ [Next]_vars => LocksAreHeld'
<1> SUFFICES ASSUME Inv, Stages, LocksAreHeld, [Next]_vars PROVE LocksAreHeld'
  OBVIOUS
<1>1. run' = run /\ mem' = mem => LocksAreHeld' BY DEF LocksAreHeld, LocksHeld
<1> QED BY <1>1, UserActionLocks, RouterStepLocks, LoadMatchesLocks,
           EnvironmentLocks DEF Next, Resolve, vars, loadVars

LEMMA InitLocks == Init => LocksAreHeld
<1> SUFFICES ASSUME Init, NEW m \in Id, NEW q \in Run, NEW o, o = GetMatch(mem, m).obj,
                    Known(mem, m)
             PROVE  mem.bag[m][o].beforeP # q /\ mem.bag[m][o].loaderP # q
  BY DEF LocksAreHeld, LocksHeld
<1>1. o \in Obj BY InitCorrect, KnownMatch DEF Inv, LoadOK, Match
<1>2. mem.bag[m][o] = EmptyBag BY <1>1 DEF Init
<1> QED BY <1>2 DEF EmptyBag, Run

LEMMA LocksInvariance == Spec => [](Inv /\ Stages /\ LocksAreHeld)
<1>1. Init => Inv /\ Stages /\ LocksAreHeld BY InitCorrect, InitStages, InitLocks
<1>2. Inv /\ Stages /\ LocksAreHeld /\ [Next]_vars
        => (Inv /\ Stages /\ LocksAreHeld)'
  BY NextCorrect, NextStages, NextLocks DEF Correct
<1> QED BY <1>1, <1>2, PTL DEF Spec

\* A beforeLoadPromise or loaderPromise of a match in the pools belongs to a
\* run that is inside that beforeLoad, or at work on that loader: whatever
\* loads, preloads, failures, redirects, cancellations and commits interleave,
\* no run ends or moves on and leaves its lock behind.
THEOREM LocksBelongToTheirRuns == Spec => []LocksAreHeld
BY LocksInvariance, PTL

\* When no run is left, no match of any pool is locked.
THEOREM NoLockOutlivesItsRun ==
  Spec => [](RunsOver => \A m \in Id : Known(mem, m) =>
               /\ mem.bag[m][GetMatch(mem, m).obj].beforeP = 0
               /\ mem.bag[m][GetMatch(mem, m).obj].loaderP = 0)
<1>1. Inv /\ Stages /\ LocksAreHeld =>
        (RunsOver => \A m \in Id : Known(mem, m) =>
           /\ mem.bag[m][GetMatch(mem, m).obj].beforeP = 0
           /\ mem.bag[m][GetMatch(mem, m).obj].loaderP = 0)
  <2> SUFFICES ASSUME Inv, Stages, LocksAreHeld, RunsOver, NEW m \in Id, Known(mem, m),
                      NEW o, o = GetMatch(mem, m).obj
               PROVE  mem.bag[m][o].beforeP = 0 /\ mem.bag[m][o].loaderP = 0
    OBVIOUS
  <2>1. \A q \in Run : ~Executes(run[q], m, o) /\ ~AtWork(run[q], m)
    BY DEF RunsOver, Stages, Stage, Executes, AtWork, Busy, Ended
  <2>2. o \in Obj BY KnownMatch DEF Inv, LoadOK, Match
  <2>3. mem.bag[m][o].beforeP \in Obj /\ mem.bag[m][o].loaderP \in Obj
    BY <2>2 DEF Inv, LoadOK, IsMemory, Bag
  <2>4. \A q \in Obj : q = 0 \/ q \in Run BY PathAssumption DEF Run, Obj
  <2> QED BY <2>1, <2>3, <2>4 DEF LocksAreHeld, LocksHeld
<1> QED BY <1>1, LocksInvariance, PTL

-----------------------------------------------------------------------------
(* Commits.  The router waits while matches are pending and no view         *)
(* transition is queued that will commit them.  Owns says of the latest     *)
(* load, at each of its stages, that it will commit, or that a redirect is  *)
(* about to supersede it; OwnerInv, that the page waits for nothing else.   *)

\* Matches await a commit that is not queued.
Waiting == mem.isLoading /\ mem.commits = 0

\* The latest load knows all its matches.  While they are not committed, it
\* keeps itself from committing only for a redirect, of a task or of a
\* background reload, that it has not followed yet.
Owns(r) ==
  LET x == run[r] IN
  /\ x.kind = "load" /\ x.loc = latest /\ x.pc \notin {"idle", "done"}
  /\ \A m \in Id : x.fg[m].st # "crash"
  /\ x.rendered /\ Waiting =>
       \/ x.pc = "end" /\ x.res = "redirect"
       \/ x.pc \in {"loaders", "settle"} /\ \E m \in Id : x.fg[m].st = "redirect"
       \/ \E m \in Id : x.bg[m].st = "redirect"
  /\ x.pc = "end" /\ x.res # "redirect" /\ Waiting =>
       \E m \in Id : x.bg[m].st = "redirect"

OwnerInv ==
  /\ latestLoad # 0 => Owns(latestLoad)
  /\ latestLoad = 0 => ~Waiting /\ ~commitP
  /\ ~ViewTransition => mem.commits = 0
  /\ \A rt \in Route : mem.lazy[rt] # "failed"


LEMMA OwnsSame ==
  ASSUME NEW r \in Run, run'[r] = run[r], latest' = latest,
         Waiting' => Waiting, Owns(r)
  PROVE  Owns(r)'
BY DEF Owns

\* Under the assumptions of the theorem.
LEMMA OwnsKept ==
  ASSUME Inv, NEW r \in Run, Stage(r), Owns(r), Advance(r),
         latest' = latest, Waiting' => Waiting,
         \A rt \in Route : mem.lazy[rt] # "failed"
  PROVE  Owns(r)'
<1> DEFINE x == run[r]
<1>0. LoadOK /\ Sound(mem, latest) /\ latest \in Loc BY DEF Inv, RouterOK
<1>1. PICK y : /\ run' = [run EXCEPT ![r] = y] /\ Placed(y)
               /\ \/ InBefore(r, y) \/ Launches(r, y)
                  \/ \E k \in {"fg", "bg"}, m \in Id : Works(r, k, m, y)
                  \/ Finishes(r, y) \/ Readies(r, y)
  BY DEF Advance
<1>2. run'[r] = y BY <1>0, <1>1 DEF LoadOK, RunsOK
<1>3. \A m \in PathIds(latest) : Known(mem, m) BY <1>0 DEF Sound, Known, PoolName
<1>4. /\ x.kind = "load" /\ x.loc = latest /\ x.pc \notin {"idle", "done"}
      /\ \A m \in Id : x.fg[m].st # "crash"
      /\ x.rendered /\ Waiting =>
           \/ x.pc = "end" /\ x.res = "redirect"
           \/ x.pc \in {"loaders", "settle"} /\ \E m \in Id : x.fg[m].st = "redirect"
           \/ \E m \in Id : x.bg[m].st = "redirect"
      /\ x.pc = "end" /\ x.res # "redirect" /\ Waiting =>
           \E m \in Id : x.bg[m].st = "redirect"
  BY DEF Owns
<1>5. SUFFICES /\ y.kind = "load" /\ y.loc = latest /\ y.pc \notin {"idle", "done"}
               /\ \A m \in Id : y.fg[m].st # "crash"
               /\ y.rendered /\ Waiting' =>
                    \/ y.pc = "end" /\ y.res = "redirect"
                    \/ /\ y.pc \in {"loaders", "settle"}
                       /\ \E m \in Id : y.fg[m].st = "redirect"
                    \/ \E m \in Id : y.bg[m].st = "redirect"
               /\ y.pc = "end" /\ y.res # "redirect" /\ Waiting' =>
                    \E m \in Id : y.bg[m].st = "redirect"
  BY <1>2 DEF Owns
<1>6. CASE InBefore(r, y)
  <2>1. x.pc \in BeforePC /\ \A m \in Id : x.bg[m].st = "none"
    BY <1>6 DEF InBefore, Stage
  <2>2. ~(x.rendered /\ Waiting) BY <1>4, <2>1 DEF BeforePC
  <2>3. Known(mem, Current(r))
    <3>1. Current(r) \in PathIds(latest)
      BY <1>0, <1>4, <2>1, CurrentType, PathMember, RunType DEF BeforePC, PathIds, PathOf, Current
    <3> QED BY <1>3, <3>1
  <2> QED BY <1>4, <1>6, <2>2, <2>3 DEF InBefore, BeforePC
<1>7. CASE Launches(r, y)
  <2>1. /\ x.pc = "loaders" /\ y.pc = "loaders" /\ SamePlan(x, y)
        /\ y.rendered = x.rendered /\ y.fg[Current(r)].st # "crash"
        /\ \A m \in Id \ {Current(r)} : y.fg[m] = x.fg[m] /\ y.bg[m] = x.bg[m]
        /\ x.fg[Current(r)].st = "none" /\ x.bg[Current(r)].st = "none"
    BY <1>0, <1>7, CurrentFresh DEF Launches
  <2> HIDE DEF x
  <2> QED BY <1>4, <2>1 DEF SamePlan
<1>8. ASSUME NEW k \in {"fg", "bg"}, NEW m \in Id, Works(r, k, m, y)
      PROVE  /\ y.kind = "load" /\ y.loc = latest /\ y.pc \notin {"idle", "done"}
             /\ \A n \in Id : y.fg[n].st # "crash"
             /\ y.rendered /\ Waiting' =>
                  \/ y.pc = "end" /\ y.res = "redirect"
                  \/ /\ y.pc \in {"loaders", "settle"}
                     /\ \E n \in Id : y.fg[n].st = "redirect"
                  \/ \E n \in Id : y.bg[n].st = "redirect"
             /\ y.pc = "end" /\ y.res # "redirect" /\ Waiting' =>
                  \E n \in Id : y.bg[n].st = "redirect"
  <2>1. /\ x[k][m].st \notin Ended \cup {"none"} /\ SamePlan(x, y)
        /\ y.pc = x.pc /\ y.res = x.res
        /\ \A j \in {"fg", "bg"}, n \in Id : <<j, n>> # <<k, m>> => y[j][n] = x[j][n]
        /\ y[k][m].st = "crash" => ~Known(mem, m)
        /\ y.rendered = x.rendered \/ y[k][m].st = "redirect"
    BY <1>8 DEF Works
  <2>2. Known(mem, m)
    <3>1. x.fg[m].st # "none" \/ x.bg[m].st # "none" BY <2>1
    <3>2. m \in PathIds(x.loc) BY <1>0, <3>1, RunType DEF RunOK, InPath
    <3> QED BY <1>3, <1>4, <3>2
  <2>3. \A j \in {"fg", "bg"}, n \in Id :
          x[j][n].st = "redirect" => y[j][n].st = "redirect"
    BY <2>1 DEF Ended
  <2>4. k = "fg" => x.pc \in {"loaders", "settle"}
    <3>1. k = "fg" => x.pc \notin BeforePC \cup {"nfChunk", "errChunk", "ready", "end"}
      BY <2>1 DEF Stage
    <3>2. x.pc \in PCs BY <1>0, RunType DEF RunOK, IsRun, PCs
    <3> QED BY <1>4, <3>1, <3>2 DEF BeforePC, PCs
  <2>5. \A n \in Id : y.fg[n].st # "crash" BY <1>4, <2>1, <2>2
  <2>6. (\E n \in Id : x.fg[n].st = "redirect") => \E n \in Id : y.fg[n].st = "redirect"
    BY <2>3
  <2>7. (\E n \in Id : x.bg[n].st = "redirect") => \E n \in Id : y.bg[n].st = "redirect"
    BY <2>3
  <2>8. y[k][m].st = "redirect" =>
          \/ x.pc \in {"loaders", "settle"} /\ \E n \in Id : y.fg[n].st = "redirect"
          \/ \E n \in Id : y.bg[n].st = "redirect"
    BY <2>4
  <2> HIDE DEF x
  <2> QED BY <1>4, <2>1, <2>5, <2>6, <2>7, <2>8 DEF SamePlan
<1>9. CASE Finishes(r, y)
  <2>1. /\ SamePlan(x, y) /\ y.fg = x.fg /\ y.bg = x.bg /\ y.rendered = x.rendered
    BY <1>9 DEF Finishes
  <2>2. (\A m \in Tasks(r) : x.fg[m].st # "redirect") =>
          \A m \in Id : x.fg[m].st # "redirect"
    BY DEF Stage
  <2>3. \/ x.pc = "loaders" /\ y.pc = "settle"
        \/ x.pc = "settle" /\ y.pc = "end" /\ y.res = "redirect"
        \/ /\ x.pc \in {"settle", "nfChunk", "errChunk"}
           /\ y.pc \in {"nfChunk", "errChunk", "ready"}
           /\ x.pc = "settle" => \A m \in Id : x.fg[m].st # "redirect"
    BY <1>4, <1>9, <2>2 DEF Finishes
  <2> HIDE DEF x
  <2> QED BY <1>4, <2>1, <2>3 DEF SamePlan
<1>10. CASE Readies(r, y)
  <2>1. /\ x.pc = "ready" /\ y.pc = "end" /\ SamePlan(x, y) /\ y.fg = x.fg /\ y.bg = x.bg
        /\ x.rendered \/ x.kind = "preload" \/ ~Waiting'
    BY <1>10 DEF Readies, Waiting
  <2> HIDE DEF x
  <2> QED BY <1>4, <2>1 DEF SamePlan
<1> QED BY <1>1, <1>6, <1>7, <1>8, <1>9, <1>10

-----------------------------------------------------------------------------
(* Every step keeps it *)

\* What the steps of the router and of the user do to the memory.
LEMMA QuietMemory ==
  ASSUME Inv, OwnerInv, FailingChunks = {}, Tame(mem, mem') \/ Committed(latest)
  PROVE  /\ ~ViewTransition => mem'.commits = 0
         /\ \A rt \in Route : mem'.lazy[rt] # "failed"
         /\ Waiting' => Waiting
<1>1. CASE Tame(mem, mem')
  <2>1. /\ mem'.isLoading = mem.isLoading /\ (mem.commits # 0 => mem'.commits # 0)
        /\ ~ViewTransition => mem'.commits = mem.commits
        /\ \A rt \in Route : mem'.lazy[rt] = "failed" => mem.lazy[rt] = "failed"
    BY <1>1 DEF Tame
  <2> QED BY <2>1 DEF OwnerInv, Waiting
<1>2. CASE Committed(latest) BY <1>2 DEF OwnerInv, Waiting, Committed
<1> QED BY <1>1, <1>2

\* A new load owns the location it loads.
LEMMA LoadOwned ==
  ASSUME Inv, OwnerInv, FailingChunks = {}, NEW s, Tame(mem, s), NEW rs,
         DOMAIN rs = Run, NEW l \in Loc, NEW sync \in BOOLEAN, Load(s, rs, l, sync)
  PROVE  OwnerInv'
<1>1. PICK r \in Run : r = NextRun BY NextRunType DEF Load
<1> DEFINE t == [IngestPending(s, l, r) EXCEPT !.isLoading = TRUE]
           x == NewRun("load", l, resolved = l, sync, NoHeld)
<1>2. mem' = t /\ run' = [rs EXCEPT ![r] = x] /\ latest' = l /\ latestLoad' = r
  BY <1>1 DEF Load
<1>3. /\ IsMemory(s) /\ \A rt \in Route : s.lazy[rt] # "failed"
      /\ ~ViewTransition => s.commits = 0
  BY DEF OwnerInv, Tame
<1>4. t.commits = s.commits /\ \A rt \in Route : t.lazy[rt] # "failed"
  BY <1>3 DEF IngestPending, CancelMatches, IsMemory
<1>5. run'[r] = x /\ r # 0 BY <1>1, <1>2 DEF Run
<1> HIDE DEF t
<1>6. /\ run'[r].kind = "load" /\ run'[r].loc = l /\ run'[r].pc = "pre"
      /\ ~run'[r].rendered /\ \A m \in Id : run'[r].fg[m].st = "none"
  <2>1. PICK f, y, h : x = NewRun("load", l, f, y, h) OBVIOUS
  <2> HIDE DEF x
  <2>2. /\ x.kind = "load" /\ x.loc = l /\ x.pc = "pre" /\ ~x.rendered
        /\ \A m \in Id : x.fg[m] = NoTask
    BY <2>1, NewRunIs
  <2>3. NoTask.st = "none" BY DEF NoTask
  <2> QED BY <1>5, <2>2, <2>3
<1> HIDE DEF x
<1>7. Owns(r)' BY <1>2, <1>6 DEF Owns
<1> QED BY <1>2, <1>3, <1>4, <1>5, <1>7 DEF OwnerInv

\* A step that starts no load.
LEMMA OthersOwned ==
  ASSUME Inv, OwnerInv, FailingChunks = {}, Tame(mem, mem') \/ Committed(latest),
         latest' = latest,
         \/ /\ latestLoad' = latestLoad /\ commitP' = commitP
            /\ latestLoad # 0 => \/ run'[latestLoad] = run[latestLoad]
                                 \/ Owns(latestLoad)'
         \/ latestLoad' = 0 /\ ~commitP' /\ ~Waiting'
  PROVE  OwnerInv'
<1>1. /\ ~ViewTransition => mem'.commits = 0
      /\ \A rt \in Route : mem'.lazy[rt] # "failed"
      /\ Waiting' => Waiting
  BY QuietMemory
<1>2. latestLoad # 0 => latestLoad \in Run
  BY PathAssumption DEF Inv, RouterOK, Run, Obj
<1>3. CASE latestLoad' = 0 /\ ~commitP' /\ ~Waiting' BY <1>1, <1>3 DEF OwnerInv
<1>4. CASE /\ latestLoad' = latestLoad /\ commitP' = commitP
           /\ latestLoad # 0 => \/ run'[latestLoad] = run[latestLoad]
                                \/ Owns(latestLoad)'
  <2>1. latestLoad # 0 => Owns(latestLoad)'
    BY <1>1, <1>2, <1>4, OwnsSame DEF OwnerInv
  <2> QED BY <1>1, <1>4, <2>1 DEF OwnerInv
<1> QED BY <1>3, <1>4

LEMMA PreloadOwned ==
  ASSUME Inv, OwnerInv, FailingChunks = {}, NEW rs, DOMAIN rs = Run, NEW l \in Loc,
         StartPreload(mem, rs, l), latestLoad # 0 => rs[latestLoad] = run[latestLoad]
  PROVE  OwnerInv'
<1>1. PICK r \in Run : r = NextRun /\ run[r].kind = "free"
  BY NextRunType DEF StartPreload, NextRun, FreeRuns
<1> DEFINE t == IngestPreload(mem, l, r)
           x == NewRun("preload", l, FALSE, FALSE,
                       [m \in DOMAIN mem.active \cup DOMAIN mem.pending |->
                          GetMatch(mem, m).obj])
<1>2. /\ mem' = t /\ run' = [rs EXCEPT ![r] = x]
      /\ UNCHANGED <<latest, latestLoad, commitP>>
  BY <1>1 DEF StartPreload
<1> HIDE DEF x
<1>3. /\ t.commits = mem.commits /\ t.isLoading = mem.isLoading /\ t.lazy = mem.lazy
  BY DEF IngestPreload, IsMemory, Inv, LoadOK
<1> HIDE DEF t
<1>4. latestLoad # 0 => run'[latestLoad] = run[latestLoad]
  <2>1. latestLoad # 0 => latestLoad # r BY <1>1 DEF OwnerInv, Owns
  <2>2. latestLoad # 0 => latestLoad \in Run
    BY PathAssumption DEF Inv, RouterOK, Run, Obj
  <2> QED BY <1>2, <2>1, <2>2
<1>5. latestLoad # 0 => Owns(latestLoad)'
  <2>1. latestLoad # 0 => latestLoad \in Run
    BY PathAssumption DEF Inv, RouterOK, Run, Obj
  <2> QED BY <1>2, <1>3, <1>4, <2>1, OwnsSame DEF OwnerInv, Waiting
<1> QED BY <1>2, <1>3, <1>5 DEF OwnerInv, Waiting

LEMMA UserActionOwned ==
  ASSUME Inv, OwnerInv, FailingChunks = {}, UserAction
  PROVE  OwnerInv'
<1>0. IsMemory(mem) /\ Tame(mem, mem) /\ DOMAIN run = Run
  BY TameSelf DEF Inv, LoadOK, RunsOK
<1>1. ASSUME NEW l \in Loc, Navigate(l) \/ PopState(l) PROVE OwnerInv'
  BY <1>0, <1>1, LoadOwned DEF Navigate, PopState
<1>2. ASSUME NEW l \in Loc, Preload(l) PROVE OwnerInv'
  BY <1>0, <1>2, PreloadOwned DEF Preload
<1>3. ASSUME NEW force \in BOOLEAN, NEW sync \in BOOLEAN, Invalidate(force, sync)
      PROVE  OwnerInv'
  <2>1. Tame(mem, InvalidateAll(mem, force)) BY <1>0, InvalidateTame
  <2>2. latest \in Loc BY DEF Inv, RouterOK
  <2> QED BY <1>0, <1>3, <2>1, <2>2, LoadOwned DEF Invalidate
<1>4. ASSUME NEW S \in SUBSET Id, ClearCache(S) PROVE OwnerInv'
  <2>1. Tame(mem, mem') BY <1>0, <1>4, ClearTame DEF ClearCache
  <2>2. run' = run /\ UNCHANGED <<latest, latestLoad, commitP>> BY <1>4 DEF ClearCache
  <2> QED BY <2>1, <2>2, OthersOwned
<1> QED BY <1>1, <1>2, <1>3, <1>4 DEF UserAction

LEMMA RouterStepOwned ==
  ASSUME Inv, OwnerInv, FailingChunks = {}, NEW r \in Run, RouterStep(r)
  PROVE  OwnerInv'
<1>0. /\ Tame(mem, mem) /\ DOMAIN run = Run /\ RedirectTo \in Loc
      /\ latestLoad # 0 => latestLoad \in Run
  BY TameSelf, RouterAssumption, PathAssumption
     DEF Inv, LoadOK, RunsOK, RouterOK, Run, Obj
<1> DEFINE rs == [run EXCEPT ![r] = Done(run[r])]
<1>1. DOMAIN rs = Run /\ \A q \in Run : q # r => rs[q] = run[q] BY <1>0
<1>2. CASE EndLoad(r)
  <2>1. run' = rs /\ UNCHANGED <<mem, latest>> BY <1>2 DEF EndLoad
  <2> HIDE DEF rs
  <2>2. CASE latestLoad = r
    <3>1. latestLoad' = 0 /\ ~commitP' BY <1>2, <2>2 DEF EndLoad
    <3>2. /\ run[r].pc = "end" /\ run[r].res # "redirect"
          /\ Waiting => \A m \in Id : run[r].bg[m].st # "redirect"
      BY <1>2 DEF EndLoad, Outrun, Waiting
    <3>3. ~Waiting BY <2>2, <3>2 DEF OwnerInv, Owns, Run
    <3>4. ~Waiting' BY <2>1, <3>3 DEF Waiting
    <3> QED BY <1>0, <2>1, <3>1, <3>4, OthersOwned
  <2>3. CASE latestLoad # r
    <3>1. UNCHANGED <<latestLoad, commitP>> BY <1>2, <2>3 DEF EndLoad
    <3> QED BY <1>0, <1>1, <2>1, <2>3, <3>1, OthersOwned
  <2> QED BY <2>2, <2>3
<1>3. CASE FollowRedirect(r)
  <2>1. Load(mem, rs, RedirectTo, FALSE) BY <1>3 DEF FollowRedirect
  <2> HIDE DEF rs
  <2> QED BY <1>0, <1>1, <2>1, LoadOwned
<1>4. CASE EndPreload(r)
  <2>1. /\ run[r].kind = "preload"
        /\ \/ StartPreload(mem, rs, RedirectTo)
           \/ run' = rs /\ UNCHANGED <<mem, latest, latestLoad, commitP>>
    BY <1>4 DEF EndPreload
  <2> HIDE DEF rs
  <2>2. latestLoad # 0 => rs[latestLoad] = run[latestLoad]
    <3>1. latestLoad # 0 => latestLoad # r BY <2>1 DEF OwnerInv, Owns
    <3> QED BY <1>0, <1>1, <3>1
  <2> QED BY <1>0, <1>1, <2>1, <2>2, PreloadOwned, OthersOwned
<1>5. ASSUME NEW m \in Id, BackgroundRedirect(r, m) PROVE OwnerInv'
  <2> DEFINE ts == [run EXCEPT ![r] = [run[r] EXCEPT !.bg[m] = At("ok")]]
  <2>1. Load(mem, ts, RedirectTo, FALSE) BY <1>5 DEF BackgroundRedirect
  <2>2. DOMAIN ts = Run BY <1>0
  <2> HIDE DEF ts
  <2> QED BY <1>0, <2>1, <2>2, LoadOwned
<1> QED BY <1>2, <1>3, <1>4, <1>5 DEF RouterStep

LEMMA LoadMatchesOwned ==
  ASSUME Inv, Stages, OwnerInv, FailingChunks = {}, NEW r \in Run, LoadMatchesStep(r)
  PROVE  OwnerInv'
<1>0. /\ LoadOK /\ Sound(mem, latest) /\ latest \in Loc /\ latestLoad \in Obj
      /\ Stage(r) /\ \A rt \in Route : mem.lazy[rt] # "failed"
  BY DEF Inv, RouterOK, OwnerInv, Stages
<1>1. Advance(r) /\ \A q \in Run : q # r => run'[q] = run[q] BY LoadMatchesStages
<1>2. UNCHANGED <<latest, latestLoad, commitP>> BY DEF LoadMatchesStep, routerVars
<1>3. Tame(mem, mem') \/ Committed(latest)
  BY <1>0, LoadMatchesSteps DEF LoadMatchesStep, LoadStep
<1>4. Waiting' => Waiting BY <1>3, QuietMemory
<1>5. latestLoad = r => Owns(r)'
  <2>1. latestLoad = r => Owns(r) BY DEF OwnerInv, Run
  <2> QED BY <1>0, <1>1, <1>2, <1>4, <2>1, OwnsKept
<1>6. latestLoad # 0 => latestLoad \in Run BY <1>0, PathAssumption DEF Run, Obj
<1>7. CASE latestLoad = r BY <1>2, <1>3, <1>5, <1>7, OthersOwned
<1>8. CASE latestLoad # r BY <1>1, <1>2, <1>3, <1>6, <1>8, OthersOwned
<1> QED BY <1>7, <1>8

\* A timer may render for the latest load, and so commits, now or later.
LEMMA TimeoutOwned ==
  ASSUME Inv, OwnerInv, FailingChunks = {}, NEW m \in Id, NEW o \in Obj,
         PendingTimeout(m, o), UNCHANGED routerVars
  PROVE  OwnerInv'
<1>0. /\ LoadOK /\ Sound(mem, latest) /\ latest \in Loc
      /\ latestLoad # 0 => latestLoad \in Run
  BY PathAssumption DEF Inv, RouterOK, Run, Obj
<1>1. UNCHANGED <<latest, latestLoad, commitP>> BY DEF routerVars
<1>2. Tame(mem, mem') \/ Committed(latest) BY <1>0, TimeoutStep DEF LoadStep
<1>3. Waiting' => Waiting BY <1>2, QuietMemory
<1>4. PICK r \in Run :
        /\ r = mem.bag[m][o].timer /\ \A q \in Run : q # r => run'[q] = run[q]
        /\ \A f \in DOMAIN run[r] : f # "rendered" => run'[r][f] = run[r][f]
  BY <1>0, TimeoutRun
<1>5. /\ run'[r].kind = run[r].kind /\ run'[r].loc = run[r].loc
      /\ run'[r].pc = run[r].pc /\ run'[r].res = run[r].res
      /\ run'[r].fg = run[r].fg /\ run'[r].bg = run[r].bg
  <2>1. IsRun(run[r]) BY <1>0, RunType DEF RunOK
  <2> QED BY <1>4, <2>1 DEF IsRun
<1>6. ~run[r].rendered => ~Waiting'
  <2> DEFINE s == [mem EXCEPT !.bag[m][o].fired = TRUE]
  <2>1. run[r].rendered \/ \E old : mem' = OnReady(s, old)
    BY <1>4 DEF PendingTimeout
  <2>2. Tame(mem, s) BY <1>0, FieldTame DEF LoadOK
  <2> HIDE DEF s
  <2>3. IsMemory(s) /\ Sound(s, latest) BY <1>0, <2>2, TameSound
  <2>4. \A old : OnReady(s, old).isLoading => OnReady(s, old).commits # 0
    BY <1>0, <2>3, OnReadyWaits
  <2> QED BY <2>1, <2>4 DEF Waiting
<1>7. CASE latestLoad = r
  <2>1. Owns(r) BY <1>7 DEF OwnerInv, Run
  <2>2. Owns(r)' BY <1>1, <1>3, <1>5, <1>6, <2>1 DEF Owns
  <2> QED BY <1>1, <1>2, <1>7, <2>2, OthersOwned
<1>8. CASE latestLoad # r BY <1>0, <1>1, <1>2, <1>4, <1>8, OthersOwned
<1> QED BY <1>7, <1>8

LEMMA EnvironmentOwned ==
  ASSUME Inv, OwnerInv, FailingChunks = {}, EnvironmentStep
  PROVE  OwnerInv'
<1>1. UNCHANGED routerVars BY DEF EnvironmentStep
<1>2. ASSUME NEW m \in Id, NEW o \in Obj, PendingTimeout(m, o) PROVE OwnerInv'
  BY <1>1, <1>2, TimeoutOwned
<1>3. CASE \/ \E rt \in LazyRoutes : ChunkLoads(rt) \/ ChunkFails(rt)
           \/ RunViewTransition
  <2>1. run' = run /\ UNCHANGED <<latest, latestLoad, commitP>>
    BY <1>1, <1>3 DEF ChunkLoads, ChunkFails, RunViewTransition, routerVars
  <2>2. Tame(mem, mem') \/ Committed(latest)
    BY EnvironmentSteps DEF EnvironmentStep, LoadStep, Inv, RouterOK
  <2> QED BY <2>1, <2>2, OthersOwned
<1> QED BY <1>2, <1>3 DEF EnvironmentStep, Environment

LEMMA NextOwned ==
  Inv /\ Stages /\ OwnerInv /\ FailingChunks = {} /\ [Next]_vars => OwnerInv'
<1> SUFFICES ASSUME Inv, Stages, OwnerInv, FailingChunks = {}, [Next]_vars
             PROVE  OwnerInv'
  OBVIOUS
<1>1. CASE UserAction BY <1>1, UserActionOwned
<1>2. CASE \E r \in Run : RouterStep(r) BY <1>2, RouterStepOwned
<1>3. CASE \E r \in Run : LoadMatchesStep(r) BY <1>3, LoadMatchesOwned
<1>4. CASE EnvironmentStep BY <1>4, EnvironmentOwned
<1>5. CASE Resolve \/ UNCHANGED vars
  <2>1. UNCHANGED <<mem, run, latest, latestLoad, commitP>>
    BY <1>5 DEF Resolve, vars, loadVars
  <2>2. Tame(mem, mem') BY <2>1, TameSelf DEF Inv, LoadOK
  <2> QED BY <2>1, <2>2, OthersOwned
<1> QED BY <1>1, <1>2, <1>3, <1>4, <1>5 DEF Next

LEMMA InitOwned == Init => OwnerInv
BY DEF Init, OwnerInv, Waiting

LEMMA OwnerInvariance ==
  ASSUME FailingChunks = {}
  PROVE  Spec => [](Inv /\ Stages /\ OwnerInv)
<1>1. Init => Inv /\ Stages /\ OwnerInv BY InitCorrect, InitStages, InitOwned
<1>2. Inv /\ Stages /\ OwnerInv /\ [Next]_vars => (Inv /\ Stages /\ OwnerInv)'
  BY NextCorrect, NextStages, NextOwned DEF Correct
<1> QED BY <1>1, <1>2, PTL DEF Spec

\* Once every load, preload and view transition is over, the latest location
\* is on the page, nothing awaits a commit and every navigation promise is
\* resolved, whatever interleaved, failed or redirected, with view
\* transitions or without (unless a lazy chunk fails to load).
THEOREM RestsOnTheLatestPage ==
  ASSUME FailingChunks = {}
  PROVE  Spec => []PageSettled
<1>1. Inv /\ Stages /\ OwnerInv => PageSettled
  <2> SUFFICES ASSUME Inv, OwnerInv, AtRest
               PROVE  /\ ~mem.isLoading /\ DOMAIN mem.active = PathIds(latest)
                      /\ latestLoad = 0 /\ ~commitP
    BY DEF PageSettled
  <2>1. latestLoad # 0 => latestLoad \in Run
    BY PathAssumption DEF Inv, RouterOK, Run, Obj
  <2>2. latestLoad = 0 BY <2>1 DEF AtRest, RunsOver, OwnerInv, Owns
  <2>3. ~mem.isLoading BY <2>2 DEF AtRest, OwnerInv, Waiting
  <2> QED BY <2>2, <2>3 DEF OwnerInv, Inv, Sound
<1> QED BY <1>1, OwnerInvariance, PTL

\* The promise of a navigation is resolved on the page of the latest
\* location, unless commits wait for a view transition or a chunk failed to
\* load.
THEOREM NavigationsEndOnThePage ==
  ASSUME ~ViewTransition, FailingChunks = {}
  PROVE  Spec => ResolvedAfterCommit
<1>1. Inv /\ Stages /\ OwnerInv /\ [Next]_vars
        => [commitP /\ ~commitP' => DOMAIN mem'.active = PathIds(latest')]_vars
  <2> SUFFICES ASSUME Inv, OwnerInv, Next, commitP, ~commitP'
               PROVE  DOMAIN mem'.active = PathIds(latest')
    BY DEF vars
  <2>1. UserAction => commitP' = commitP \/ commitP' = TRUE
    BY DEF UserAction, Navigate, PopState, Preload, Invalidate, ClearCache, Load,
           StartPreload
  <2>2. ASSUME NEW r \in Run, LoadMatchesStep(r) \/ RouterStep(r)
        PROVE  commitP' = commitP \/ commitP' = TRUE \/ (EndLoad(r) /\ latestLoad = r)
    BY <2>2 DEF LoadMatchesStep, RouterStep, routerVars, EndLoad, FollowRedirect,
                EndPreload, BackgroundRedirect, StartPreload
  <2>3. EnvironmentStep \/ Resolve => commitP' = commitP
    BY DEF EnvironmentStep, routerVars, Resolve
  <2>4. PICK r \in Run : EndLoad(r) /\ latestLoad = r BY <2>1, <2>2, <2>3 DEF Next
  <2>5. r # 0 /\ mem.commits = 0 BY DEF Run, OwnerInv
  <2>6. /\ run[r].pc = "end" /\ run[r].res # "redirect" /\ UNCHANGED <<mem, latest>>
        /\ mem.isLoading => \A m \in Id : run[r].bg[m].st # "redirect"
    BY <2>4, <2>5 DEF EndLoad, Outrun
  <2>7. ~mem.isLoading BY <2>4, <2>5, <2>6 DEF OwnerInv, Owns, Waiting
  <2> QED BY <2>6, <2>7 DEF Inv, Sound
<1> QED BY <1>1, OwnerInvariance, PTL DEF Spec, ResolvedAfterCommit
=============================================================================
