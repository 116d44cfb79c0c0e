--------------------------- MODULE GeneratorProofs ---------------------------
(***************************************************************************)
(* The generator's caches, for any number of route files and of edits.     *)
(*                                                                         *)
(* KnownIsRoute is not inductive: that a remembered time belongs to a      *)
(* route has to survive a save of the file, so a time that is remembered   *)
(* must never be given again (Past), and what was read must be what is on  *)
(* disk as long as the times agree (SeenIsCurrent), since Transform        *)
(* remembers the time of what was read.  A file saved between a rename and *)
(* its stat is overlooked until it changes again, and only such a one.     *)
(*                                                                         *)
(* TreeFollowsFiles, the second theorem, says that a generator with        *)
(* nothing left to do has written the right tree.  A file that has changed *)
(* since the caches saw it has an event on its way (watcher, queue or the  *)
(* round), and a round that finds nothing to write is one whose two caches *)
(* know the same files.                                                    *)
(***************************************************************************)
EXTENDS Generator, FiniteSetTheorems, TLAPS

Version == [mtime : Nat, content : Content \cup Contents]

Typed ==
  /\ disk \in [File -> Version] /\ seen \in [File -> Version]
  /\ clock \in Nat /\ clock >= 1
  /\ routeNodeCache \in [File -> Nat] /\ routeNodeShadowCache \in [File -> Nat]

Past ==
  \A f \in File : /\ disk[f].mtime <= clock /\ seen[f].mtime <= clock
                  /\ routeNodeCache[f] <= clock /\ routeNodeShadowCache[f] <= clock

\* No file has the time 0, so that a deleted one is none that was read.
NoneIsEmpty ==
  \A f \in File : /\ disk[f].mtime = 0 => disk[f] = NoFile
                  /\ seen[f].mtime = 0 => seen[f] = NoFile

SeenIsCurrent ==
  \A f \in File : seen[f].mtime = disk[f].mtime => seen[f].content = disk[f].content

Inv == Typed /\ Past /\ NoneIsEmpty /\ SeenIsCurrent /\ KnownIsRoute

\* What the invariant speaks of.
watched == <<disk, clock, seen, overlooked, routeNodeCache, routeNodeShadowCache>>

LEMMA Initially == Init => Inv
<1> SUFFICES ASSUME Init PROVE Inv OBVIOUS
<1>1. NoFile \in Version /\ [mtime |-> 1, content |-> "route"] \in Version
  BY DEF NoFile, Version, Content
<1>2. disk \in [File -> Version] BY <1>1 DEF Init
<1>3. \A f \in File : disk[f] = NoFile \/ disk[f] = [mtime |-> 1, content |-> "route"]
  BY DEF Init
<1>4. Typed BY <1>1, <1>2 DEF Init, Typed
<1>5. Past /\ NoneIsEmpty /\ SeenIsCurrent
  BY <1>3 DEF Init, Past, NoneIsEmpty, SeenIsCurrent, NoFile
<1>6. KnownIsRoute BY DEF Init, KnownIsRoute, Remembered
<1> QED BY <1>4, <1>5, <1>6 DEF Inv

\* A new version of a file has a time nobody remembers.
LEMMA NewVersion ==
  ASSUME Inv, NEW f \in File, NEW c \in Content \cup Contents,
         clock' = clock + 1,
         disk' = [disk EXCEPT ![f] = [mtime |-> clock', content |-> c]],
         overlooked' = overlooked \ {f},
         UNCHANGED <<seen, routeNodeCache, routeNodeShadowCache>>
  PROVE  Inv'
<1> USE DEF Inv, Typed, Version
<1>1. disk'[f] = [mtime |-> clock + 1, content |-> c]
  OBVIOUS
<1>2. \A g \in File \ {f} : /\ disk'[g] = disk[g]
                            /\ g \in overlooked' <=> g \in overlooked
  OBVIOUS
<1>3. Typed' OBVIOUS
<1>4. Past' BY <1>1, <1>2 DEF Past
<1>5. NoneIsEmpty' BY <1>1, <1>2 DEF NoneIsEmpty
<1>6. SeenIsCurrent' BY <1>1, <1>2 DEF SeenIsCurrent, Past
<1>7. KnownIsRoute' BY <1>1, <1>2 DEF KnownIsRoute, Remembered, Past
<1> QED BY <1>3, <1>4, <1>5, <1>6, <1>7

LEMMA DeletePreserves ==
  ASSUME Inv, NEW f \in File, Delete(f)
  PROVE  Inv'
<1> USE DEF Inv, Typed, Version
<1>1. /\ disk' = [disk EXCEPT ![f] = NoFile] /\ overlooked' = overlooked \ {f}
      /\ UNCHANGED <<clock, seen, routeNodeCache, routeNodeShadowCache>>
  BY DEF Delete, work, caches
<1>2. NoFile \in Version /\ NoFile.mtime = 0 /\ NoFile.content = "empty"
  BY DEF NoFile, Content
<1>3. disk'[f] = NoFile /\ \A g \in File \ {f} : disk'[g] = disk[g] BY <1>1
<1>4. Typed' BY <1>1, <1>2
<1>5. Past' BY <1>1, <1>2, <1>3 DEF Past
<1>6. NoneIsEmpty' BY <1>1, <1>3 DEF NoneIsEmpty
<1>7. SeenIsCurrent' BY <1>1, <1>2, <1>3 DEF SeenIsCurrent, NoneIsEmpty
<1>8. KnownIsRoute' BY <1>1, <1>2, <1>3 DEF KnownIsRoute, Remembered
<1> QED BY <1>4, <1>5, <1>6, <1>7, <1>8

\* The files stay; the caches change to times of which each is remembered
\* already, and what has been read may be forgotten.
Unread == [f \in File |-> NoFile]

LEMMA CachesPreserve ==
  ASSUME Inv, UNCHANGED disk, clock' \in {clock, clock + 1}, seen' \in {seen, Unread},
         \A f \in File : f \in overlooked' <=> f \in overlooked,
         routeNodeCache' \in [File -> Nat], routeNodeShadowCache' \in [File -> Nat],
         \A f \in File :
           /\ routeNodeCache'[f] \in {0, routeNodeCache[f], routeNodeShadowCache[f]}
           /\ routeNodeShadowCache'[f] \in {0, routeNodeCache[f], routeNodeShadowCache[f]}
  PROVE  Inv'
<1> USE DEF Inv, Typed, Version
<1>1. /\ seen' \in [File -> Version]
      /\ \A f \in File : seen'[f] = seen[f] \/ (seen'[f] = NoFile /\ seen'[f].mtime = 0
                                             /\ seen'[f].content = NoFile.content)
  BY DEF Unread, NoFile, Content
<1>2. Typed' BY <1>1
<1>3. Past' BY <1>1 DEF Past
<1>4. NoneIsEmpty' BY <1>1 DEF NoneIsEmpty
<1>5. SeenIsCurrent' BY <1>1 DEF SeenIsCurrent, NoneIsEmpty
<1>6. KnownIsRoute' BY DEF KnownIsRoute, Remembered
<1> QED BY <1>2, <1>3, <1>4, <1>5, <1>6

LEMMA WatchedPreserve == ASSUME Inv, UNCHANGED watched PROVE Inv'
BY DEF Inv, watched, Typed, Past, NoneIsEmpty, SeenIsCurrent, KnownIsRoute, Remembered

LEMMA IsFreshPreserves ==
  ASSUME Inv, NEW f \in File, IsFresh(f)
  PROVE  Inv'
<1>1. UNCHANGED <<disk, clock, seen, overlooked>> BY DEF IsFresh, files
<1>2. CASE UNCHANGED caches
  BY <1>1, <1>2, WatchedPreserve DEF caches, watched
<1>3. CASE /\ routeNodeShadowCache' = [routeNodeShadowCache EXCEPT ![f] = routeNodeCache[f]]
           /\ UNCHANGED routeNodeCache
  <2>1. \A g \in File : routeNodeShadowCache'[g] \in {routeNodeCache[g], routeNodeShadowCache[g]}
    BY <1>3 DEF Inv, Typed
  <2>2. routeNodeShadowCache' \in [File -> Nat] /\ routeNodeCache' \in [File -> Nat]
    BY <1>3 DEF Inv, Typed
  <2> QED BY <1>1, <1>3, <2>1, <2>2, CachesPreserve
<1> QED BY <1>2, <1>3 DEF IsFresh

LEMMA ReadFilePreserves ==
  ASSUME Inv, NEW f \in File, ReadFile(f)
  PROVE  Inv'
<1> USE DEF Inv, Typed
<1>1. /\ seen' = [seen EXCEPT ![f] = disk[f]]
      /\ UNCHANGED <<disk, clock, overlooked, routeNodeCache, routeNodeShadowCache>>
  BY DEF ReadFile, files, caches
<1>2. seen'[f] = disk[f] /\ \A g \in File \ {f} : seen'[g] = seen[g] BY <1>1
<1>3. Typed' BY <1>1
<1>4. Past' BY <1>1, <1>2 DEF Past
<1>5. NoneIsEmpty' BY <1>1, <1>2 DEF NoneIsEmpty
<1>6. SeenIsCurrent' BY <1>1, <1>2 DEF SeenIsCurrent
<1>7. KnownIsRoute' BY <1>1 DEF KnownIsRoute, Remembered
<1> QED BY <1>3, <1>4, <1>5, <1>6, <1>7

LEMMA TransformPreserves ==
  ASSUME Inv, NEW f \in File, Transform(f)
  PROVE  Inv'
<1>1. UNCHANGED <<disk, clock, seen, overlooked, routeNodeCache>> BY DEF Transform, files
<1>2. CASE UNCHANGED routeNodeShadowCache
  BY <1>1, <1>2, WatchedPreserve DEF watched
<1>3. CASE /\ seen[f].content = "route"
           /\ routeNodeShadowCache' = [routeNodeShadowCache EXCEPT ![f] = seen[f].mtime]
  <2> USE DEF Inv, Typed, Version
  <2>1. /\ routeNodeShadowCache'[f] = seen[f].mtime
        /\ \A g \in File \ {f} : routeNodeShadowCache'[g] = routeNodeShadowCache[g]
    BY <1>3
  <2>2. Typed' BY <1>1, <1>3
  <2>3. Past' BY <1>1, <1>3, <2>1 DEF Past
  <2>4. NoneIsEmpty' /\ SeenIsCurrent' BY <1>1, <1>3 DEF NoneIsEmpty, SeenIsCurrent
  <2>5. KnownIsRoute'
    BY <1>1, <1>3, <2>1 DEF KnownIsRoute, Remembered, SeenIsCurrent
  <2> QED BY <2>2, <2>3, <2>4, <2>5
<1> QED BY <1>2, <1>3 DEF Transform, ReadStamp

LEMMA RenamePreserves == ASSUME Inv, NEW f \in File, Rename(f) PROVE Inv'
BY NewVersion DEF Rename, caches, Content

\* The time remembered is that of a route, or of a file overlooked.
LEMMA StatFilePreserves ==
  ASSUME Inv, NEW f \in File, StatFile(f)
  PROVE  Inv'
<1>1. UNCHANGED <<disk, clock, seen, routeNodeCache>> BY DEF StatFile
<1>2. CASE UNCHANGED <<overlooked, routeNodeShadowCache>>
  BY <1>1, <1>2, WatchedPreserve DEF watched
<1>3. CASE /\ routeNodeShadowCache' = [routeNodeShadowCache EXCEPT ![f] = disk[f].mtime]
           /\ overlooked' = IF disk[f].content = "route" THEN overlooked
                            ELSE overlooked \cup {f}
  <2> USE DEF Inv, Typed, Version
  <2>1. /\ routeNodeShadowCache'[f] = disk[f].mtime
        /\ \A g \in File \ {f} : routeNodeShadowCache'[g] = routeNodeShadowCache[g]
        /\ overlooked \subseteq overlooked'
        /\ disk[f].content = "route" \/ f \in overlooked'
    BY <1>3
  <2>2. Typed' BY <1>1, <1>3
  <2>3. Past' BY <1>1, <2>1 DEF Past
  <2>4. NoneIsEmpty' /\ SeenIsCurrent' BY <1>1 DEF NoneIsEmpty, SeenIsCurrent
  <2>5. KnownIsRoute' BY <1>1, <2>1 DEF KnownIsRoute, Remembered
  <2> QED BY <2>2, <2>3, <2>4, <2>5
<1> QED BY <1>2, <1>3 DEF StatFile

\* The steps at the tree file leave the files alone.
LEMMA TreeStepPreserves ==
  ASSUME Inv, Reject \/ BuildTree \/ RenameTree \/ StatTree
  PROVE  Inv'
<1>1. /\ UNCHANGED disk /\ clock' \in {clock, clock + 1}
      /\ seen' \in {seen, Unread}
      /\ \/ UNCHANGED <<routeNodeCache, routeNodeShadowCache>>
         \/ SwapCaches
  BY DEF Reject, BuildTree, RenameTree, StatTree, Continue, Throw, Return, Unread,
     files, work, caches
<1>2. \A f \in File : f \in overlooked' <=> f \in overlooked
  BY FileAssumption DEF Reject, BuildTree, RenameTree, StatTree, files
<1>3. /\ routeNodeCache' \in [File -> Nat] /\ routeNodeShadowCache' \in [File -> Nat]
      /\ \A f \in File :
           /\ routeNodeCache'[f] \in {routeNodeCache[f], routeNodeShadowCache[f]}
           /\ routeNodeShadowCache'[f] \in {0, routeNodeShadowCache[f]}
  BY <1>1 DEF Inv, Typed, SwapCaches
<1> QED BY <1>1, <1>2, <1>3, CachesPreserve

LEMMA SavePreserves ==
  ASSUME Inv, NEW f \in File, NEW c \in Contents, Save(f, c)
  PROVE  Inv'
BY NewVersion DEF Save, work, caches

LEMMA TamperPreserves == ASSUME Inv, NEW how \in Tampering, Tamper(how) PROVE Inv'
<1>1. /\ UNCHANGED <<disk, seen, routeNodeCache, routeNodeShadowCache>>
      /\ clock' \in {clock, clock + 1} /\ \A f \in File : f \in overlooked' <=> f \in overlooked
  BY FileAssumption DEF Tamper, work, caches
<1> QED BY <1>1, CachesPreserve DEF Inv, Typed

LEMMA NextPreserves == Inv /\ [Next]_vars => Inv'
<1> SUFFICES ASSUME Inv, [Next]_vars PROVE Inv' OBVIOUS
<1>1. ASSUME NEW f \in File, NEW c \in Contents, Save(f, c) PROVE Inv'
  BY <1>1, SavePreserves
<1>2. ASSUME NEW f \in File, Delete(f) PROVE Inv' BY <1>2, DeletePreserves
<1>3. ASSUME NEW how \in Tampering, Tamper(how) PROVE Inv' BY <1>3, TamperPreserves
<1>4. ASSUME NEW f \in File,
             IsFresh(f) \/ ReadFile(f) \/ Transform(f) \/ Rename(f) \/ StatFile(f)
      PROVE  Inv'
  BY <1>4, IsFreshPreserves, ReadFilePreserves, TransformPreserves, RenamePreserves,
     StatFilePreserves
<1>5. CASE Reject \/ BuildTree \/ RenameTree \/ StatTree BY <1>5, TreeStepPreserves
<1>6. CASE TakeQueue BY <1>6, WatchedPreserve DEF TakeQueue, files, work, caches, watched
<1>7. CASE List BY <1>7, WatchedPreserve DEF List, files, work, caches, watched
<1>8. CASE ReadTree BY <1>8, WatchedPreserve DEF ReadTree, files, caches, watched
<1>9. ASSUME NEW e, Compare(e) PROVE Inv'
  BY <1>9, WatchedPreserve DEF Compare, files, work, caches, watched
<1>10. ASSUME NEW e, Run(e) PROVE Inv'
  BY <1>10, WatchedPreserve DEF Run, work, caches, watched
<1>11. CASE UNCHANGED vars
  BY <1>11, WatchedPreserve DEF vars, files, work, caches, watched
<1> QED
  BY <1>1, <1>2, <1>3, <1>4, <1>5, <1>6, <1>7, <1>8, <1>9, <1>10, <1>11
  DEF Next, Edit, Generate

\* Whatever is saved while the generator runs, a time in its caches never
\* passes for a version of the file that has not been transformed, unless
\* that version was saved between a rename and its stat.
THEOREM CachesKnowRoutes == Spec => []KnownIsRoute
<1>1. Inv => KnownIsRoute BY DEF Inv
<1> QED BY Initially, NextPreserves, <1>1, PTL DEF Spec

-----------------------------------------------------------------------------
(***************************************************************************)
(* The tree file is up to date.  What is not as it should be has been told *)
(* to the generator (Told): between two rounds the caches agree with the   *)
(* files, or some event will not be taken for known; within a round every  *)
(* file is where processRouteNodeFile has left it, or an event tells of a  *)
(* later change, and a file that makes the round fail leaves an event that *)
(* makes another one.                                                      *)
(***************************************************************************)
Told == watcher \cup fileEventQueue
ToldOf(path) == \E e \in Told : e.path = path
ToldDeleted(f) == [type |-> "delete", path |-> f] \in Told
Effective(events) == \E e \in events : ~Known(e)
Stale(f) == Differs(disk[f].mtime, routeNodeCache[f])

InProcess(f) ==
  /\ job[f] = "none" => ~IsRoute(f) \/ ToldOf(f)
  /\ job[f] = "route" => /\ routeNodeShadowCache[f] # 0
                         /\ disk[f].mtime = routeNodeShadowCache[f] \/ ToldOf(f)
  /\ job[f] \in {"fresh?", "read", "transform", "rerun", "rename", "stat"} =>
       disk[f] # NoFile \/ ToldDeleted(f)
  /\ job[f] \in {"read", "transform", "rerun"} => Stale(f)
  /\ job[f] = "transform" => /\ seen[f] # NoFile
                             /\ seen[f].mtime = disk[f].mtime \/ ToldOf(f)
  /\ job[f] = "error" => ToldDeleted(f)

\* The cached tree file is the one on disk if the times agree, or that has been
\* overlooked, and has the routes of the cache, unless it has been read anew to
\* be written.
CachedRoutes == {f \in File : routeNodeCache[f] # 0}
TreeCached ==
  routeTreeFileCache # NoTree /\ tree.mtime = routeTreeFileCache.mtime =>
    /\ tree.routes = routeTreeFileCache.routes \/ Tree \in overlooked
    /\ (Writing /\ writeRouteTreeFile) \/ routeTreeFileCache.routes = CachedRoutes

TreePast ==
  /\ tree.mtime \in Nat /\ tree.mtime <= clock
  /\ routeTreeFileCache.mtime \in Nat /\ routeTreeFileCache.mtime <= clock
  /\ tree.mtime = 0 => tree = NoTree
  /\ routeTreeFileCache.mtime = 0 => routeTreeFileCache = NoTree
  /\ tree = NoTree => routeTreeFileCache = NoTree

Agrees(f) == f \in overlooked \/ routeNodeCache[f] = IF IsRoute(f) THEN disk[f].mtime ELSE 0
AllAgree == /\ \A f \in File : Agrees(f)
            /\ routeTreeFileCache # NoTree /\ tree.mtime = routeTreeFileCache.mtime

Phase ==
  /\ pc \in {"idle", "start"} => AllAgree \/ Effective(Told)
  /\ pc = "compare" => AllAgree \/ Effective(Told \cup tempQueue) \/ changed
  /\ pc = "process" \/ Writing => \A f \in File : InProcess(f)
  /\ Writing => /\ \A f \in File : job[f] \in {"none", "route"}
                /\ routeTreeFileCache = NoTree => writeRouteTreeFile
                /\ tree.mtime # routeTreeFileCache.mtime => ToldOf(Tree)
  /\ pc = "statTree" => tree # NoTree

Sound == /\ Inv /\ TreePast /\ TreeCached /\ Phase
         /\ DOMAIN job = File
         /\ pc \in {"idle", "start", "compare", "process", "tree", "renameTree", "statTree"}

LEMMA SoundInitially == Init => Sound
<1> SUFFICES ASSUME Init PROVE Sound OBVIOUS
<1>1. [type |-> "rerun", path |-> Tree] \in Told BY DEF Init, Told
<1>2. ~Known([type |-> "rerun", path |-> Tree]) BY DEF Known
<1>3. Effective(Told) BY <1>1, <1>2 DEF Effective
<1>4. TreePast /\ TreeCached BY DEF Init, TreePast, TreeCached, NoTree
<1> QED BY <1>3, <1>4, Initially DEF Init, Sound, Phase, Writing

LEMMA SoundStutter == ASSUME Sound, UNCHANGED vars PROVE Sound'
<1>1. Inv' BY WatchedPreserve DEF Sound, vars, files, work, caches, watched
<1>2. UNCHANGED <<disk, tree, clock, watcher, fileEventQueue, pc, tempQueue, changed,
                  job, seen, writeRouteTreeFile, routeNodeCache, routeNodeShadowCache,
                  routeTreeFileCache, overlooked>>
  BY DEF vars, files, work, caches
<1>3. TreePast' /\ TreeCached'
  BY <1>2 DEF Sound, TreePast, TreeCached, CachedRoutes, Writing
<1>4. Phase'
  BY <1>2 DEF Sound, Phase, Writing, AllAgree, Agrees, IsRoute, Effective, Known, Differs, Told,
     InProcess, ToldOf, ToldDeleted, Stale
<1> QED BY <1>1, <1>2, <1>3, <1>4 DEF Sound

-----------------------------------------------------------------------------
\* A step of an editor leaves an event that the next round will heed.
LEMMA EditHeeded ==
  ASSUME Sound, NEW e \in Told', ~Known(e)', Told \subseteq Told',
         UNCHANGED <<pc, tempQueue, job, writeRouteTreeFile, routeTreeFileCache>>,
         \A f \in File : InProcess(f) => InProcess(f)',
         UNCHANGED tree \/ (ToldOf(Tree)' /\ tree' # NoTree)
  PROVE  Phase'
<1>1. Effective(Told)' /\ Effective(Told \cup tempQueue)' BY DEF Effective
<1>2. ToldOf(Tree) => ToldOf(Tree)' BY DEF ToldOf
<1> QED BY <1>1, <1>2 DEF Sound, Phase, Writing

\* What is known of a file in a round lasts while the file and its job do.
LEMMA InProcessKept ==
  ASSUME NEW f, InProcess(f), Told \subseteq Told',
         disk'[f] = disk[f], job'[f] = job[f], seen'[f] = seen[f],
         routeNodeCache'[f] = routeNodeCache[f],
         routeNodeShadowCache'[f] = routeNodeShadowCache[f]
  PROVE  InProcess(f)'
<1>1. /\ ToldOf(f) => ToldOf(f)'
      /\ ToldDeleted(f) => ToldDeleted(f)'
      /\ Stale(f) => Stale(f)'
      /\ IsRoute(f)' <=> IsRoute(f)
  BY DEF ToldOf, ToldDeleted, Stale, Differs, IsRoute
<1> QED BY <1>1 DEF InProcess

LEMMA TreeKept ==
  ASSUME TreePast, TreeCached, clock' \in {clock, clock + 1}, clock \in Nat,
         UNCHANGED <<tree, routeTreeFileCache, routeNodeCache>>,
         Tree \in overlooked => Tree \in overlooked',
         Writing => UNCHANGED <<pc, writeRouteTreeFile>>
  PROVE  TreePast' /\ TreeCached'
BY DEF TreePast, TreeCached, CachedRoutes, Writing

LEMMA SaveSound ==
  ASSUME Sound, NEW f \in File, NEW c \in Contents, Save(f, c)
  PROVE  Sound'
<1>0. PICK e : e = [type |-> IF disk[f] = NoFile THEN "create" ELSE "update", path |-> f]
  OBVIOUS
<1>1. /\ clock' = clock + 1 /\ disk' = [disk EXCEPT ![f] = [mtime |-> clock + 1, content |-> c]]
      /\ watcher' = watcher \cup {e} /\ (Tree \in overlooked => Tree \in overlooked')
      /\ UNCHANGED <<tree, fileEventQueue, pc, tempQueue, changed, job, seen, writeRouteTreeFile,
                     routeNodeCache, routeNodeShadowCache, routeTreeFileCache>>
  BY <1>0, FileAssumption DEF Save, Reported, work, caches
<1>2. Inv' BY SavePreserves DEF Sound
<1>3. e \in Told' /\ Told \subseteq Told' BY <1>1 DEF Told
<1>4. clock \in Nat /\ \A g \in File : disk'[g].mtime = IF g = f THEN clock + 1 ELSE disk[g].mtime
  BY <1>1 DEF Sound, Inv, Typed
<1>5. routeNodeCache[f] \in Nat /\ routeNodeCache[f] <= clock /\ routeNodeShadowCache[f] <= clock
  BY DEF Sound, Inv, Typed, Past
<1>6. disk'[f] # NoFile /\ Stale(f)' BY <1>1, <1>4, <1>5 DEF NoFile, Stale, Differs
<1>7. ~Known(e)' BY <1>0, <1>6, FileAssumption DEF Known, Stale
<1>8. ASSUME NEW g \in File, InProcess(g) PROVE InProcess(g)'
  <2>1. CASE g = f
    <3>1. ToldOf(f)' BY <1>0, <1>3 DEF ToldOf
    <3>2. ToldDeleted(f) => ToldDeleted(f)' BY <1>3 DEF ToldDeleted
    <3> QED BY <1>1, <1>6, <1>8, <2>1, <3>1, <3>2 DEF InProcess
  <2>2. CASE g # f
    <3>1. disk'[g] = disk[g] BY <1>1, <2>2 DEF Sound, Inv, Typed
    <3> QED BY <1>1, <1>3, <1>8, <3>1, InProcessKept
  <2> QED BY <2>1, <2>2
<1>9. Phase' BY <1>1, <1>3, <1>7, <1>8, EditHeeded
<1> QED BY <1>1, <1>2, <1>4, <1>9, TreeKept DEF Sound

LEMMA DeleteSound ==
  ASSUME Sound, NEW f \in File, Delete(f)
  PROVE  Sound'
<1> DEFINE e == [type |-> "delete", path |-> f]
<1>1. /\ disk' = [disk EXCEPT ![f] = NoFile] /\ watcher' = watcher \cup {e}
      /\ Tree \in overlooked => Tree \in overlooked'
      /\ UNCHANGED <<clock, tree, fileEventQueue, pc, tempQueue, changed, job, seen,
                     writeRouteTreeFile, routeNodeCache, routeNodeShadowCache, routeTreeFileCache>>
  BY FileAssumption DEF Delete, Reported, work, caches
<1>2. Inv' BY DeletePreserves DEF Sound
<1>3. e \in Told' /\ Told \subseteq Told' BY <1>1 DEF Told
<1>4. disk'[f] = NoFile BY <1>1 DEF Sound, Inv, Typed
<1>5. Stale(f)' BY <1>1, <1>4 DEF Stale, Differs, NoFile
<1>6. ~Known(e)' BY DEF Known
<1>7. ASSUME NEW g \in File, InProcess(g) PROVE InProcess(g)'
  <2>1. CASE g = f
    <3>1. ToldOf(f)' /\ ToldDeleted(f)' BY <1>3 DEF ToldOf, ToldDeleted
    <3> QED BY <1>1, <1>5, <1>7, <2>1, <3>1 DEF InProcess
  <2>2. CASE g # f
    <3>1. disk'[g] = disk[g] BY <1>1, <2>2 DEF Sound, Inv, Typed
    <3> QED BY <1>1, <1>3, <1>7, <3>1, InProcessKept
  <2> QED BY <2>1, <2>2
<1>8. Phase' BY <1>1, <1>3, <1>6, <1>7, EditHeeded
<1> QED BY <1>1, <1>2, <1>8, TreeKept DEF Sound, Inv, Typed

LEMMA TamperSound ==
  ASSUME Sound, Tamper("edit")
  PROVE  Sound'
<1> DEFINE e == [type |-> "update", path |-> Tree]
<1>1. /\ clock' = clock + 1 /\ tree' = [mtime |-> clock + 1, routes |-> {"edited"}]
      /\ watcher' = watcher \cup {e}
      /\ UNCHANGED <<disk, fileEventQueue, pc, tempQueue, changed, job, seen,
                     writeRouteTreeFile, routeNodeCache, routeNodeShadowCache, routeTreeFileCache>>
  BY DEF Tamper, Reported, work, caches
<1>2. Inv'
  <2>1. \A f \in File : f \in overlooked' <=> f \in overlooked BY FileAssumption DEF Tamper
  <2> QED BY <1>1, <2>1, CachesPreserve DEF Sound, Inv, Typed
<1>3. /\ e \in Told' /\ Told \subseteq Told'
      /\ ToldOf(Tree)'
  <2>1. e \in Told' /\ Told \subseteq Told' BY <1>1 DEF Told
  <2> QED BY <2>1 DEF ToldOf
<1>4. clock \in Nat /\ tree'.mtime = clock + 1 BY <1>1 DEF Sound, Inv, Typed
<1>5. tree'.mtime # routeTreeFileCache'.mtime BY <1>1, <1>4 DEF Sound, TreePast
<1>6. ~Known(e)' BY <1>5 DEF Known
<1>7. ASSUME NEW g \in File, InProcess(g) PROVE InProcess(g)'
  BY <1>1, <1>3, <1>7, InProcessKept
<1>8. tree' # NoTree BY <1>4 DEF NoTree
<1>9. Phase' BY <1>1, <1>3, <1>6, <1>7, <1>8, EditHeeded
<1>10. TreeCached' BY <1>5 DEF TreeCached
<1>11. TreePast' BY <1>1, <1>4, <1>8 DEF Sound, TreePast
<1> QED BY <1>1, <1>2, <1>9, <1>10, <1>11 DEF Sound

-----------------------------------------------------------------------------
\* Steps of the run that touch neither files nor caches.
settledFiles == <<disk, tree, clock, overlooked, seen,
                  routeNodeCache, routeNodeShadowCache, routeTreeFileCache>>

LEMMA FilesKept ==
  ASSUME Sound, UNCHANGED settledFiles, Writing => UNCHANGED <<pc, writeRouteTreeFile>>
  PROVE  Inv' /\ TreePast' /\ TreeCached'
<1>1. Inv' BY WatchedPreserve DEF Sound, settledFiles, watched
<1> QED BY <1>1, TreeKept DEF Sound, settledFiles, Inv, Typed

LEMMA KnownKept ==
  ASSUME UNCHANGED <<disk, tree, overlooked, routeNodeCache, routeTreeFileCache>>
  PROVE  /\ \A e : Known(e)' <=> Known(e)
         /\ AllAgree' <=> AllAgree
BY DEF Known, Differs, AllAgree, Agrees, IsRoute

LEMMA RunSound ==
  ASSUME Sound, NEW e \in watcher, Run(e)
  PROVE  Sound'
<1>1. /\ Told' = Told /\ pc' = (IF pc = "idle" THEN "start" ELSE pc)
      /\ UNCHANGED <<disk, tree, clock, overlooked, tempQueue, changed, job, seen,
                     writeRouteTreeFile, routeNodeCache, routeNodeShadowCache,
                     routeTreeFileCache>>
  BY DEF Run, Queued, Told, work, caches
<1>2. Inv' /\ TreePast' /\ TreeCached' BY <1>1, FilesKept DEF settledFiles, Writing
<1>3. Effective(Told)' <=> Effective(Told) BY <1>1, KnownKept DEF Effective
<1>4. Effective(Told \cup tempQueue)' <=> Effective(Told \cup tempQueue)
  BY <1>1, KnownKept DEF Effective
<1>5. \A f \in File : InProcess(f) => InProcess(f)' BY <1>1, InProcessKept
<1>6. ToldOf(Tree) => ToldOf(Tree)' BY <1>1 DEF ToldOf
<1>7. Phase' BY <1>1, <1>3, <1>4, <1>5, <1>6, KnownKept DEF Sound, Phase, Writing
<1> QED BY <1>1, <1>2, <1>7 DEF Sound

LEMMA TakeQueueSound == ASSUME Sound, TakeQueue PROVE Sound'
<1>1. /\ pc = "start" /\ pc' = "compare" /\ (Told \cup tempQueue)' = Told
      /\ UNCHANGED <<disk, tree, clock, overlooked, job, seen, writeRouteTreeFile,
                     routeNodeCache, routeNodeShadowCache, routeTreeFileCache>>
  BY DEF TakeQueue, Told, files, work, caches
<1>2. Inv' /\ TreePast' /\ TreeCached' BY <1>1, FilesKept DEF settledFiles, Writing
<1>3. Effective(Told \cup tempQueue)' <=> Effective(Told) BY <1>1, KnownKept DEF Effective
<1>4. Phase' BY <1>1, <1>3, KnownKept DEF Sound, Phase, Writing
<1> QED BY <1>1, <1>2, <1>4 DEF Sound

LEMMA CompareSound == ASSUME Sound, NEW e \in tempQueue, Compare(e) PROVE Sound'
<1>1. /\ pc = "compare" /\ pc' = pc /\ Told' = Told
      /\ tempQueue' = tempQueue \ {e} /\ changed' = (changed \/ ~Known(e))
      /\ UNCHANGED <<disk, tree, clock, overlooked, job, seen, writeRouteTreeFile,
                     routeNodeCache, routeNodeShadowCache, routeTreeFileCache>>
  BY DEF Compare, Told, files, work, caches
<1>2. Inv' /\ TreePast' /\ TreeCached' BY <1>1, FilesKept DEF settledFiles, Writing
<1>3. Effective(Told \cup tempQueue) => Effective(Told \cup tempQueue)' \/ ~Known(e)
  BY <1>1, KnownKept DEF Effective
<1>4. Phase' BY <1>1, <1>3, KnownKept DEF Sound, Phase, Writing
<1> QED BY <1>1, <1>2, <1>4 DEF Sound

LEMMA ListSound == ASSUME Sound, List PROVE Sound'
<1>1. /\ pc = "compare" /\ tempQueue = {} /\ Told' = Told
      /\ UNCHANGED <<disk, tree, clock, overlooked, seen,
                     routeNodeCache, routeNodeShadowCache, routeTreeFileCache>>
  BY DEF List, Told, files, work, caches
<1>2. Inv' /\ TreePast' /\ TreeCached' BY <1>1, FilesKept DEF settledFiles, Writing
<1>3. Effective(Told)' <=> Effective(Told \cup tempQueue) BY <1>1, KnownKept DEF Effective
<1>4. CASE ~changed /\ pc' = "idle" /\ UNCHANGED work
  BY <1>1, <1>2, <1>3, <1>4, KnownKept DEF Sound, Phase, Writing, work
<1>5. CASE pc' = "process" /\ job' = [f \in File |-> IF disk[f] = NoFile THEN "none" ELSE "fresh?"]
  <2>1. \A f \in File : InProcess(f)' BY <1>1, <1>5 DEF InProcess, IsRoute
  <2>2. Phase' BY <1>5, <2>1 DEF Phase, Writing
  <2> QED BY <1>2, <1>5, <2>2 DEF Sound
<1> QED BY <1>4, <1>5 DEF List

-----------------------------------------------------------------------------
\* processRouteNodeFile takes one file from step to step.
LEMMA OneFile ==
  ASSUME Sound, NEW f \in File, pc = "process", pc' = pc, Told \subseteq Told',
         UNCHANGED <<tree, routeNodeCache, routeTreeFileCache>>, clock' \in {clock, clock + 1},
         Tree \in overlooked => Tree \in overlooked', DOMAIN job' = File,
         \A g \in File \ {f} :
           /\ disk'[g] = disk[g] /\ job'[g] = job[g] /\ seen'[g] = seen[g]
           /\ routeNodeShadowCache'[g] = routeNodeShadowCache[g],
         Inv', InProcess(f)'
  PROVE  Sound'
<1>1. \A g \in File \ {f} : InProcess(g)' BY InProcessKept DEF Sound, Phase
<1>2. Phase' BY <1>1 DEF Phase, Writing
<1>3. TreePast' /\ TreeCached' BY TreeKept DEF Sound, Inv, Typed, Writing
<1> QED BY <1>2, <1>3 DEF Sound

LEMMA Gone == ASSUME Sound, NEW f \in File
              PROVE  /\ disk[f].mtime = 0 <=> disk[f] = NoFile
                     /\ seen[f].mtime = 0 <=> seen[f] = NoFile
BY DEF Sound, Inv, NoneIsEmpty, NoFile

LEMMA IsFreshSound == ASSUME Sound, NEW f \in File, IsFresh(f) PROVE Sound'
<1>1. /\ pc = "process" /\ job[f] = "fresh?" /\ pc' = pc /\ Told' = Told
      /\ UNCHANGED <<disk, tree, clock, overlooked, seen, routeNodeCache, routeTreeFileCache>>
  BY DEF IsFresh, At, Told, files, caches
<1>2. Inv' BY IsFreshPreserves DEF Sound
<1>3. disk[f] # NoFile \/ ToldDeleted(f) BY <1>1 DEF Sound, Phase, InProcess
<1>4. PICK next : job' = [job EXCEPT ![f] = next] BY DEF IsFresh, Goto
<1>5. /\ DOMAIN job' = File /\ job'[f] = next /\ \A g \in File \ {f} : job'[g] = job[g]
  BY <1>4 DEF Sound
<1>6. \A g \in File \ {f} : routeNodeShadowCache'[g] = routeNodeShadowCache[g]
  BY DEF IsFresh, Sound, Inv, Typed, caches
<1>7. ToldDeleted(f)' <=> ToldDeleted(f) BY <1>1 DEF ToldDeleted
<1>8. \/ next = "error" /\ disk[f] = NoFile
      \/ next = "route" /\ routeNodeShadowCache'[f] # 0 /\ disk[f].mtime = routeNodeShadowCache'[f]
      \/ next = "read" /\ Stale(f)
  <2>1. next = job'[f] BY <1>5
  <2> QED BY <2>1, <1>5 DEF IsFresh, Goto, Differs, Stale, caches, Sound, Inv, Typed
<1>9. InProcess(f)'
  <2>1. CASE next = "error" /\ disk[f] = NoFile
    BY <1>1, <1>3, <1>5, <1>7, <2>1 DEF InProcess
  <2>2. CASE next = "route" /\ routeNodeShadowCache'[f] # 0 /\ disk[f].mtime = routeNodeShadowCache'[f]
    BY <1>1, <1>5, <2>2 DEF InProcess
  <2>3. CASE next = "read" /\ Stale(f)
    <3>1. Stale(f)' BY <1>1, <2>3 DEF Stale
    <3> QED BY <1>1, <1>3, <1>5, <1>7, <2>3, <3>1 DEF InProcess
  <2> QED BY <1>8, <2>1, <2>2, <2>3
<1> QED BY <1>1, <1>2, <1>5, <1>6, <1>9, OneFile

LEMMA ReadFileSound == ASSUME Sound, NEW f \in File, ReadFile(f) PROVE Sound'
<1>1. /\ pc = "process" /\ job[f] = "read" /\ pc' = pc /\ Told' = Told
      /\ UNCHANGED <<disk, tree, clock, overlooked, routeNodeCache, routeNodeShadowCache,
                     routeTreeFileCache>>
      /\ seen' = [seen EXCEPT ![f] = disk[f]]
      /\ job' = [job EXCEPT ![f] = IF disk[f] = NoFile THEN "error" ELSE "transform"]
  BY DEF ReadFile, At, Goto, Told, files, caches
<1>2. Inv' BY ReadFilePreserves DEF Sound
<1>3. (disk[f] # NoFile \/ ToldDeleted(f)) /\ Stale(f) BY <1>1 DEF Sound, Phase, InProcess
<1>4. /\ DOMAIN job' = File /\ job'[f] = (IF disk[f] = NoFile THEN "error" ELSE "transform")
      /\ seen'[f] = disk[f]
      /\ \A g \in File \ {f} : job'[g] = job[g] /\ seen'[g] = seen[g]
  BY <1>1 DEF Sound, Inv, Typed
<1>5. (ToldDeleted(f)' <=> ToldDeleted(f)) /\ Stale(f)' BY <1>1, <1>3 DEF ToldDeleted, Stale
<1>6. InProcess(f)' BY <1>1, <1>3, <1>4, <1>5 DEF InProcess
<1> QED BY <1>1, <1>2, <1>4, <1>6, OneFile

LEMMA TransformSound == ASSUME Sound, NEW f \in File, Transform(f) PROVE Sound'
<1>1. /\ pc = "process" /\ job[f] = "transform" /\ pc' = pc /\ Told' = Told
      /\ UNCHANGED <<disk, tree, clock, overlooked, seen, routeNodeCache, routeTreeFileCache>>
  BY DEF Transform, At, Told, files
<1>2. Inv' BY TransformPreserves DEF Sound
<1>3. /\ disk[f] # NoFile \/ ToldDeleted(f)
      /\ Stale(f) /\ seen[f] # NoFile
      /\ seen[f].mtime = disk[f].mtime \/ ToldOf(f)
  BY <1>1 DEF Sound, Phase, InProcess
<1>4. PICK next : job' = [job EXCEPT ![f] = next] BY DEF Transform, Goto
<1>5. /\ DOMAIN job' = File /\ job'[f] = next /\ \A g \in File \ {f} : job'[g] = job[g]
  BY <1>4 DEF Sound
<1>6. /\ ToldDeleted(f) => ToldDeleted(f)'
      /\ ToldOf(f) => ToldOf(f)'
  BY <1>1 DEF ToldDeleted, ToldOf
<1>7. CASE seen[f].content = "plain" /\ next = "none" /\ UNCHANGED routeNodeShadowCache
  <2>1. ~IsRoute(f)' \/ ToldOf(f)'
    BY <1>1, <1>3, <1>6, <1>7 DEF IsRoute, Sound, Inv, SeenIsCurrent
  <2>2. InProcess(f)' BY <1>5, <1>7, <2>1 DEF InProcess
  <2> QED BY <1>1, <1>2, <1>5, <1>7, <2>2, OneFile
<1>8. CASE /\ next = "route"
           /\ routeNodeShadowCache' = [routeNodeShadowCache EXCEPT ![f] = seen[f].mtime]
  <2>1. /\ routeNodeShadowCache'[f] = seen[f].mtime
        /\ \A g \in File \ {f} : routeNodeShadowCache'[g] = routeNodeShadowCache[g]
    BY <1>8 DEF Sound, Inv, Typed
  <2>2. seen[f].mtime # 0 BY <1>3, Gone
  <2>3. InProcess(f)' BY <1>1, <1>3, <1>5, <1>6, <1>8, <2>1, <2>2 DEF InProcess
  <2> QED BY <1>1, <1>2, <1>5, <1>8, <2>1, <2>3, OneFile
<1>9. CASE /\ UNCHANGED routeNodeShadowCache
           /\ next = IF disk[f].mtime = seen[f].mtime THEN "rename"
                     ELSE IF disk[f] = NoFile THEN "error" ELSE "rerun"
  <2>1. Stale(f)' BY <1>1, <1>3 DEF Stale
  <2>2. InProcess(f)' BY <1>1, <1>3, <1>5, <1>6, <1>9, <2>1 DEF InProcess
  <2> QED BY <1>1, <1>2, <1>5, <1>9, <2>2, OneFile
<1>10. next = job'[f] /\ DOMAIN job = File BY <1>5 DEF Sound
<1>11. CASE seen[f].content = "plain" BY <1>7, <1>10, <1>11 DEF Transform, Goto
<1>12. CASE seen[f].content = "route" BY <1>8, <1>10, <1>12 DEF Transform, Goto, ReadStamp
<1>13. CASE seen[f].content \notin {"plain", "route"}
  BY <1>9, <1>10, <1>13 DEF Transform, Goto
<1> QED BY <1>11, <1>12, <1>13

LEMMA RenameSound == ASSUME Sound, NEW f \in File, Rename(f) PROVE Sound'
<1>1. /\ pc = "process" /\ pc' = pc /\ Told \subseteq Told'
      /\ UNCHANGED <<tree, seen, routeNodeCache, routeNodeShadowCache, routeTreeFileCache>>
      /\ clock' = clock + 1 /\ (Tree \in overlooked => Tree \in overlooked')
      /\ disk' = [disk EXCEPT ![f] = [mtime |-> clock + 1, content |-> "route"]]
      /\ job' = [job EXCEPT ![f] = "stat"]
  BY FileAssumption DEF Rename, At, Goto, Reported, Told, caches
<1>2. Inv' BY RenamePreserves DEF Sound
<1>3. /\ DOMAIN job' = File /\ job'[f] = "stat" /\ disk'[f].mtime = clock + 1
      /\ \A g \in File \ {f} : job'[g] = job[g] /\ disk'[g] = disk[g]
  BY <1>1 DEF Sound, Inv, Typed
<1>4. disk'[f] # NoFile BY <1>3 DEF NoFile, Sound, Inv, Typed
<1>5. InProcess(f)' BY <1>3, <1>4 DEF InProcess
<1> QED BY <1>1, <1>2, <1>3, <1>5, OneFile

LEMMA StatFileSound == ASSUME Sound, NEW f \in File, StatFile(f) PROVE Sound'
<1>1. /\ pc = "process" /\ job[f] = "stat" /\ pc' = pc /\ Told' = Told
      /\ UNCHANGED <<disk, tree, clock, seen, routeNodeCache, routeTreeFileCache>>
      /\ Tree \in overlooked => Tree \in overlooked'
  BY DEF StatFile, At, Told
<1>2. Inv' BY StatFilePreserves DEF Sound
<1>3. disk[f] # NoFile \/ ToldDeleted(f) BY <1>1 DEF Sound, Phase, InProcess
<1>4. ToldDeleted(f)' <=> ToldDeleted(f) BY <1>1 DEF ToldDeleted
<1>5. CASE disk[f] = NoFile
  <2>1. job' = [job EXCEPT ![f] = "error"] /\ UNCHANGED routeNodeShadowCache
    BY <1>5 DEF StatFile, Goto
  <2>2. /\ DOMAIN job' = File /\ job'[f] = "error"
        /\ \A g \in File \ {f} : job'[g] = job[g]
    BY <2>1 DEF Sound
  <2>3. InProcess(f)' BY <1>3, <1>4, <1>5, <2>2 DEF InProcess
  <2> QED BY <1>1, <1>2, <2>1, <2>2, <2>3, OneFile
<1>6. CASE disk[f] # NoFile
  <2>1. /\ job' = [job EXCEPT ![f] = "route"]
        /\ routeNodeShadowCache' = [routeNodeShadowCache EXCEPT ![f] = disk[f].mtime]
    BY <1>6 DEF StatFile, Goto
  <2>2. /\ DOMAIN job' = File /\ job'[f] = "route" /\ routeNodeShadowCache'[f] = disk[f].mtime
        /\ \A g \in File \ {f} : /\ job'[g] = job[g]
                                 /\ routeNodeShadowCache'[g] = routeNodeShadowCache[g]
    BY <2>1 DEF Sound, Inv, Typed
  <2>3. disk[f].mtime # 0 BY <1>6, Gone
  <2>4. InProcess(f)' BY <1>1, <2>2, <2>3 DEF InProcess
  <2> QED BY <1>1, <1>2, <2>2, <2>4, OneFile
<1> QED BY <1>5, <1>6

-----------------------------------------------------------------------------
LEMMA RejectSound == ASSUME Sound, Reject PROVE Sound'
<1>1. /\ pc = "process" /\ Told \subseteq Told' /\ pc' \in {"idle", "start"}
      /\ UNCHANGED <<disk, tree, clock, overlooked, routeNodeCache, routeTreeFileCache>>
      /\ DOMAIN job' = File
  BY DEF Reject, Continue, Throw, Return, Told, files, caches
<1>2. Inv' /\ TreePast' /\ TreeCached'
  BY <1>1, TreeStepPreserves, TreeKept DEF Sound, Inv, Typed, Writing
<1>3. CASE \E f \in File : job[f] = "error"
  <2>1. PICK f \in File : job[f] = "error" BY <1>3
  <2>2. PICK e : e = [type |-> "delete", path |-> f] OBVIOUS
  <2>3. e \in Told' BY <1>1, <2>1, <2>2 DEF Sound, Phase, InProcess, ToldDeleted
  <2>4. ~Known(e)' BY <2>2 DEF Known
  <2>5. Effective(Told)' BY <2>3, <2>4 DEF Effective
  <2> QED BY <1>1, <1>2, <2>5 DEF Sound, Phase, Writing
<1>4. CASE ~ \E f \in File : job[f] = "error"
  <2>1. PICK f \in File : job[f] = "rerun" BY <1>4 DEF Reject
  <2>2. PICK e : e = [type |-> "update", path |-> f] OBVIOUS
  <2>3. e \in Told' BY <1>4, <2>1, <2>2 DEF Reject, Continue, Reruns, Told
  <2>4. Stale(f) BY <1>1, <2>1 DEF Sound, Phase, InProcess
  <2>5. ~Known(e)' BY <1>1, <2>2, <2>4, FileAssumption DEF Known, Stale
  <2>6. Effective(Told)' BY <2>3, <2>5 DEF Effective
  <2> QED BY <1>1, <1>2, <2>6 DEF Sound, Phase, Writing
<1> QED BY <1>3, <1>4

LEMMA ReadTreeSound == ASSUME Sound, ReadTree PROVE Sound'
<1>1. /\ pc = "process" /\ pc' = "tree" /\ Told' = Told
      /\ UNCHANGED <<disk, tree, clock, overlooked, job, seen,
                     routeNodeCache, routeNodeShadowCache>>
      /\ \A f \in File : job[f] \in {"none", "route"}
  BY DEF ReadTree, Settled, Told, files
<1>2. Inv' BY <1>1, WatchedPreserve DEF Sound, watched
<1>3. \A f \in File : InProcess(f)' BY <1>1, InProcessKept DEF Sound, Phase
<1>4. /\ routeTreeFileCache' \in {tree, routeTreeFileCache}
      /\ tree = NoTree => routeTreeFileCache' = routeTreeFileCache
      /\ routeTreeFileCache = NoTree \/ tree.mtime # routeTreeFileCache.mtime =>
           writeRouteTreeFile' /\ (tree # NoTree => routeTreeFileCache' = tree)
      /\ ~(routeTreeFileCache = NoTree \/ tree.mtime # routeTreeFileCache.mtime) =>
           routeTreeFileCache' = routeTreeFileCache
  BY DEF ReadTree
<1>5. TreePast' BY <1>1, <1>4 DEF Sound, TreePast
<1>6. TreeCached' BY <1>1, <1>4 DEF Sound, TreePast, TreeCached, CachedRoutes, Writing
<1>7. (tree.mtime = routeTreeFileCache.mtime)' BY <1>1, <1>4 DEF Sound, TreePast
<1>8. (routeTreeFileCache = NoTree => writeRouteTreeFile)'
  BY <1>1, <1>4 DEF Sound, TreePast
<1>9. Phase' BY <1>1, <1>3, <1>7, <1>8 DEF Phase, Writing
<1> QED BY <1>1, <1>2, <1>5, <1>6, <1>9 DEF Sound

\* Without entries of a failed round the caches say which routes have come or
\* gone.
LEMMA SameFiles ==
  ASSUME ~OtherFiles
  PROVE  CachedRoutes = {f \in File : routeNodeShadowCache[f] # 0}
<1> DEFINE Old == {f \in File : routeNodeCache[f] # 0}
           New == {f \in File : routeNodeShadowCache[f] # 0}
<1>1. Old \subseteq New /\ Cardinality(Old) = Cardinality(New) BY DEF OtherFiles, OtherSize
<1>2. IsFiniteSet(New) BY FileAssumption, FS_Subset
<1>3. Old = New BY <1>1, <1>2, FS_Subset
<1> QED BY <1>3 DEF CachedRoutes

\* A file that the swapped cache does not agree with has been told of.
LEMMA SwappedAgree ==
  ASSUME Sound, NoLeftOver, Writing, SwapCaches, UNCHANGED disk, Told \subseteq Told',
         NEW f \in File, f \in overlooked => f \in overlooked'
  PROVE  Agrees(f)' \/ Effective(Told)'
<1>1. routeNodeCache'[f] = routeNodeShadowCache[f] /\ disk'[f] = disk[f] BY DEF SwapCaches
<1>2. InProcess(f) /\ job[f] \in {"none", "route"} BY DEF Sound, Phase
<1>3. ASSUME ToldOf(f), Stale(f)' PROVE Effective(Told)'
  <2>1. PICK e \in Told : e.path = f BY <1>3 DEF ToldOf
  <2>2. ~Known(e)' BY <1>3, <2>1, FileAssumption DEF Known, Stale
  <2> QED BY <2>1, <2>2 DEF Effective
<1>4. CASE job[f] = "none"
  <2>1. routeNodeShadowCache[f] = 0 BY <1>4 DEF NoLeftOver
  <2>2. Stale(f)' BY <1>1, <2>1 DEF Stale, Differs
  <2>3. CASE ToldOf(f) BY <1>3, <2>2, <2>3
  <2>4. CASE ~IsRoute(f) BY <1>1, <2>1, <2>4 DEF Agrees, IsRoute
  <2> QED BY <1>2, <1>4, <2>3, <2>4 DEF InProcess
<1>5. CASE job[f] = "route"
  <2>1. routeNodeShadowCache[f] # 0 BY <1>2, <1>5 DEF InProcess
  <2>2. CASE disk[f].mtime = routeNodeShadowCache[f]
    <3>1. disk[f].content = "route" \/ f \in overlooked
      BY <2>1, <2>2 DEF Sound, Inv, KnownIsRoute, Remembered
    <3>2. disk[f] # NoFile BY <2>1, <2>2 DEF NoFile
    <3> QED BY <1>1, <2>2, <3>1, <3>2 DEF Agrees, IsRoute
  <2>3. CASE disk[f].mtime # routeNodeShadowCache[f]
    <3>1. Stale(f)' BY <1>1, <2>3 DEF Stale, Differs
    <3>2. ToldOf(f) BY <1>2, <1>5, <2>3 DEF InProcess
    <3> QED BY <1>3, <3>1, <3>2
  <2> QED BY <2>2, <2>3
<1> QED BY <1>2, <1>4, <1>5

\* The caches are swapped when the tree has the routes found.
LEMMA SwapSound ==
  ASSUME Sound, NoLeftOver, Writing, SwapCaches, Inv', TreePast', DOMAIN job' = File,
         pc' \in {"idle", "start"}, UNCHANGED disk, Told \subseteq Told',
         \A f \in File : f \in overlooked => f \in overlooked',
         routeTreeFileCache' # NoTree,
         (tree.mtime # routeTreeFileCache.mtime => ToldOf(Tree))',
         (tree.mtime = routeTreeFileCache.mtime =>
            /\ tree.routes = routeTreeFileCache.routes \/ Tree \in overlooked
            /\ routeTreeFileCache.routes = {f \in File : routeNodeCache[f] # 0})'
  PROVE  Sound'
<1>1. TreeCached' BY DEF TreeCached, CachedRoutes
<1>2. ASSUME Effective(Told)' PROVE Phase' BY <1>2 DEF Phase, Writing
<1>3. CASE (tree.mtime # routeTreeFileCache.mtime)'
  <2>1. PICK e \in Told' : e.path = Tree BY <1>3 DEF ToldOf
  <2>2. ~Known(e)' BY <1>3, <2>1 DEF Known
  <2> QED BY <1>1, <1>2, <2>1, <2>2 DEF Effective, Sound
<1>4. CASE (tree.mtime = routeTreeFileCache.mtime)'
  <2>1. \A f \in File : Agrees(f)' \/ Effective(Told)' BY SwappedAgree
  <2>2. CASE \A f \in File : Agrees(f)' BY <1>1, <1>4, <2>2 DEF Phase, AllAgree, Writing, Sound
  <2> QED BY <1>1, <1>2, <2>1, <2>2 DEF Sound
<1> QED BY <1>3, <1>4

LEMMA RoutesAreRemembered ==
  ASSUME Sound, NoLeftOver, Writing
  PROVE  Routes = {f \in File : routeNodeShadowCache[f] # 0}
BY DEF Routes, NoLeftOver, Sound, Phase, InProcess

LEMMA BuildTreeSound == ASSUME Sound, NoLeftOver, BuildTree PROVE Sound'
<1>1. /\ Writing /\ pc = "tree" /\ Told \subseteq Told'
      /\ UNCHANGED <<disk, tree, clock, overlooked, routeTreeFileCache>>
  BY DEF BuildTree, Writing, Continue, Throw, Told, files
<1>2. Inv' BY TreeStepPreserves DEF Sound
<1>3. TreePast' BY <1>1 DEF Sound, TreePast
<1>4. ToldOf(Tree) => ToldOf(Tree)' BY <1>1 DEF ToldOf
<1>5. CASE /\ ~(writeRouteTreeFile \/ OtherFiles)
              \/ (routeTreeFileCache # NoTree /\ routeTreeFileCache.routes = Routes)
           /\ SwapCaches /\ Continue({})
  <2>1. routeTreeFileCache # NoTree BY <1>1, <1>5 DEF Sound, Phase
  <2>2. tree.mtime = routeTreeFileCache.mtime =>
          /\ tree.routes = routeTreeFileCache.routes \/ Tree \in overlooked
          /\ routeTreeFileCache.routes = Routes
    BY <1>1, <1>5, <2>1, SameFiles, RoutesAreRemembered DEF Sound, TreeCached
  <2>3. Routes = {f \in File : routeNodeCache'[f] # 0}
    BY <1>1, <1>5, RoutesAreRemembered DEF SwapCaches
  <2>4. tree.mtime # routeTreeFileCache.mtime => ToldOf(Tree)' BY <1>1, <1>4 DEF Sound, Phase
  <2>5. pc' \in {"idle", "start"} /\ DOMAIN job' = File BY <1>5 DEF Continue, Return
  <2> QED BY <1>1, <1>2, <1>3, <1>5, <2>1, <2>2, <2>3, <2>4, <2>5, SwapSound
<1>6. CASE tree.mtime = routeTreeFileCache.mtime /\ pc' = "renameTree"
           /\ UNCHANGED <<fileEventQueue, work, routeNodeCache, routeNodeShadowCache>>
  <2>1. \A f \in File : InProcess(f)'
    BY <1>1, <1>6, InProcessKept DEF Sound, Phase, work
  <2>2. Phase' BY <1>1, <1>6, <2>1 DEF Sound, Phase, Writing, work
  <2>3. TreeCached' BY <1>1, <1>6 DEF Sound, TreeCached, CachedRoutes, Writing, work
  <2> QED BY <1>2, <1>3, <1>6, <2>2, <2>3 DEF Sound, work
<1>7. CASE /\ tree.mtime # routeTreeFileCache.mtime
           /\ pc' \in {"idle", "start"} /\ DOMAIN job' = File
           /\ UNCHANGED <<routeNodeCache, routeNodeShadowCache>>
  <2>1. PICK e \in Told : e.path = Tree BY <1>1, <1>7 DEF Sound, Phase, ToldOf
  <2>2. ~Known(e)' BY <1>1, <1>7, <2>1 DEF Known
  <2>3. Effective(Told)' BY <1>1, <2>1, <2>2 DEF Effective
  <2>4. Phase' BY <1>7, <2>3 DEF Phase, Writing
  <2>5. TreeCached' BY <1>1, <1>7 DEF TreeCached
  <2> QED BY <1>2, <1>3, <1>7, <2>4, <2>5 DEF Sound
<1> QED BY <1>5, <1>6, <1>7 DEF BuildTree, Continue, Throw, Return

LEMMA RenameTreeSound == ASSUME Sound, RenameTree PROVE Sound'
<1>1. /\ Writing /\ pc' = "statTree" /\ Told \subseteq Told' /\ clock' = clock + 1
      /\ tree' = [mtime |-> clock + 1, routes |-> Routes]
      /\ UNCHANGED <<disk, job, seen, writeRouteTreeFile, routeNodeCache, routeNodeShadowCache,
                     routeTreeFileCache>>
  BY DEF RenameTree, Writing, Reported, Told, work, caches
<1>2. Inv' BY TreeStepPreserves DEF Sound
<1>3. ToldOf(Tree)'
  <2>1. PICK e : e = [type |-> IF tree = NoTree THEN "create" ELSE "update", path |-> Tree]
    OBVIOUS
  <2>2. e \in Told' BY <2>1 DEF RenameTree, Reported, Told
  <2> QED BY <2>1, <2>2 DEF ToldOf
<1>4. clock \in Nat /\ tree'.mtime = clock + 1 BY <1>1 DEF Sound, Inv, Typed
<1>5. tree' # NoTree BY <1>4 DEF NoTree
<1>6. TreePast' BY <1>1, <1>4, <1>5 DEF Sound, TreePast
<1>7. tree'.mtime # routeTreeFileCache'.mtime BY <1>1, <1>4 DEF Sound, TreePast
<1>8. TreeCached' BY <1>7 DEF TreeCached
<1>9. \A f \in File : InProcess(f)' BY <1>1, InProcessKept DEF Sound, Phase
<1>10. Phase' BY <1>1, <1>5, <1>9, <1>3 DEF Sound, Phase, Writing
<1> QED BY <1>1, <1>2, <1>6, <1>8, <1>10 DEF Sound

LEMMA StatTreeSound == ASSUME Sound, NoLeftOver, StatTree PROVE Sound'
<1>1. Writing /\ tree # NoTree BY DEF StatTree, Writing, Sound, Phase
<1>2. /\ SwapCaches /\ Told \subseteq Told' /\ UNCHANGED <<disk, tree, clock>>
      /\ pc' \in {"idle", "start"} /\ DOMAIN job' = File
      /\ routeTreeFileCache' = [mtime |-> tree.mtime, routes |-> Routes]
      /\ overlooked' = IF tree.routes = Routes THEN overlooked ELSE overlooked \cup {Tree}
  BY <1>1 DEF StatTree, Continue, Return, Told
<1>3. Inv' BY TreeStepPreserves DEF Sound
<1>4. tree.mtime # 0 BY <1>1 DEF Sound, TreePast
<1>5. routeTreeFileCache' # NoTree /\ routeTreeFileCache'.mtime = tree.mtime
      /\ routeTreeFileCache'.routes = Routes
  BY <1>2, <1>4 DEF NoTree
<1>6. TreePast' BY <1>1, <1>2, <1>4, <1>5 DEF Sound, TreePast
<1>7. Routes = {f \in File : routeNodeCache'[f] # 0}
  BY <1>1, <1>2, RoutesAreRemembered DEF SwapCaches
<1>8. tree.routes = Routes \/ Tree \in overlooked' BY <1>2
<1> QED BY <1>1, <1>2, <1>3, <1>5, <1>6, <1>7, <1>8, SwapSound

LEMMA SoundNext ==
  ASSUME Tampering \subseteq {"edit"}
  PROVE  Sound /\ NoLeftOver /\ [Next]_vars => Sound'
<1> SUFFICES ASSUME Sound, NoLeftOver, [Next]_vars PROVE Sound' OBVIOUS
<1>1. ASSUME NEW f \in File, NEW c \in Contents, Save(f, c) PROVE Sound' BY <1>1, SaveSound
<1>2. ASSUME NEW f \in File, Delete(f) PROVE Sound' BY <1>2, DeleteSound
<1>3. ASSUME NEW how \in Tampering, Tamper(how) PROVE Sound' BY <1>3, TamperSound
<1>4. ASSUME NEW f \in File,
             IsFresh(f) \/ ReadFile(f) \/ Transform(f) \/ Rename(f) \/ StatFile(f)
      PROVE  Sound'
  BY <1>4, IsFreshSound, ReadFileSound, TransformSound, RenameSound, StatFileSound
<1>5. CASE \/ TakeQueue \/ List \/ Reject \/ ReadTree
           \/ BuildTree \/ RenameTree \/ StatTree
  BY <1>5, TakeQueueSound, ListSound, RejectSound, ReadTreeSound, BuildTreeSound,
     RenameTreeSound, StatTreeSound
<1>6. ASSUME NEW e \in tempQueue, Compare(e) PROVE Sound' BY <1>6, CompareSound
<1>7. ASSUME NEW e \in watcher, Run(e) PROVE Sound' BY <1>7, RunSound
<1>8. CASE UNCHANGED vars BY <1>8, SoundStutter
<1> QED BY <1>1, <1>2, <1>3, <1>4, <1>5, <1>6, <1>7, <1>8 DEF Next, Edit, Generate

LEMMA SoundIsUpToDate == Sound => UpToDate
<1> SUFFICES ASSUME Sound, AtRest PROVE TreeIsRight BY DEF UpToDate
<1>1. ~Effective(Told) BY DEF AtRest, Effective, Told
<1>2. AllAgree BY <1>1 DEF AtRest, Sound, Phase
<1>3. /\ routeTreeFileCache.routes = CachedRoutes
      /\ Tree \notin overlooked => tree.routes = CachedRoutes
  BY <1>2 DEF AtRest, AllAgree, Sound, TreeCached, Writing
<1>4. ASSUME NEW f \in File \ overlooked PROVE routeNodeCache[f] # 0 <=> IsRoute(f)
  BY <1>2, Gone DEF AllAgree, Agrees, IsRoute
<1> QED BY <1>3, <1>4 DEF TreeIsRight, CachedRoutes

\* However files are edited while the generator runs, the route tree file has
\* the routes of the files when every event is worked off, unless entries of
\* a failed round have been taken for a later one's; a change between a rename
\* and its stat is missed until the same file changes again, and leaves no
\* other file's entry wrong.  The tree file itself may be edited by others, not
\* deleted.
THEOREM TreeFollowsFiles ==
  ASSUME Tampering \subseteq {"edit"}
  PROVE  Spec => UpToDateUnlessLeftOver
<1>1. Sound /\ NoLeftOver /\ [Next]_vars => Sound' BY SoundNext
<1> QED BY SoundInitially, <1>1, SoundIsUpToDate, PTL DEF Spec, UpToDateUnlessLeftOver
============================================================================
