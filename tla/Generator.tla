------------------------------ MODULE Generator ------------------------------
(***************************************************************************)
(* run and generatorInternal of packages/router-generator: route files are *)
(* edited while the generator reads, transforms and writes them; watcher   *)
(* events are queued, one run at a time works them off, files are compared *)
(* with two caches by their modification times, and the route tree file is *)
(* written when it has to be.  The tree stands for the set of routes in    *)
(* it.  The root route, virtual route configurations and plugins are left  *)
(* out.                                                                    *)
(***************************************************************************)
EXTENDS Naturals, FiniteSets

CONSTANTS File,        \* the paths a route file may have
          Contents,    \* what an editor saves
          Tampering,   \* what happens to the tree file: "edit", "delete"
          MaxEdits     \* bound on the edits

Tree == "routeTree"
ASSUME FileAssumption == Tree \notin File /\ IsFiniteSet(File)

VARIABLES disk,            \* each route file: its mtime, 0 without a file, and content
          tree,            \* the tree file: its mtime and its routes
          clock,           \* the last mtime given
          edits,
          watcher,         \* events the watcher has not reported yet
          fileEventQueue,
          pc,              \* of the run: runPromise is set unless it is "idle"
          tempQueue,       \* events not compared with the cache yet
          changed,         \* was one of them about a change?
          job,             \* the state of processRouteNodeFile for each file
          seen,            \* the file as it was read
          writeRouteTreeFile,
          routeNodeCache, routeNodeShadowCache,   \* mtimes, 0 without an entry
          routeTreeFileCache,
          overlooked       \* history: files saved between a rename and its stat

files == <<disk, tree, clock, edits, watcher, overlooked>>
caches == <<routeNodeCache, routeNodeShadowCache, routeTreeFileCache>>
work == <<job, seen, writeRouteTreeFile>>
vars == <<files, fileEventQueue, pc, tempQueue, changed, work, caches>>

Content == {"empty", "raw", "route", "plain"}
NoFile == [mtime |-> 0, content |-> "empty"]
Event == [type : {"create", "update", "delete"}, path : File \cup {Tree}]
         \cup {[type |-> "rerun", path |-> Tree]}
NoTree == [mtime |-> 0, routes |-> {}]

\* The generator starts on a project that has some of the files already.
Init == /\ disk \in [File -> {NoFile, [mtime |-> 1, content |-> "route"]}]
        /\ tree = NoTree /\ clock = 1 /\ edits = 0 /\ watcher = {}
        /\ fileEventQueue = {[type |-> "rerun", path |-> Tree]}
        /\ pc = "start" /\ tempQueue = {} /\ changed = FALSE
        /\ job = [f \in File |-> "none"] /\ seen = [f \in File |-> NoFile]
        /\ writeRouteTreeFile = FALSE
        /\ routeNodeCache = [f \in File |-> 0]
        /\ routeNodeShadowCache = routeNodeCache
        /\ routeTreeFileCache = NoTree
        /\ overlooked = {}

-----------------------------------------------------------------------------
\* Editors and the watcher.
Reported(type, path) == watcher' = watcher \cup {[type |-> type, path |-> path]}

Save(f, content) ==
  /\ edits < MaxEdits /\ edits' = edits + 1
  /\ clock' = clock + 1
  /\ disk' = [disk EXCEPT ![f] = [mtime |-> clock', content |-> content]]
  /\ Reported(IF disk[f] = NoFile THEN "create" ELSE "update", f)
  /\ overlooked' = overlooked \ {f}
  /\ UNCHANGED <<tree, fileEventQueue, pc, tempQueue, changed, work, caches>>

Delete(f) ==
  /\ edits < MaxEdits /\ edits' = edits + 1
  /\ disk[f] # NoFile
  /\ disk' = [disk EXCEPT ![f] = NoFile]
  /\ Reported("delete", f)
  /\ overlooked' = overlooked \ {f}
  /\ UNCHANGED <<tree, clock, fileEventQueue, pc, tempQueue, changed, work, caches>>

Tamper(how) ==
  /\ edits < MaxEdits /\ edits' = edits + 1
  /\ tree # NoTree
  /\ IF how = "edit" THEN /\ clock' = clock + 1
                          /\ tree' = [mtime |-> clock', routes |-> {"edited"}]
                          /\ Reported("update", Tree)
                     ELSE tree' = NoTree /\ Reported("delete", Tree) /\ UNCHANGED clock
  /\ overlooked' = overlooked \ {Tree}
  /\ UNCHANGED <<disk, fileEventQueue, pc, tempQueue, changed, work, caches>>

-----------------------------------------------------------------------------
\* Mutant of Queued: while a run is under way events are ignored.
QueuedIfIdle(e) == IF pc = "idle" THEN fileEventQueue \cup {e} ELSE fileEventQueue

Queued(e) == fileEventQueue \cup {e}

\* run: the event is queued; a run under way will see to it.
Run(e) ==
  /\ watcher' = watcher \ {e}
  /\ fileEventQueue' = Queued(e)
  /\ pc' = IF pc = "idle" THEN "start" ELSE pc
  /\ UNCHANGED <<disk, tree, clock, edits, overlooked, tempQueue, changed, work, caches>>

\* The queue is copied and cleared.
TakeQueue ==
  /\ pc = "start"
  /\ tempQueue' = fileEventQueue /\ fileEventQueue' = {}
  /\ changed' = FALSE
  /\ pc' = "compare"
  /\ UNCHANGED <<files, work, caches>>

\* didFileChangeComparedToCache: without an entry, or a file, it did.
Differs(mtime, cached) == cached = 0 \/ mtime # cached

\* An update that a cache knows of already is dropped; the shadow cache is
\* not asked, since what it knows is not in the tree.
Known(e) == /\ e.type = "update"
            /\ IF e.path = Tree
               THEN routeTreeFileCache # NoTree /\ tree.mtime = routeTreeFileCache.mtime
               ELSE ~Differs(disk[e.path].mtime, routeNodeCache[e.path])
Compare(e) ==
  /\ pc = "compare"
  /\ tempQueue' = tempQueue \ {e}
  /\ changed' = (changed \/ ~Known(e))
  /\ UNCHANGED <<files, fileEventQueue, pc, work, caches>>

\* Nothing is left to do: break.  Otherwise the directory is listed.
List ==
  /\ pc = "compare" /\ tempQueue = {}
  /\ IF ~changed THEN pc' = "idle" /\ UNCHANGED work
     ELSE /\ pc' = "process"
          /\ job' = [f \in File |-> IF disk[f] = NoFile THEN "none" ELSE "fresh?"]
          /\ writeRouteTreeFile' = FALSE
          /\ UNCHANGED seen
  /\ UNCHANGED <<files, fileEventQueue, tempQueue, changed, caches>>

-----------------------------------------------------------------------------
\* processRouteNodeFile, for all files side by side.
At(f, step) == pc = "process" /\ job[f] = step
Goto(f, step) == job' = [job EXCEPT ![f] = step]

\* isRouteFileCacheFresh.
IsFresh(f) ==
  LET cached == routeNodeCache[f]
      shadow == routeNodeShadowCache[f]
  IN  /\ At(f, "fresh?")
      /\ IF disk[f] = NoFile /\ (cached # 0 \/ shadow # 0)
         THEN Goto(f, "error") /\ UNCHANGED caches
         ELSE IF ~Differs(disk[f].mtime, cached)
         THEN /\ Goto(f, "route")
              /\ routeNodeShadowCache' = [routeNodeShadowCache EXCEPT ![f] = cached]
              /\ UNCHANGED <<routeNodeCache, routeTreeFileCache>>
         ELSE IF cached # 0 /\ ~Differs(disk[f].mtime, shadow)
         THEN Goto(f, "route") /\ UNCHANGED caches
         ELSE Goto(f, "read") /\ UNCHANGED caches
      /\ UNCHANGED <<files, fileEventQueue, pc, tempQueue, changed, seen, writeRouteTreeFile>>

\* The file is opened, its time is taken and then its content, in one step: a
\* save between the two only makes the content newer than its time, so that the
\* next look at the file reads it again.
ReadFile(f) ==
  /\ At(f, "read")
  /\ IF disk[f] = NoFile THEN Goto(f, "error") ELSE Goto(f, "transform")
  /\ seen' = [seen EXCEPT ![f] = disk[f]]
  /\ UNCHANGED <<files, fileEventQueue, pc, tempQueue, changed, writeRouteTreeFile, caches>>

\* Mutant of ReadStamp: the file is looked at once more.
StampNow(f) == disk[f].mtime

\* The time that is cached for a file left as it was.
ReadStamp(f) == seen[f].mtime

\* An empty file is filled from the template, others are transformed where
\* needed; a file without a Route export is not a route.  safeFileWrite goes
\* on if the file still has the time at which it was read.
Transform(f) ==
  /\ At(f, "transform")
  /\ CASE seen[f].content = "plain" ->
            Goto(f, "none") /\ UNCHANGED routeNodeShadowCache
       [] seen[f].content = "route" ->
            /\ Goto(f, "route")
            /\ routeNodeShadowCache' = [routeNodeShadowCache EXCEPT ![f] = ReadStamp(f)]
       [] OTHER ->
            /\ Goto(f, IF disk[f].mtime = seen[f].mtime THEN "rename"
                       ELSE IF disk[f] = NoFile THEN "error" ELSE "rerun")
            /\ UNCHANGED routeNodeShadowCache
  /\ UNCHANGED <<files, fileEventQueue, pc, tempQueue, changed, seen, writeRouteTreeFile,
                 routeNodeCache, routeTreeFileCache>>

\* The new file takes the place of whatever is there by now.
Rename(f) ==
  /\ At(f, "rename")
  /\ clock' = clock + 1
  /\ disk' = [disk EXCEPT ![f] = [mtime |-> clock', content |-> "route"]]
  /\ Reported(IF disk[f] = NoFile THEN "create" ELSE "update", f)
  /\ overlooked' = overlooked \ {f}
  /\ Goto(f, "stat")
  /\ UNCHANGED <<tree, edits, fileEventQueue, pc, tempQueue, changed, seen,
                 writeRouteTreeFile, caches>>

\* The time that is cached is the one the file has after the rename, though
\* somebody may have saved it since.
StatFile(f) ==
  /\ At(f, "stat")
  /\ IF disk[f] = NoFile
     THEN Goto(f, "error") /\ UNCHANGED <<overlooked, writeRouteTreeFile, routeNodeShadowCache>>
     ELSE /\ Goto(f, "route")
          /\ routeNodeShadowCache' = [routeNodeShadowCache EXCEPT ![f] = disk[f].mtime]
          /\ writeRouteTreeFile' = (writeRouteTreeFile \/ seen[f].content = "empty")
          /\ overlooked' = IF disk[f].content = "route" THEN overlooked ELSE overlooked \cup {f}
  /\ UNCHANGED <<disk, tree, clock, edits, watcher, fileEventQueue, pc, tempQueue, changed,
                 seen, routeNodeCache, routeTreeFileCache>>

-----------------------------------------------------------------------------
Settled == \A f \in File : job[f] \in {"none", "route", "rerun", "error"}
Routes == {f \in File : job[f] = "route"}
Reruns == {[type |-> "update", path |-> f] : f \in {g \in File : job[g] = "rerun"}}

\* generatorInternal ends, and with it its variables.
Return == /\ job' = [f \in File |-> "none"] /\ seen' = [f \in File |-> NoFile]
          /\ writeRouteTreeFile' = FALSE /\ changed' = FALSE

\* The loop goes on if events are queued, or the run ends with an error.
Continue(more) == /\ fileEventQueue' = fileEventQueue \cup more
                  /\ pc' = IF fileEventQueue' = {} THEN "idle" ELSE "start"
                  /\ Return
Throw == pc' = "idle" /\ UNCHANGED fileEventQueue /\ Return

\* Some file failed: errors that ask for it queue another round, others end
\* the run.
Reject ==
  /\ pc = "process" /\ Settled
  /\ \E f \in File : job[f] \in {"rerun", "error"}
  /\ IF \E f \in File : job[f] = "error"
     THEN Throw ELSE Continue(Reruns)
  /\ UNCHANGED <<files, tempQueue, caches>>

\* The tree file is compared with its cache, and read if it is another one.
ReadTree ==
  /\ pc = "process" /\ Settled /\ \A f \in File : job[f] \notin {"rerun", "error"}
  /\ pc' = "tree"
  /\ IF routeTreeFileCache = NoTree \/ tree.mtime # routeTreeFileCache.mtime
     THEN /\ writeRouteTreeFile' = TRUE
          /\ routeTreeFileCache' = IF tree = NoTree THEN routeTreeFileCache ELSE tree
     ELSE UNCHANGED <<writeRouteTreeFile, routeTreeFileCache>>
  /\ UNCHANGED <<files, fileEventQueue, tempQueue, changed, job, seen,
                 routeNodeCache, routeNodeShadowCache>>

\* Mutant of OtherFiles: the caches are only counted.
OtherSize == Cardinality({f \in File : routeNodeCache[f] # 0})
             # Cardinality({f \in File : routeNodeShadowCache[f] # 0})
\* Routes have come or gone: the caches have other files.
OtherFiles == \/ OtherSize
              \/ \E f \in File : routeNodeCache[f] # 0 /\ routeNodeShadowCache[f] = 0

SwapCaches == /\ routeNodeCache' = routeNodeShadowCache
              /\ routeNodeShadowCache' = [f \in File |-> 0]

\* The tree is built, and written unless it is as it should be and while it
\* has not been touched.
BuildTree ==
  /\ pc = "tree"
  /\ IF ~(writeRouteTreeFile \/ OtherFiles)
        \/ (routeTreeFileCache # NoTree /\ routeTreeFileCache.routes = Routes)
     THEN SwapCaches /\ Continue({})
     ELSE /\ UNCHANGED <<routeNodeCache, routeNodeShadowCache>>
          /\ IF tree.mtime = routeTreeFileCache.mtime
             THEN pc' = "renameTree" /\ UNCHANGED <<fileEventQueue, changed, work>>
             ELSE IF tree = NoTree THEN Throw
             ELSE Continue({[type |-> "update", path |-> Tree]})
  /\ UNCHANGED <<files, tempQueue, routeTreeFileCache>>

RenameTree ==
  /\ pc = "renameTree" /\ pc' = "statTree"
  /\ clock' = clock + 1
  /\ tree' = [mtime |-> clock', routes |-> Routes]
  /\ Reported(IF tree = NoTree THEN "create" ELSE "update", Tree)
  /\ overlooked' = overlooked \ {Tree}
  /\ UNCHANGED <<disk, edits, fileEventQueue, tempQueue, changed, work, caches>>

StatTree ==
  /\ pc = "statTree"
  /\ IF tree = NoTree
     THEN Throw /\ UNCHANGED <<overlooked, caches>>
     ELSE /\ routeTreeFileCache' = [mtime |-> tree.mtime, routes |-> Routes]
          /\ overlooked' = IF tree.routes = Routes THEN overlooked ELSE overlooked \cup {Tree}
          /\ SwapCaches /\ Continue({})
  /\ UNCHANGED <<disk, tree, clock, edits, watcher, tempQueue>>

Generate == \/ TakeQueue \/ List \/ Reject \/ ReadTree
            \/ BuildTree \/ RenameTree \/ StatTree
            \/ \E e \in tempQueue : Compare(e)
            \/ \E f \in File : IsFresh(f) \/ ReadFile(f) \/ Transform(f)
                             \/ Rename(f) \/ StatFile(f)
Edit == \/ \E f \in File, c \in Contents : Save(f, c)
        \/ \E f \in File : Delete(f)
        \/ \E how \in Tampering : Tamper(how)
Next == Edit \/ Generate \/ \E e \in watcher : Run(e)

\* The watcher reports what it has seen and the run goes on.
Fairness == WF_vars(Generate) /\ WF_vars(\E e \in watcher : Run(e))
Spec == Init /\ [][Next]_vars /\ Fairness

-----------------------------------------------------------------------------
IsRoute(f) == disk[f] # NoFile /\ disk[f].content # "plain"
AtRest == pc = "idle" /\ fileEventQueue = {} /\ watcher = {}

\* The tree has the routes of the files.  Of a file in overlooked, and of a
\* tree file there, the generator holds somebody else's version for its own
\* and does not look at it again before the next change.
TreeIsRight ==
  Tree \notin overlooked =>
    \A f \in File \ overlooked : f \in tree.routes <=> IsRoute(f)

\* A round that fails leaves what it has remembered in the shadow cache, and
\* a later one takes it for its own: a file gone or no route by then makes
\* the caches agree where the files do not.  Nothing of it is left when the
\* tree is written.
Writing == pc \in {"tree", "renameTree", "statTree"}
NoLeftOver ==
  Writing => \A f \in File : routeNodeShadowCache[f] # 0 => job[f] = "route"

\* With every event worked off, the route tree file has the routes of the
\* files: the modification times in the caches, the early exits and the
\* "no need to write" of generatorInternal never hide a change, unless a
\* failed round has left entries in the shadow cache, or the change came
\* between a rename and its stat.
UpToDate == AtRest => TreeIsRight
UpToDateUnlessLeftOver == []NoLeftOver => []UpToDate

\* The cache knows a version of a file only when that version is a route:
\* what was transformed, or read and found as it should be, is what is on
\* disk under the modification time that is remembered.  The one way out is
\* the stat of safeFileWrite, which takes the time of whatever it finds.
Remembered(cache) ==
  \A f \in File \ overlooked :
    cache[f] # 0 /\ disk[f].mtime = cache[f] => disk[f].content = "route"
KnownIsRoute == Remembered(routeNodeCache) /\ Remembered(routeNodeShadowCache)

\* "Continuously watches the specified directories and regenerates routes as
\* needed." (docs/router/installation/with-router-cli.md:66)
Regenerates == <>[]TreeIsRight

\* The same unless an event is left in the queue of a run that has ended, or
\* entries of a failed round in the shadow cache.
NothingForgotten == pc = "idle" => fileEventQueue = {}
RegeneratesUnlessForgotten == []NothingForgotten /\ []NoLeftOver => Regenerates
=============================================================================
